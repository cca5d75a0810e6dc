--------------------------- MODULE Ledgers_proofs ---------------------------
(***************************************************************************)
(* Proofs about what is held: peg-ins, for any nodes, transactions and     *)
(* outputs, whatever the scans, crashes and reorganisations of the model   *)
(* do; the deposits of a teller, for any accounts, keys, requests and      *)
(* amounts, with the sums over finite sets that its balances are; and a    *)
(* chain on disk, for any transactions, blocks, claims and faults, with    *)
(* what its folds over sequences come to.                                  *)
(***************************************************************************)
EXTENDS PegIn, Teller, ChainStore, TLAPS, FiniteSetTheorems, SequenceTheorems, WellFoundedInduction

\* The peg-in records, the claims and the outpoints that a scan with or without a wallet
\* can come to.
Records == UNION {PeginAt(x[1], x[2], x[3]) : x \in Txs \X Nat \X BOOLEAN}
PegClaims ==
    {c \in [op : Txs \X Nat, amount : {Outputs[tx][i].value : tx \in Txs, i \in Nat},
            script : UNION {Marked[tx] : tx \in Txs}] :
        /\ c.script \in Marked[c.op[1]] /\ c.amount = Outputs[c.op[1]][c.op[2]].value
        /\ \E w \in BOOLEAN : c.op[2] \in PegOutput[c.op[1]][w]}
PegOutpoints == {op \in Txs \X Nat : \E w \in BOOLEAN : op[2] \in PegOutput[op[1]][w]}
State == [scanned : Nat, pegins : SUBSET Records]

\* Every node's record, on disk too, holds peg-ins as a scan finds them, and what it wants
\* claimed comes from them.
RecordsAreScanned ==
    /\ pegins \in [Nodes -> State] /\ file \in [Nodes -> SUBSET State]
    /\ wanted \in [Nodes -> SUBSET PegClaims]

\* A proposal's markers name outpoints a scan chose.
ProposalsNamePegins ==
    pending # <<>> =>
        \A i \in DOMAIN pending[1].coinbase :
            ParseClaimText(pending[1].coinbase[i].spk) \subseteq PegOutpoints

\* What is claimed is as deep as the peg asks for, and so deeper than any block that is
\* ever replaced.
Backed(op) == \E h \in 1 .. Len(parent) + 1 - PegConfirmations : op[1] \in parent[h]

ClaimsAreDeep ==
    \A op \in claims : op \in PegOutpoints /\ op[2] \in Paying[op[1]] /\ Backed(op)

IInv ==
    /\ parent \in Seq(SUBSET Txs)
    /\ RecordsAreScanned /\ ProposalsNamePegins /\ ClaimsAreDeep

-----------------------------------------------------------------------------
(* What the operators compute. *)

\* A non-empty set of naturals has a least member, which is what Min chooses.
LEMMA MinMember ==
  ASSUME NEW S, S \subseteq Nat, S # {}
  PROVE  Min(S) \in S /\ \A y \in S : Min(S) <= y
<1> DEFINE R == OpToRel(<, Nat)
<1>1. IsWellFoundedOn(R, Nat)
  BY NatLessThanWellFounded
<1>2. \E x \in S : \A y \in S : ~ (<<y, x>> \in R)
  <2> HIDE DEF R
  <2> QED
    BY <1>1, WFMin
<1>3. PICK x \in S : \A y \in S : ~ (<<y, x>> \in R)
  BY <1>2
<1>4. \A y \in Nat : y < x => <<y, x>> \in R
  BY <1>3 DEF OpToRel
<1>5. \A y \in S : x <= y
  <2> SUFFICES ASSUME NEW y \in S PROVE x <= y
    OBVIOUS
  <2>1. x \in Nat /\ y \in Nat
    OBVIOUS
  <2> HIDE DEF R
  <2>2. ~ (y < x)
    BY <1>3, <1>4, <2>1
  <2> QED
    BY <2>1, <2>2
<1> QED
  BY <1>3, <1>5 DEF Min

\* The output chosen as the peg is one of the transaction's; where an output pays the
\* peg's own script, it is the first of these, with or without a wallet.
LEMMA PegOutputIs ==
  ASSUME NEW tx \in Txs, NEW w \in BOOLEAN, NEW i \in PegOutput[tx][w]
  PROVE  /\ i \in DOMAIN Outputs[tx] /\ i \in Nat
         /\ Paying[tx] # {} => i = Min(Paying[tx])
<1> DEFINE taproots == {j \in DOMAIN Outputs[tx] : IsP2tr(Outputs[tx][j].spk)}
           owned == {j \in taproots : LET v == AddressView(Outputs[tx][j].spk)
                                      IN  v.owned /\ ~v.change}
           from == CASE Paying[tx] # {} -> Paying[tx]
                     [] Paying[tx] = {} /\ w -> IF FundedTransaction(tx) THEN {} ELSE owned
                     [] OTHER -> taproots
<1>1. PegOutput[tx][w] = IF from = {} THEN {} ELSE {Min(from)}
  BY DEF PegOutput
<1>2. Paying[tx] # {} => from = Paying[tx]
  OBVIOUS
<1>3. Paying[tx] \subseteq DOMAIN Outputs[tx]
  BY DEF Paying
<1>4. from \subseteq DOMAIN Outputs[tx]
  <2>1. taproots \subseteq DOMAIN Outputs[tx] /\ owned \subseteq DOMAIN Outputs[tx]
    OBVIOUS
  <2> HIDE DEF taproots, owned
  <2> QED
    BY <1>3, <2>1
<1>5. DOMAIN Outputs[tx] \subseteq Nat
  BY PegInAssumption
<1> HIDE DEF from
<1>6. from # {} /\ i = Min(from)
  BY <1>1
<1>7. Min(from) \in from
  BY <1>4, <1>5, <1>6, MinMember
<1> QED
  BY <1>2, <1>4, <1>5, <1>6, <1>7

\* A marker names one script.
LEMMA MarkedOnce ==
  ASSUME NEW tx \in Txs, NEW s \in Marked[tx], NEW r \in Marked[tx]
  PROVE  s = r
  BY DEF Marked, ParsePegMarker, OpReturnData

LEMMA PegOutputOnce ==
  ASSUME NEW tx \in Txs, NEW w \in BOOLEAN, NEW i \in PegOutput[tx][w], NEW j \in PegOutput[tx][w]
  PROVE  i = j
  BY DEF PegOutput

\* There are finitely many claims to be made.
LEMMA PegClaimsFinite == IsFiniteSet(PegClaims)
<1> DEFINE D == Txs \X BOOLEAN
           of(c, x) == c.op[1] = x[1] /\ c.op[2] \in PegOutput[x[1]][x[2]]
           f == [x \in D |-> CHOOSE c \in PegClaims : of(c, x)]
           T == {f[x] : x \in D}
<1>1. IsFiniteSet(D)
  <2>1. BOOLEAN = {TRUE} \cup {FALSE}
    OBVIOUS
  <2>2. IsFiniteSet({TRUE} \cup {FALSE})
    BY FS_Singleton, FS_AddElement
  <2> QED
    BY <2>1, <2>2, FS_Product, PegInAssumption
<1>2. f \in Surjection(D, T)
  BY DEF Surjection
<1>3. IsFiniteSet(T)
  <2> HIDE DEF D, T, f
  <2> QED
    BY <1>1, <1>2, FS_Surjection
<1>4. PegClaims \subseteq T
  <2> SUFFICES ASSUME NEW c \in PegClaims PROVE c \in T
    OBVIOUS
  <2>1. PICK w \in BOOLEAN : c.op[2] \in PegOutput[c.op[1]][w]
    BY DEF PegClaims
  <2> DEFINE x == <<c.op[1], w>>
             e == f[x]
  <2>2. x \in D /\ of(c, x) /\ x[1] = c.op[1] /\ x[2] = w /\ c.op[1] \in Txs
    BY <2>1 DEF PegClaims
  <2>3. e = CHOOSE d \in PegClaims : of(d, x)
    BY <2>2
  <2>4. e \in PegClaims /\ of(e, x)
    BY <2>2, <2>3
  <2> HIDE DEF e
  <2>5. e.op[1] = c.op[1] /\ e.op[2] = c.op[2]
    BY <2>2, <2>4, PegOutputOnce DEF PegClaims
  <2>6. /\ e.op \in Txs \X Nat /\ c.op \in Txs \X Nat
        /\ e.amount = Outputs[e.op[1]][e.op[2]].value /\ c.amount = Outputs[c.op[1]][c.op[2]].value
        /\ e.script \in Marked[e.op[1]] /\ c.script \in Marked[c.op[1]]
    BY <2>4 DEF PegClaims
  <2>7. e.op = c.op
    BY <2>5, <2>6
  <2>8. e.script = c.script
    BY <2>2, <2>5, <2>6, MarkedOnce
  <2>9. e.amount = c.amount
    BY <2>5, <2>6
  <2>10. e = c
    BY <2>4, <2>7, <2>8, <2>9 DEF PegClaims
  <2> QED
    BY <2>2, <2>10 DEF e
<1> QED
  BY <1>3, <1>4, FS_Subset

\* A record of a scan is a claim to be made.
LEMMA RecordIsClaim ==
  ASSUME NEW p \in Records
  PROVE  /\ [op |-> OutPoint(p), amount |-> p.amount, script |-> p.script] \in PegClaims
         /\ OutPoint(p) \in PegOutpoints
<1>1. PICK x \in Txs \X Nat \X BOOLEAN : p \in PeginAt(x[1], x[2], x[3])
  BY DEF Records
<1>2. x[1] \in Txs /\ x[3] \in BOOLEAN
  OBVIOUS
<1>3. PICK i \in PegOutput[x[1]][x[3]], s \in Marked[x[1]] :
        p = [tx |-> x[1], vout |-> i, amount |-> Outputs[x[1]][i].value, script |-> s,
             height |-> x[2]]
  BY <1>1 DEF PeginAt
<1>4. i \in Nat
  BY <1>2, PegOutputIs
<1>5. /\ OutPoint(p) = <<x[1], i>> /\ p.amount = Outputs[x[1]][i].value /\ p.script = s
      /\ OutPoint(p)[1] = x[1] /\ OutPoint(p)[2] = i
  BY <1>3 DEF OutPoint
<1>6. OutPoint(p) \in Txs \X Nat
  BY <1>2, <1>4, <1>5
<1> DEFINE c == [op |-> OutPoint(p), amount |-> p.amount, script |-> p.script]
<1>7. /\ c.op = OutPoint(p) /\ c.amount = p.amount /\ c.script = p.script
      /\ c \in [op : Txs \X Nat, amount : {p.amount}, script : {p.script}]
  BY <1>6
<1> HIDE DEF c
<1>8. p.script \in UNION {Marked[tx] : tx \in Txs}
  BY <1>2, <1>3, <1>5
<1>9. p.amount \in {Outputs[tx][j].value : tx \in Txs, j \in Nat}
  BY <1>2, <1>4, <1>5
<1>10. c.op[2] \in PegOutput[c.op[1]][x[3]] /\ c.op \in PegOutpoints
  BY <1>2, <1>5, <1>6, <1>7 DEF PegOutpoints
<1>11. c \in PegClaims
  BY <1>2, <1>3, <1>5, <1>7, <1>8, <1>9, <1>10 DEF PegClaims
<1> QED
  BY <1>7, <1>10, <1>11 DEF c

\* A scan of the parent's blocks finds records.
LEMMA ScanFindsRecords ==
  ASSUME parent \in Seq(SUBSET Txs), NEW from \in Nat \ {0}, NEW w \in BOOLEAN
  PROVE  ScanPegins(from, BlockCount, w) \subseteq Records
<1> SUFFICES ASSUME NEW p \in ScanPegins(from, BlockCount, w) PROVE p \in Records
  OBVIOUS
<1>1. PICK h \in from .. BlockCount : p \in UNION {PeginAt(tx, h, w) : tx \in BlockAt(h)}
  BY DEF ScanPegins
<1>2. PICK tx \in BlockAt(h) : p \in PeginAt(tx, h, w)
  BY <1>1
<1>3. h \in 1 .. Len(parent) /\ h \in Nat
  BY <1>1 DEF BlockCount
<1>4. tx \in Txs
  BY <1>2, <1>3 DEF BlockAt
<1> DEFINE x == <<tx, h, w>>
<1>5. x \in Txs \X Nat \X BOOLEAN /\ p \in PeginAt(x[1], x[2], x[3])
  BY <1>2, <1>3, <1>4
<1> HIDE DEF x
<1> QED
  BY <1>5 DEF Records

\* The markers of a block's claims name the outpoints claimed.
LEMMA CoinbaseNames ==
  ASSUME NEW list \in Seq(PegClaims)
  PROVE  \A i \in DOMAIN Coinbase(list) :
             ParseClaimText(Coinbase(list)[i].spk) \subseteq PegOutpoints
<1> SUFFICES ASSUME NEW i \in DOMAIN Coinbase(list)
             PROVE  ParseClaimText(Coinbase(list)[i].spk) \subseteq PegOutpoints
  OBVIOUS
<1> DEFINE c == list[(i + 1) \div 2]
<1>1. i \in 1 .. 2 * Len(list) /\ Len(list) \in Nat
  BY DEF Coinbase
<1>2. (i + 1) \div 2 \in 1 .. Len(list)
  BY <1>1
<1>3. c \in PegClaims
  BY <1>2
<1>4. Coinbase(list)[i] = IF i % 2 = 1 THEN [spk |-> <<"script", c.script>>, value |-> c.amount]
                          ELSE [spk |-> ClaimMarker(c.op), value |-> 0]
  BY <1>1 DEF Coinbase
<1> HIDE DEF c
<1>5. CASE i % 2 = 1
  <2>1. Coinbase(list)[i].spk = <<"script", c.script>>
    BY <1>4, <1>5
  <2>2. Coinbase(list)[i].spk[1] # "data"
    BY <2>1
  <2> QED
    BY <2>2 DEF ParseClaimText, OpReturnData
<1>6. CASE i % 2 # 1
  <2>1. Coinbase(list)[i].spk = <<"data", [tag |-> "claim", op |-> c.op]>>
    BY <1>4, <1>6 DEF ClaimMarker, Data
  <2>2. OpReturnData(Coinbase(list)[i].spk) = {[tag |-> "claim", op |-> c.op]}
    BY <2>1 DEF OpReturnData
  <2>3. ASSUME NEW op \in ParseClaimText(Coinbase(list)[i].spk) PROVE op = c.op
    <3>1. PICK d \in OpReturnData(Coinbase(list)[i].spk) : op = d.op
      BY <2>3 DEF ParseClaimText
    <3> QED
      BY <2>2, <3>1
  <2> QED
    BY <1>3, <2>3 DEF PegClaims, PegOutpoints
<1> QED
  BY <1>5, <1>6

\* Every order of a set of claims is a sequence of them.
LEMMA OrdersAreSequences ==
  ASSUME NEW want \in SUBSET PegClaims, NEW list \in SetToSeqs(want)
  PROVE  list \in Seq(PegClaims)
<1>1. IsFiniteSet(want)
  BY PegClaimsFinite, FS_Subset
<1>2. Cardinality(want) \in Nat
  BY <1>1, FS_CardinalityType
<1>3. list \in [1 .. Cardinality(want) -> want]
  BY DEF SetToSeqs
<1>4. list \in [1 .. Cardinality(want) -> PegClaims]
  BY <1>3
<1> QED
  BY <1>2, <1>4

\* A claim that passes the check of another signer is deep on the parent and pays the peg.
LEMMA CheckedIsDeep ==
  ASSUME parent \in Seq(SUBSET Txs), NEW c, c.op \in PegOutpoints, ClaimOk(c)
  PROVE  c.op[2] \in Paying[c.op[1]] /\ Backed(c.op)
<1>0. c.op[1] \in Txs /\ Len(parent) \in Nat /\ PegConfirmations \in Nat
  BY PegInAssumption DEF PegOutpoints
<1>1. PICK o \in TxOut(c.op) : Deep(o) /\ o.spk = Challenge
  BY DEF ClaimOk
<1>2. PICK h \in HeightOf(c.op[1]) :
        o = [confirmations |-> BlockCount + 1 - h, value |-> Outputs[c.op[1]][c.op[2]].value,
             spk |-> Outputs[c.op[1]][c.op[2]].spk]
  BY <1>1 DEF TxOut
<1>3. h \in 1 .. Len(parent) /\ c.op[1] \in parent[h]
  BY DEF HeightOf, BlockAt
<1>4. Len(parent) + 1 - h >= PegConfirmations
  BY <1>1, <1>2 DEF Deep, BlockCount
<1>5. h \in 1 .. Len(parent) + 1 - PegConfirmations
  BY <1>0, <1>3, <1>4
<1>6. Outputs[c.op[1]][c.op[2]].spk = Challenge
  BY <1>1, <1>2
<1>7. c.op[2] \in DOMAIN Outputs[c.op[1]]
  BY <1>0, PegOutputIs DEF PegOutpoints
<1> QED
  BY <1>3, <1>5, <1>6, <1>7 DEF Paying, Backed

-----------------------------------------------------------------------------
(* The first states, and one lemma per action. *)

LEMMA EmptyStateType == EmptyState \in State /\ Loaded(EmptyState) \in State
  BY PegInAssumption DEF EmptyState, Loaded, State

LEMMA LoadedType ==
  ASSUME NEW s \in State
  PROVE  Loaded(s) \in State
  BY PegInAssumption DEF Loaded, State

LEMMA InitIInv == Init => IInv
<1> SUFFICES ASSUME Init PROVE IInv
  OBVIOUS
<1>1. RecordsAreScanned
  BY EmptyStateType DEF Init, RecordsAreScanned
<1> QED
  BY <1>1 DEF Init, IInv, ProposalsNamePegins, ClaimsAreDeep

\* A step that leaves the parent, the claims and the proposal alone keeps what is said
\* of them.
LEMMA FrameIInv ==
  ASSUME IInv, UNCHANGED <<parent, claims, pending>>, RecordsAreScanned'
  PROVE  IInv'
  BY DEF IInv, ProposalsNamePegins, ClaimsAreDeep, Backed

LEMMA PegTickIInv ==
  ASSUME IInv, NEW n \in Nodes, NEW scans \in BOOLEAN, NEW writes \in BOOLEAN,
         PegTick(n, scans, writes)
  PROVE  IInv'
<1> DEFINE tip == BlockCount
           s == IF scans /\ tip > pegins[n].scanned
                THEN Scanned(pegins[n], tip, n \in WalletNodes) ELSE pegins[n]
<1>1. pegins[n] \in State /\ BlockCount \in Nat
  BY DEF IInv, RecordsAreScanned, BlockCount
<1>2. s \in State
  <2>1. pegins[n].scanned + 1 \in Nat \ {0} /\ pegins[n].pegins \subseteq Records
    BY <1>1 DEF State
  <2>2. (n \in WalletNodes) \in BOOLEAN
    OBVIOUS
  <2>3. ScanPegins(pegins[n].scanned + 1, tip, n \in WalletNodes) \subseteq Records
    BY <2>1, <2>2, ScanFindsRecords DEF IInv
  <2>4. Scanned(pegins[n], tip, n \in WalletNodes) \in State
    BY <1>1, <2>1, <2>3 DEF Scanned, NewPegins, State
  <2> QED
    BY <1>1, <2>4
<1>3. /\ pegins' = [pegins EXCEPT ![n] = s]
      /\ file' = file \/ file' = [file EXCEPT ![n] = {s}]
      /\ wanted' = [wanted EXCEPT ![n] = ClaimableByTransaction(s.pegins, tip)]
      /\ UNCHANGED <<parent, claims, pending>>
  BY DEF PegTick, WriteJson
<1> HIDE DEF s
<1>4. ClaimableByTransaction(s.pegins, tip) \subseteq PegClaims
  <2>1. s.pegins \subseteq Records
    BY <1>2 DEF State
  <2> QED
    BY <2>1, RecordIsClaim DEF ClaimableByTransaction
<1>5. RecordsAreScanned'
  BY <1>2, <1>3, <1>4 DEF IInv, RecordsAreScanned
<1> QED
  BY <1>3, <1>5, FrameIInv

LEMMA ProposeIInv ==
  ASSUME IInv, NEW n \in Nodes, Propose(n)
  PROVE  IInv'
<1> DEFINE want == {c \in wanted[n] : ~Claimed(c.op)}
<1>1. want \in SUBSET PegClaims
  BY DEF IInv, RecordsAreScanned
<1>2. PICK list \in SetToSeqs(want) : pending' = <<[by |-> n, coinbase |-> Coinbase(list)]>>
  BY DEF Propose
<1> HIDE DEF want
<1>3. list \in Seq(PegClaims)
  BY <1>1, <1>2, OrdersAreSequences
<1>4. pending'[1].coinbase = Coinbase(list)
  BY <1>2
<1>5. ProposalsNamePegins'
  BY <1>3, <1>4, CoinbaseNames DEF ProposalsNamePegins
<1>6. UNCHANGED <<parent, claims, pegins, file, wanted>>
  BY DEF Propose
<1> QED
  BY <1>5, <1>6 DEF IInv, RecordsAreScanned, ClaimsAreDeep, Backed

LEMMA SealIInv ==
  ASSUME IInv, NEW m \in Nodes, Seal(m)
  PROVE  IInv'
<1> DEFINE cb == pending[1].coinbase
           sealed == ParseClaims(cb).claims
<1>1. /\ pending # <<>> /\ CheckClaims(cb) /\ UNCHANGED <<parent, pegins, file>>
      /\ claims' = claims \cup {c.op : c \in sealed}
      /\ wanted' = [wanted EXCEPT ![pending[1].by] = {}] /\ pending' = <<>>
  BY DEF Seal
<1>2. \A c \in sealed : c.op \in PegOutpoints
  <2> SUFFICES ASSUME NEW c \in sealed PROVE c.op \in PegOutpoints
    OBVIOUS
  <2>1. PICK i \in DOMAIN cb : ParseClaimText(cb[i].spk) # {}
                               /\ c.op = CHOOSE op \in ParseClaimText(cb[i].spk) : TRUE
    BY DEF ParseClaims
  <2>2. c.op \in ParseClaimText(cb[i].spk)
    BY <2>1
  <2> QED
    BY <1>1, <2>1, <2>2 DEF IInv, ProposalsNamePegins
<1>3. \A c \in sealed : ClaimOk(c)
  BY <1>1 DEF CheckClaims
<1>4. \A c \in sealed : c.op[2] \in Paying[c.op[1]] /\ Backed(c.op)
  BY <1>2, <1>3, CheckedIsDeep DEF IInv
<1> HIDE DEF cb, sealed
<1>5. ClaimsAreDeep'
  BY <1>1, <1>2, <1>4 DEF IInv, ClaimsAreDeep, Backed
<1>6. RecordsAreScanned'
  BY <1>1 DEF IInv, RecordsAreScanned
<1> QED
  BY <1>1, <1>5, <1>6 DEF IInv, ProposalsNamePegins

\* Only blocks above what is claimed are ever replaced.
LEMMA ParentIInv ==
  ASSUME IInv,
         \/ \E S \in SUBSET Txs : Mine(S)
         \/ \E d \in 1 .. PegConfirmations - 1 : \E new \in [1 .. d + 1 -> SUBSET Txs] : Reorg(d, new)
  PROVE  IInv'
<1> DEFINE kept == 1 .. Len(parent) + 1 - PegConfirmations
<1>1. UNCHANGED <<claims, pegins, file, wanted, pending>>
  BY DEF Mine, Reorg
<1>2. /\ parent' \in Seq(SUBSET Txs) /\ Len(parent') = Len(parent) + 1
      /\ \A h \in kept : parent'[h] = parent[h]
  <2>0. parent \in Seq(SUBSET Txs) /\ Len(parent) \in Nat /\ PegConfirmations \in Nat \ {0}
    BY PegInAssumption DEF IInv
  <2>1. ASSUME NEW S \in SUBSET Txs, Mine(S)
        PROVE  /\ parent' \in Seq(SUBSET Txs) /\ Len(parent') = Len(parent) + 1
               /\ \A h \in kept : parent'[h] = parent[h]
    BY <2>0, <2>1 DEF Mine
  <2>2. ASSUME NEW d \in 1 .. PegConfirmations - 1, NEW new \in [1 .. d + 1 -> SUBSET Txs],
               Reorg(d, new)
        PROVE  /\ parent' \in Seq(SUBSET Txs) /\ Len(parent') = Len(parent) + 1
               /\ \A h \in kept : parent'[h] = parent[h]
    <3> DEFINE b == SubSeq(parent, 1, Len(parent) - d)
    <3>1. parent' = b \o new /\ d <= Len(parent)
      BY <2>2 DEF Reorg, BlockCount
    <3>2. /\ b \in Seq(SUBSET Txs) /\ Len(b) = Len(parent) - d
          /\ \A h \in 1 .. Len(parent) - d : b[h] = parent[h]
      BY <2>0, <3>1
    <3> HIDE DEF b
    <3>0. d \in Nat /\ d + 1 \in Nat /\ d <= PegConfirmations - 1
      BY <2>0
    <3>3. new \in Seq(SUBSET Txs) /\ Len(new) = d + 1
      BY <3>0
    <3>4. kept \subseteq 1 .. Len(parent) - d
      <4> SUFFICES ASSUME NEW h \in kept PROVE h \in 1 .. Len(parent) - d
        OBVIOUS
      <4> QED
        BY <2>0, <3>0, <3>1
    <3>5. /\ parent' \in Seq(SUBSET Txs) /\ Len(parent') = Len(b) + Len(new)
          /\ \A h \in 1 .. Len(b) : parent'[h] = b[h]
      <4>1. \A h \in 1 .. Len(b) + Len(new) :
                (b \o new)[h] = IF h <= Len(b) THEN b[h] ELSE new[h - Len(b)]
        BY <3>2, <3>3, ConcatProperties
      <4>2. b \o new \in Seq(SUBSET Txs) /\ Len(b \o new) = Len(b) + Len(new)
        BY <3>2, <3>3, ConcatProperties
      <4>3. 1 .. Len(b) \subseteq 1 .. Len(b) + Len(new) /\ \A h \in 1 .. Len(b) : h <= Len(b)
        BY <3>2, <3>3
      <4> QED
        BY <3>1, <4>1, <4>2, <4>3
    <3>6. Len(b) + Len(new) = Len(parent) + 1
      BY <2>0, <3>0, <3>2, <3>3
    <3>7. \A h \in kept : parent'[h] = parent[h]
      BY <3>2, <3>4, <3>5
    <3> QED
      BY <3>5, <3>6, <3>7
  <2> QED
    BY <2>1, <2>2
<1>3. ClaimsAreDeep'
  <2> SUFFICES ASSUME NEW op \in claims PROVE Backed(op)'
    BY <1>1 DEF IInv, ClaimsAreDeep
  <2>1. PICK h \in kept : op[1] \in parent[h]
    BY DEF IInv, ClaimsAreDeep, Backed
  <2>2. h \in 1 .. Len(parent') + 1 - PegConfirmations /\ parent'[h] = parent[h]
    BY <1>2, <2>1, PegInAssumption DEF IInv
  <2> QED
    BY <2>1, <2>2 DEF Backed
<1> QED
  BY <1>1, <1>2, <1>3 DEF IInv, RecordsAreScanned, ProposalsNamePegins

LEMMA RestartIInv ==
  ASSUME IInv, NEW n \in Nodes, NEW torn \in BOOLEAN, Restart(n, torn)
  PROVE  IInv'
<1>1. file' \in [Nodes -> SUBSET State]
  BY DEF Restart, IInv, RecordsAreScanned
<1>2. file'[n] \in SUBSET State
  BY <1>1
<1>3. ReadJson(file'[n]) \in State
  BY <1>2, EmptyStateType DEF ReadJson
<1>4. Loaded(ReadJson(file'[n])) \in State
  BY <1>3, LoadedType
<1>5. RecordsAreScanned'
  BY <1>1, <1>4 DEF Restart, IInv, RecordsAreScanned
<1>6. ProposalsNamePegins'
  BY DEF Restart, IInv, ProposalsNamePegins
<1> QED
  BY <1>5, <1>6 DEF Restart, IInv, ClaimsAreDeep, Backed

\* The other steps touch neither the records nor the claims.
LEMMA OtherIInv ==
  ASSUME IInv, NEW n \in Nodes,
         PegCoins(n) \/ (\E op : PayOut(n, op)) \/ Refuse(n) \/ ParentRestart(n)
  PROVE  IInv'
<1>1. UNCHANGED <<parent, claims, pegins, file, wanted>> /\ (pending' = pending \/ pending' = <<>>)
  BY DEF PegCoins, PayOut, Refuse, ParentRestart
<1> QED
  BY <1>1 DEF IInv, RecordsAreScanned, ProposalsNamePegins, ClaimsAreDeep, Backed

LEMMA NextIInv ==
  ASSUME IInv, [Next]_vars
  PROVE  IInv'
<1>1. CASE \E S \in SUBSET Txs : Mine(S)
  BY <1>1, ParentIInv
<1>2. CASE \E d \in 1 .. PegConfirmations - 1 : \E new \in [1 .. d + 1 -> SUBSET Txs] : Reorg(d, new)
  BY <1>2, ParentIInv
<1>3. ASSUME NEW n \in Nodes,
             \/ \E scans, writes \in BOOLEAN : PegTick(n, scans, writes)
             \/ PegCoins(n)
             \/ \E op \in UNION Range(coins) : PayOut(n, op)
             \/ Propose(n) \/ Seal(n) \/ Refuse(n)
             \/ \E torn \in BOOLEAN : Restart(n, torn)
             \/ ParentRestart(n)
      PROVE  IInv'
  BY <1>3, PegTickIInv, ProposeIInv, SealIInv, RestartIInv, OtherIInv
<1>4. CASE UNCHANGED vars
  BY <1>4 DEF vars, IInv, RecordsAreScanned, ProposalsNamePegins, ClaimsAreDeep, Backed
<1> QED
  BY <1>1, <1>2, <1>3, <1>4 DEF Next

-----------------------------------------------------------------------------
(* The theorems. *)

\* What every node knows, asks for, proposes and has claimed stays what a scan of the
\* parent chose, and a claim stays as deep as the peg asks for.
THEOREM PeginInvariant == Spec => []IInv
<1>1. Init => IInv
  BY InitIInv
<1>2. IInv /\ [Next]_vars => IInv'
  BY NextIInv
<1> QED
  BY <1>1, <1>2, PTL DEF Spec

\* A claim is backed for ever: its transaction stays on the parent's best chain, it pays
\* the peg, and no second output of it is ever claimed, whichever node scanned it, with or
\* without a wallet, and however often, and whatever blocks the parent replaces above it.
THEOREM ClaimsAlwaysBacked == Spec => []ClaimsStayBacked
<1>1. IInv => ClaimsStayBacked
  <2> SUFFICES ASSUME IInv, NEW op \in claims
               PROVE  /\ HeightOf(op[1]) # {} /\ op[2] \in Paying[op[1]]
                      /\ \A other \in claims : other[1] = op[1] => other = op
    BY DEF ClaimsStayBacked
  <2>1. \A c \in claims : c \in PegOutpoints /\ c[2] \in Paying[c[1]] /\ Backed(c)
    BY DEF IInv, ClaimsAreDeep
  <2>2. HeightOf(op[1]) # {}
    BY <2>1, PegInAssumption DEF IInv, Backed, HeightOf, BlockAt
  <2>3. \A c \in claims : c \in Txs \X Nat /\ c[2] = Min(Paying[c[1]])
    BY <2>1, PegOutputIs DEF PegOutpoints
  <2> QED
    BY <2>1, <2>2, <2>3
<1> QED
  BY <1>1, PeginInvariant, PTL

-----------------------------------------------------------------------------
(* Sums over finite sets. *)

Total(f, S) == SumFunctionOnSet(f, S)
Pick(s) == CHOOSE x \in s : TRUE
Adds(f, g, S) == g = [s \in SUBSET S |-> IF s = {} THEN 0 ELSE f[Pick(s)] + g[s \ {Pick(s)}]]

LEMMA TotalIs ==
  ASSUME NEW f, NEW S
  PROVE  Total(f, S) = (CHOOSE g : Adds(f, g, S))[S]
<1>1. Total(f, S) = (CHOOSE g : g = [s \in SUBSET S |-> IF s = {} THEN 0
                                     ELSE f[CHOOSE x \in s : TRUE] + g[s \ {CHOOSE x \in s : TRUE}]])[S]
  BY DEF Total, SumFunctionOnSet, FoldFunctionOnSet, MapThenFoldSet
<1> QED
  BY <1>1 DEF Adds, Pick

\* Of any sets of naturals, and of any subsets of a finite set, there is a least one.
LEMMA LeastNat ==
  ASSUME NEW T, T \subseteq Nat, T # {}
  PROVE  \E x \in T : \A y \in T : ~(y < x)
<1> DEFINE R == OpToRel(<, Nat)
<1>1. PICK x \in T : \A y \in T : ~(<<y, x>> \in R)
  <2>1. IsWellFoundedOn(R, Nat)
    BY NatLessThanWellFounded
  <2> HIDE DEF R
  <2> QED
    BY <2>1, WFMin
<1>2. \A y \in T : y < x => <<y, x>> \in R
  BY DEF OpToRel
<1> QED
  BY <1>1, <1>2

LEMMA LeastSubset ==
  ASSUME NEW S, IsFiniteSet(S), NEW T, T \subseteq SUBSET S, T # {}
  PROVE  \E U \in T : IsFiniteSet(U) /\ U \subseteq S /\ \A V \in T : ~(V \subseteq U /\ V # U)
<1>1. \A U \in T : IsFiniteSet(U) /\ Cardinality(U) \in Nat
  BY FS_Subset, FS_CardinalityType
<1>2. PICK N : N = {Cardinality(U) : U \in T}
  OBVIOUS
<1>3. N \subseteq Nat /\ N # {}
  BY <1>1, <1>2
<1>4. PICK n \in N : \A m \in N : ~(m < n)
  BY <1>3, LeastNat
<1>5. PICK U \in T : Cardinality(U) = n
  BY <1>2, <1>4
<1>6. ASSUME NEW V \in T, V \subseteq U, V # U PROVE FALSE
  <2>1. Cardinality(V) <= Cardinality(U) /\ Cardinality(V) # Cardinality(U)
    BY <1>1, <1>6, FS_Subset
  <2>2. Cardinality(V) < n /\ Cardinality(V) \in N
    BY <1>1, <1>2, <1>3, <1>5, <2>1
  <2> QED
    BY <1>4, <2>2
<1> QED
  BY <1>1, <1>5, <1>6

LEMMA PickIn ==
  ASSUME NEW s, s # {}
  PROVE  Pick(s) \in s
  BY DEF Pick

\* The function that adds exists.
Body(f, g, s) == IF s = {} THEN 0 ELSE f[Pick(s)] + g[s \ {Pick(s)}]
UpTo(f, g, S, n) == \A s \in SUBSET S : Cardinality(s) <= n => g[s] = Body(f, g, s)

LEMMA AddsUpTo ==
  ASSUME NEW f, NEW S, IsFiniteSet(S), NEW n \in Nat
  PROVE  \E g : UpTo(f, g, S, n)
<1>1. \A s \in SUBSET S : IsFiniteSet(s) /\ Cardinality(s) \in Nat
  BY FS_Subset, FS_CardinalityType
<1>2. \A s \in SUBSET S : Cardinality(s) = 0 <=> s = {}
  BY <1>1, FS_EmptySet
<1>3. \A s \in SUBSET S : s # {} => s \ {Pick(s)} \in SUBSET S /\ Cardinality(s \ {Pick(s)}) = Cardinality(s) - 1
  BY <1>1, PickIn, FS_RemoveElement
<1> DEFINE T == {m \in Nat : ~\E g : UpTo(f, g, S, m)}
<1> SUFFICES T = {}
  OBVIOUS
<1>4. ASSUME T # {} PROVE FALSE
  <2>1. PICK m \in T : \A y \in T : ~(y < m)
    <3>1. T \subseteq Nat
      OBVIOUS
    <3> HIDE DEF T
    <3> QED
      BY <1>4, <3>1, LeastNat
  <2>2. CASE m = 0
    <3>1. PICK g : g = [s \in SUBSET S |-> 0]
      OBVIOUS
    <3>2. UpTo(f, g, S, 0)
      BY <1>1, <1>2, <3>1 DEF UpTo, Body
    <3> QED
      BY <2>1, <2>2, <3>2
  <2>3. CASE m # 0
    <3>1. m - 1 \in Nat /\ m - 1 < m /\ m \in Nat
      BY <2>1, <2>3
    <3>2. PICK g : UpTo(f, g, S, m - 1)
      BY <2>1, <3>1
    <3> HIDE DEF T
    <3>3. PICK h : h = [s \in SUBSET S |-> IF Cardinality(s) <= m - 1 THEN g[s] ELSE Body(f, g, s)]
      OBVIOUS
    <3>4. \A s \in SUBSET S : h[s] = IF Cardinality(s) <= m - 1 THEN g[s] ELSE Body(f, g, s)
      BY <3>3
    <3>5. \A s \in SUBSET S : h[s] = Body(f, g, s) \/ ~(Cardinality(s) <= m)
      BY <3>2, <3>4 DEF UpTo
    <3>6. ASSUME NEW s \in SUBSET S, Cardinality(s) <= m PROVE Body(f, g, s) = Body(f, h, s)
      <4>1. CASE s = {}
        BY <4>1 DEF Body
      <4>2. CASE s # {}
        <5>1. PICK u : u = s \ {Pick(s)}
          OBVIOUS
        <5>2. u \in SUBSET S /\ Cardinality(u) <= m - 1
          BY <1>1, <1>3, <3>1, <3>6, <4>2, <5>1
        <5>3. h[u] = g[u]
          BY <3>4, <5>2
        <5> QED
          BY <5>1, <5>3 DEF Body
      <4> QED
        BY <4>1, <4>2
    <3>7. UpTo(f, h, S, m)
      BY <3>5, <3>6 DEF UpTo
    <3> QED
      BY <2>1, <3>7 DEF T
  <2> QED
    BY <2>2, <2>3
<1> QED
  BY <1>4

LEMMA AddsExists ==
  ASSUME NEW f, NEW S, IsFiniteSet(S)
  PROVE  \E g : Adds(f, g, S)
<1>1. Cardinality(S) \in Nat
  BY FS_CardinalityType
<1>2. PICK g : UpTo(f, g, S, Cardinality(S))
  BY <1>1, AddsUpTo
<1>3. \A s \in SUBSET S : Cardinality(s) <= Cardinality(S) /\ (s \ {Pick(s)} \in SUBSET S)
  BY FS_Subset
<1>4. PICK h : h = [s \in SUBSET S |-> g[s]]
  OBVIOUS
<1>5. \A s \in SUBSET S : h[s] = g[s] /\ g[s] = Body(f, g, s) /\ h[s \ {Pick(s)}] = g[s \ {Pick(s)}]
  BY <1>2, <1>3, <1>4 DEF UpTo
<1>6. \A s \in SUBSET S : h[s] = Body(f, h, s)
  BY <1>5 DEF Body
<1>7. h = [s \in SUBSET S |-> Body(f, h, s)]
  BY <1>4, <1>6
<1>8. Adds(f, h, S)
  BY <1>7 DEF Adds, Body
<1> QED
  BY <1>8

\* One of a subset agrees with it.
LEMMA AddsAgree ==
  ASSUME NEW f, NEW S, NEW R, IsFiniteSet(R), R \subseteq S, NEW g, NEW h, Adds(f, g, S), Adds(f, h, R)
  PROVE  g[R] = h[R]
<1>1. \A s \in SUBSET S : g[s] = IF s = {} THEN 0 ELSE f[Pick(s)] + g[s \ {Pick(s)}]
  BY DEF Adds
<1>2. \A s \in SUBSET R : h[s] = IF s = {} THEN 0 ELSE f[Pick(s)] + h[s \ {Pick(s)}]
  BY DEF Adds
<1> DEFINE T == {s \in SUBSET R : g[s] # h[s]}
<1> SUFFICES T = {}
  OBVIOUS
<1>3. ASSUME T # {} PROVE FALSE
  <2>1. PICK U \in T : IsFiniteSet(U) /\ \A V \in T : ~(V \subseteq U /\ V # U)
    <3>1. T \subseteq SUBSET R
      OBVIOUS
    <3> HIDE DEF T
    <3> QED
      BY <1>3, <3>1, LeastSubset
  <2>2. U \in SUBSET R /\ U \in SUBSET S /\ g[U] # h[U]
    BY <2>1
  <2>3. U # {}
    BY <1>1, <1>2, <2>2
  <2>4. PICK V : V = U \ {Pick(U)}
    OBVIOUS
  <2>5. V \in SUBSET R /\ V \subseteq U /\ V # U
    BY <2>2, <2>3, <2>4, PickIn
  <2>6. g[V] = h[V]
    BY <2>1, <2>5
  <2> QED
    BY <1>1, <1>2, <2>2, <2>3, <2>4, <2>6
<1> QED
  BY <1>3

LEMMA TotalPick ==
  ASSUME NEW f, NEW S, IsFiniteSet(S)
  PROVE  /\ S = {} => Total(f, S) = 0
         /\ S # {} => Total(f, S) = f[Pick(S)] + Total(f, S \ {Pick(S)})
<1>1. PICK g : Adds(f, g, S) /\ Total(f, S) = g[S]
  BY AddsExists, TotalIs
<1>2. g[S] = IF S = {} THEN 0 ELSE f[Pick(S)] + g[S \ {Pick(S)}]
  <2>1. \A s \in SUBSET S : g[s] = IF s = {} THEN 0 ELSE f[Pick(s)] + g[s \ {Pick(s)}]
    BY <1>1 DEF Adds
  <2> QED
    BY <2>1
<1>3. PICK R : R = S \ {Pick(S)}
  OBVIOUS
<1>4. IsFiniteSet(R) /\ R \subseteq S
  BY <1>3, FS_Subset
<1>5. PICK h : Adds(f, h, R) /\ Total(f, R) = h[R]
  BY <1>4, AddsExists, TotalIs
<1>6. g[R] = h[R]
  BY <1>1, <1>4, <1>5, AddsAgree
<1> QED
  BY <1>1, <1>2, <1>3, <1>5, <1>6

\* Whole numbers have a whole sum, natural ones a natural one.
LEMMA TotalType ==
  ASSUME NEW f, NEW S, IsFiniteSet(S), NEW Num \in {Nat, Int}, \A x \in S : f[x] \in Num
  PROVE  Total(f, S) \in Num
<1> DEFINE T == {s \in SUBSET S : Total(f, s) \notin Num}
<1> SUFFICES T = {}
  OBVIOUS
<1>1. ASSUME T # {} PROVE FALSE
  <2>1. PICK U \in T : IsFiniteSet(U) /\ \A V \in T : ~(V \subseteq U /\ V # U)
    <3>1. T \subseteq SUBSET S
      OBVIOUS
    <3> HIDE DEF T
    <3> QED
      BY <1>1, <3>1, LeastSubset
  <2>2. U \in SUBSET S /\ Total(f, U) \notin Num
    BY <2>1
  <2>3. U # {}
    <3>1. 0 \in Num
      OBVIOUS
    <3> QED
      BY <2>1, <2>2, <3>1, TotalPick
  <2>4. PICK V, p : V = U \ {p} /\ p = Pick(U)
    OBVIOUS
  <2>5. V \in SUBSET S /\ V \subseteq U /\ V # U /\ p \in S
    BY <2>2, <2>3, <2>4, PickIn
  <2>6. Total(f, V) \in Num /\ f[p] \in Num
    BY <2>1, <2>5
  <2>7. Total(f, U) = f[p] + Total(f, V)
    BY <2>1, <2>3, <2>4, TotalPick
  <2> HIDE DEF T
  <2> QED
    BY <2>2, <2>6, <2>7
<1> QED
  BY <1>1

Whole(f, S) == \A x \in S : f[x] \in Int

LEMMA TotalWhole ==
  ASSUME NEW f, NEW S, IsFiniteSet(S), Whole(f, S)
  PROVE  Total(f, S) \in Int
  BY TotalType DEF Whole

\* Any one of them may be taken first.
LEMMA TotalRemove ==
  ASSUME NEW f, NEW S, IsFiniteSet(S), Whole(f, S), NEW y \in S
  PROVE  Total(f, S) = f[y] + Total(f, S \ {y})
<1> DEFINE T == {s \in SUBSET S : \E x \in s : Total(f, s) # f[x] + Total(f, s \ {x})}
<1> SUFFICES T = {}
  OBVIOUS
<1>1. ASSUME T # {} PROVE FALSE
  <2>1. PICK U \in T : IsFiniteSet(U) /\ \A V \in T : ~(V \subseteq U /\ V # U)
    <3>1. T \subseteq SUBSET S
      OBVIOUS
    <3> HIDE DEF T
    <3> QED
      BY <1>1, <3>1, LeastSubset
  <2>2. PICK x \in U : Total(f, U) # f[x] + Total(f, U \ {x})
    BY <2>1
  <2>3. PICK p : p = Pick(U)
    OBVIOUS
  <2>4. U \in SUBSET S /\ U # {} /\ p \in U /\ p \in S /\ x \in S
    BY <2>1, <2>2, <2>3, PickIn
  <2>5. Total(f, U) = f[p] + Total(f, U \ {p})
    BY <2>1, <2>3, <2>4, TotalPick
  <2>6. x # p
    BY <2>2, <2>5
  <2>7. PICK V, W, R : V = U \ {p} /\ W = U \ {x} /\ R = U \ {p, x}
    OBVIOUS
  <2>8. /\ V \subseteq U /\ V # U /\ W \subseteq U /\ W # U /\ V \in SUBSET S /\ W \in SUBSET S
        /\ x \in V /\ p \in W /\ V \ {x} = R /\ W \ {p} = R
    BY <2>4, <2>6, <2>2, <2>7
  <2>9. Total(f, V) = f[x] + Total(f, V \ {x}) /\ Total(f, W) = f[p] + Total(f, W \ {p})
    <3>1. V \notin T /\ W \notin T
      BY <2>1, <2>8
    <3> QED
      BY <2>8, <3>1
  <2> HIDE DEF T
  <2>10. f[x] \in Int /\ f[p] \in Int /\ Total(f, R) \in Int
    <3>1. IsFiniteSet(R) /\ R \subseteq S
      BY <2>4, <2>7, FS_Subset
    <3>2. Whole(f, R)
      BY <3>1 DEF Whole
    <3> QED
      BY <2>4, <3>1, <3>2, TotalWhole DEF Whole
  <2>11. Total(f, U) = f[p] + Total(f, V) /\ Total(f, U) # f[x] + Total(f, W)
    BY <2>2, <2>5, <2>7
  <2>12. Total(f, V) = f[x] + Total(f, R) /\ Total(f, W) = f[p] + Total(f, R)
    BY ONLY <2>8, <2>9
  <2>13. PICK m, n, k : m = f[x] /\ n = f[p] /\ k = Total(f, R)
    OBVIOUS
  <2>14. m \in Int /\ n \in Int /\ k \in Int
    BY ONLY <2>10, <2>13
  <2>15. n + (m + k) = m + (n + k)
    BY ONLY <2>14
  <2>16. Total(f, V) = m + k /\ Total(f, W) = n + k
    BY ONLY <2>12, <2>13
  <2> QED
    BY ONLY <2>11, <2>13, <2>15, <2>16
<1> QED
  BY <1>1

LEMMA TotalAdd ==
  ASSUME NEW f, NEW S, IsFiniteSet(S), NEW y, y \notin S, Whole(f, S), f[y] \in Int
  PROVE  Total(f, S \cup {y}) = f[y] + Total(f, S)
<1>1. PICK U : U = S \cup {y}
  OBVIOUS
<1>2. IsFiniteSet(U) /\ y \in U /\ U \ {y} = S
  BY <1>1, FS_AddElement
<1>3. Whole(f, U)
  BY <1>1 DEF Whole
<1> QED
  BY <1>1, <1>2, <1>3, TotalRemove

Alike(f, g, S) == \A x \in S : f[x] = g[x]

LEMMA TotalAlike ==
  ASSUME NEW f, NEW g, NEW S, IsFiniteSet(S), Alike(f, g, S)
  PROVE  Total(f, S) = Total(g, S)
<1> DEFINE T == {s \in SUBSET S : Total(f, s) # Total(g, s)}
<1> SUFFICES T = {}
  OBVIOUS
<1>1. ASSUME T # {} PROVE FALSE
  <2>1. PICK U \in T : IsFiniteSet(U) /\ \A V \in T : ~(V \subseteq U /\ V # U)
    <3>1. T \subseteq SUBSET S
      OBVIOUS
    <3> HIDE DEF T
    <3> QED
      BY <1>1, <3>1, LeastSubset
  <2>2. U \in SUBSET S /\ Total(f, U) # Total(g, U)
    BY <2>1
  <2>3. U # {}
    BY <2>1, <2>2, TotalPick
  <2>4. PICK V, p : V = U \ {p} /\ p = Pick(U)
    OBVIOUS
  <2>5. V \in SUBSET S /\ V \subseteq U /\ V # U /\ p \in S
    BY <2>2, <2>3, <2>4, PickIn
  <2>6. Total(f, V) = Total(g, V) /\ f[p] = g[p]
    BY <2>1, <2>5 DEF Alike
  <2>7. Total(f, U) = f[p] + Total(f, V) /\ Total(g, U) = g[p] + Total(g, V)
    BY <2>1, <2>3, <2>4, TotalPick
  <2> QED
    BY <2>2, <2>6, <2>7
<1> QED
  BY <1>1

LEMMA TotalEmpty ==
  ASSUME NEW f
  PROVE  Total(f, {}) = 0
  BY TotalPick, FS_EmptySet

LEMMA TotalOne ==
  ASSUME NEW f, NEW y, f[y] \in Int
  PROVE  Total(f, {y}) = f[y]
<1>1. IsFiniteSet({}) /\ y \notin {} /\ Whole(f, {}) /\ {} \cup {y} = {y}
  BY FS_EmptySet DEF Whole
<1>2. Total(f, {y}) = f[y] + Total(f, {})
  BY <1>1, TotalAdd
<1> QED
  BY <1>2, TotalEmpty

-----------------------------------------------------------------------------
(* What the accounts of a ledger add up to. *)

Valued(S) == \A c \in S : c.value \in Nat

LEMMA SumOfIs ==
  ASSUME NEW S, NEW f, IsFiniteSet(S), \A c \in S : f[c] = c.value
  PROVE  SumOf(S) = Total(f, S)
<1>1. PICK g : g = [c \in S |-> c.value]
  OBVIOUS
<1>2. SumOf(S) = Total(g, S)
  BY <1>1 DEF SumOf, SumFunction, Total
<1>3. Alike(g, f, S)
  BY <1>1 DEF Alike
<1> QED
  BY <1>2, <1>3, TotalAlike

LEMMA SumOfType ==
  ASSUME NEW S, IsFiniteSet(S), Valued(S)
  PROVE  SumOf(S) \in Nat
<1>1. PICK f : f = [c \in S |-> c.value]
  OBVIOUS
<1>2. SumOf(S) = Total(f, S)
  BY <1>1 DEF SumOf, SumFunction, Total
<1>3. \A c \in S : f[c] \in Nat
  BY <1>1 DEF Valued
<1> QED
  BY <1>2, <1>3, TotalType

LEMMA SumOfAdd ==
  ASSUME NEW S, IsFiniteSet(S), Valued(S), NEW y, y \notin S, y.value \in Nat
  PROVE  SumOf(S \cup {y}) = y.value + SumOf(S)
<1>1. PICK U : U = S \cup {y}
  OBVIOUS
<1>2. IsFiniteSet(U)
  BY <1>1, FS_AddElement
<1>3. PICK f : f = [c \in U |-> c.value]
  OBVIOUS
<1>4. \A c \in U : f[c] = c.value
  BY <1>3
<1>5. SumOf(U) = Total(f, U) /\ SumOf(S) = Total(f, S)
  <2>1. \A c \in S : f[c] = c.value
    BY <1>1, <1>4
  <2> QED
    BY <1>2, <1>4, <2>1, SumOfIs
<1>6. Whole(f, S) /\ f[y] = y.value /\ f[y] \in Int
  BY <1>1, <1>4 DEF Whole, Valued
<1>7. Total(f, U) = f[y] + Total(f, S)
  BY <1>1, <1>6, TotalAdd
<1> QED
  BY <1>1, <1>5, <1>6, <1>7

Of(S, a) == {d \in S : d.account = a}
If(p, n) == IF p THEN n ELSE 0

LEMMA SumOfOne ==
  ASSUME NEW S, IsFiniteSet(S), Valued(S), NEW y, y \notin S, y.value \in Nat, NEW a
  PROVE  SumOf(Of(S \cup {y}, a)) = SumOf(Of(S, a)) + If(y.account = a, y.value)
<1>1. PICK T : T = Of(S, a)
  OBVIOUS
<1>2. IsFiniteSet(T) /\ Valued(T) /\ y \notin T
  BY <1>1, FS_Subset DEF Of, Valued
<1>3. SumOf(T) \in Nat
  BY <1>2, SumOfType
<1>4. CASE y.account = a
  <2>1. Of(S \cup {y}, a) = T \cup {y}
    BY <1>1, <1>4 DEF Of
  <2>2. SumOf(T \cup {y}) = y.value + SumOf(T)
    BY <1>2, SumOfAdd
  <2>3. y.value + SumOf(T) = SumOf(T) + y.value
    <3>1. PICK m, n : m = y.value /\ n = SumOf(T)
      OBVIOUS
    <3>2. m \in Int /\ n \in Int
      BY <1>3, <3>1
    <3>3. m + n = n + m
      BY ONLY <3>2
    <3> QED
      BY ONLY <3>1, <3>3
  <2>4. If(y.account = a, y.value) = y.value
    BY <1>4 DEF If
  <2> QED
    BY ONLY <1>1, <2>1, <2>2, <2>3, <2>4
<1>5. CASE y.account # a
  <2>1. Of(S \cup {y}, a) = T
    BY <1>1, <1>5 DEF Of
  <2> QED
    BY <1>1, <1>3, <1>5, <2>1 DEF If
<1> QED
  BY <1>4, <1>5

\* The same of requests' amounts.
Amounts(k, S) == \A id \in S : k[id].amount \in Nat

LEMMA MovedIs ==
  ASSUME NEW k, NEW S, NEW f, IsFiniteSet(S), \A id \in S : f[id] = k[id].amount
  PROVE  Moved(k, S) = Total(f, S)
<1>1. PICK g : g = [id \in S |-> k[id].amount]
  OBVIOUS
<1>2. Moved(k, S) = Total(g, S)
  BY <1>1 DEF Moved, SumFunction, Total
<1>3. Alike(g, f, S)
  BY <1>1 DEF Alike
<1> QED
  BY <1>2, <1>3, TotalAlike

LEMMA MovedType ==
  ASSUME NEW k, NEW S, IsFiniteSet(S), Amounts(k, S)
  PROVE  Moved(k, S) \in Nat
<1>1. PICK f : f = [id \in S |-> k[id].amount]
  OBVIOUS
<1>2. Moved(k, S) = Total(f, S)
  BY <1>1 DEF Moved, SumFunction, Total
<1>3. \A id \in S : f[id] \in Nat
  BY <1>1 DEF Amounts
<1> QED
  BY <1>2, <1>3, TotalType

SameOn(h, k, S) == \A id \in S : h[id] = k[id]

LEMMA MovedAlike ==
  ASSUME NEW k, NEW h, NEW S, IsFiniteSet(S), SameOn(h, k, S)
  PROVE  Moved(h, S) = Moved(k, S)
<1>1. PICK f : f = [id \in S |-> k[id].amount]
  OBVIOUS
<1>2. \A id \in S : f[id] = k[id].amount /\ f[id] = h[id].amount
  BY <1>1 DEF SameOn
<1> QED
  BY <1>2, MovedIs

LEMMA MovedAdd ==
  ASSUME NEW k, NEW S, IsFiniteSet(S), Amounts(k, S), NEW i, i \notin S, k[i].amount \in Nat
  PROVE  Moved(k, S \cup {i}) = k[i].amount + Moved(k, S)
<1>1. PICK U : U = S \cup {i}
  OBVIOUS
<1>2. IsFiniteSet(U)
  BY <1>1, FS_AddElement
<1>3. PICK f : f = [id \in U |-> k[id].amount]
  OBVIOUS
<1>4. \A id \in U : f[id] = k[id].amount
  BY <1>3
<1>5. Moved(k, U) = Total(f, U) /\ Moved(k, S) = Total(f, S)
  <2>1. \A id \in S : f[id] = k[id].amount
    BY <1>1, <1>4
  <2> QED
    BY <1>2, <1>4, <2>1, MovedIs
<1>6. Whole(f, S) /\ f[i] = k[i].amount /\ f[i] \in Int
  BY <1>1, <1>4 DEF Whole, Amounts
<1>7. Total(f, U) = f[i] + Total(f, S)
  BY <1>1, <1>6, TotalAdd
<1> QED
  BY <1>1, <1>5, <1>6, <1>7

Sent(k, S, a) == {id \in S : k[id].what = "transfer" /\ k[id].to = a}
Spent(k, S, a) == {id \in S : k[id].what = "transfer" /\ k[id].account = a}

\* One more answered request.
OneMore(h, k, S, i, r) == SameOn(h, k, S) /\ h[i] = r /\ i \notin S /\ r.amount \in Nat

LEMMA MovedOne ==
  ASSUME NEW k, NEW h, NEW S, IsFiniteSet(S), Amounts(k, S), NEW i, NEW r, OneMore(h, k, S, i, r),
         NEW T, NEW U, T \subseteq S, U = T \/ U = T \cup {i}
  PROVE  Moved(h, U) = Moved(k, T) + If(U = T \cup {i}, r.amount)
<1>1. IsFiniteSet(T) /\ SameOn(h, k, T) /\ Amounts(h, T) /\ Amounts(k, T) /\ i \notin T
      /\ h[i].amount \in Nat /\ h[i].amount = r.amount
  BY FS_Subset DEF OneMore, SameOn, Amounts
<1>2. Moved(h, T) = Moved(k, T) /\ Moved(k, T) \in Nat
  BY <1>1, MovedAlike, MovedType
<1>3. Moved(h, T \cup {i}) = r.amount + Moved(k, T)
  BY <1>1, <1>2, MovedAdd
<1>4. CASE U = T \cup {i}
  BY <1>1, <1>2, <1>3, <1>4 DEF If
<1>5. CASE U = T
  <2>1. U # T \cup {i}
    BY <1>1, <1>5
  <2> QED
    BY <1>2, <1>5, <2>1 DEF If
<1> QED
  BY <1>4, <1>5

LEMMA SentOne ==
  ASSUME NEW k, NEW h, NEW S, IsFiniteSet(S), Amounts(k, S), NEW i, NEW r, OneMore(h, k, S, i, r), NEW a
  PROVE  /\ Moved(h, Sent(h, S \cup {i}, a))
              = Moved(k, Sent(k, S, a)) + If(r.what = "transfer" /\ r.to = a, r.amount)
         /\ Moved(h, Spent(h, S \cup {i}, a))
              = Moved(k, Spent(k, S, a)) + If(r.what = "transfer" /\ r.account = a, r.amount)
<1>1. PICK T, U : T = Sent(k, S, a) /\ U = Sent(h, S \cup {i}, a)
  OBVIOUS
<1>2. /\ T \subseteq S /\ i \notin T
      /\ (r.what = "transfer" /\ r.to = a) => U = T \cup {i}
      /\ ~(r.what = "transfer" /\ r.to = a) => U = T
  BY <1>1 DEF Sent, OneMore, SameOn
<1>3. Moved(h, U) = Moved(k, T) + If(U = T \cup {i}, r.amount)
  BY <1>2, MovedOne
<1>4. (U = T \cup {i}) <=> (r.what = "transfer" /\ r.to = a)
  BY <1>2
<1>5. PICK T2, U2 : T2 = Spent(k, S, a) /\ U2 = Spent(h, S \cup {i}, a)
  OBVIOUS
<1>6. /\ T2 \subseteq S /\ i \notin T2
      /\ (r.what = "transfer" /\ r.account = a) => U2 = T2 \cup {i}
      /\ ~(r.what = "transfer" /\ r.account = a) => U2 = T2
  BY <1>5 DEF Spent, OneMore, SameOn
<1>7. Moved(h, U2) = Moved(k, T2) + If(U2 = T2 \cup {i}, r.amount)
  BY <1>6, MovedOne
<1>8. (U2 = T2 \cup {i}) <=> (r.what = "transfer" /\ r.account = a)
  BY <1>6
<1> QED
  BY <1>1, <1>3, <1>4, <1>5, <1>7, <1>8 DEF If

-----------------------------------------------------------------------------
(* What the operations do to a ledger. *)

Shape(l) ==
    l = [type |-> l.type, hash |-> l.hash, genesis |-> l.genesis, updated |-> l.updated,
         entries |-> l.entries, deposits |-> l.deposits, applied |-> l.applied, payouts |-> l.payouts]

\* An account has at most one entry.
EntriesOK(E) ==
    /\ \A e \in E : e.amount \in Nat
    /\ \A e, f \in E : e.url = f.url => e = f

BalanceIn(E, a) ==
    IF {e \in E : e.url = a} = {} THEN 0 ELSE (CHOOSE e \in {f \in E : f.url = a} : TRUE).amount

LEMMA BalanceOf ==
  ASSUME NEW l, NEW a
  PROVE  Balance(l, a) = BalanceIn(l.entries, a)
  BY DEF Balance, EntryIndex, BalanceIn

LEMMA BalanceInIs ==
  ASSUME NEW E, EntriesOK(E), NEW a
  PROVE  /\ BalanceIn(E, a) \in Nat
         /\ \A e \in E : e.url = a => BalanceIn(E, a) = e.amount
         /\ (\A e \in E : e.url # a) => BalanceIn(E, a) = 0
<1>1. PICK F : F = {e \in E : e.url = a}
  OBVIOUS
<1>2. BalanceIn(E, a) = IF F = {} THEN 0 ELSE (CHOOSE e \in F : TRUE).amount
  BY <1>1 DEF BalanceIn
<1>3. PICK g : g = CHOOSE e \in F : TRUE
  OBVIOUS
<1>4. F # {} => g \in F
  BY <1>3
<1>5. \A e \in F : e \in E /\ e.url = a /\ e.amount \in Nat
  BY <1>1 DEF EntriesOK
<1>6. \A e \in F : F # {} /\ e = g
  BY <1>1, <1>4, <1>5 DEF EntriesOK
<1>7. BalanceIn(E, a) = IF F = {} THEN 0 ELSE g.amount
  BY <1>2, <1>3
<1>8. BalanceIn(E, a) \in Nat
  BY <1>4, <1>5, <1>7
<1>9. ASSUME NEW e \in E, e.url = a PROVE BalanceIn(E, a) = e.amount
  <2>1. e \in F
    BY <1>1, <1>9
  <2> QED
    BY <1>6, <1>7, <2>1
<1>10. ASSUME \A e \in E : e.url # a PROVE BalanceIn(E, a) = 0
  <2>1. F = {}
    BY <1>1, <1>10
  <2> QED
    BY <1>7, <2>1
<1> QED
  BY <1>8, <1>9, <1>10

\* Another ledger with other entries.
Written(E, a, n) == (E \ {e \in E : e.url = a}) \cup {[url |-> a, amount |-> n]}

LEMMA WrittenIs ==
  ASSUME NEW E, EntriesOK(E), NEW a, NEW n \in Nat
  PROVE  /\ EntriesOK(Written(E, a, n))
         /\ BalanceIn(Written(E, a, n), a) = n
         /\ \A b : b # a => BalanceIn(Written(E, a, n), b) = BalanceIn(E, b)
<1>1. PICK W, x : W = Written(E, a, n) /\ x = [url |-> a, amount |-> n]
  OBVIOUS
<1>2. x.url = a /\ x.amount = n /\ x \in W
  BY <1>1 DEF Written
<1>3. \A e : e \in W <=> (e = x \/ (e \in E /\ e.url # a))
  BY <1>1 DEF Written
<1>4. EntriesOK(W)
  BY <1>2, <1>3 DEF EntriesOK
<1>5. BalanceIn(W, a) = n
  BY <1>2, <1>4, BalanceInIs
<1>6. ASSUME NEW b, b # a PROVE BalanceIn(W, b) = BalanceIn(E, b)
  <2>1. CASE \E e \in E : e.url = b
    <3>1. PICK e \in E : e.url = b
      BY <2>1
    <3>2. e \in W
      BY <1>3, <1>6, <3>1
    <3> QED
      BY <1>4, <3>1, <3>2, BalanceInIs
  <2>2. CASE \A e \in E : e.url # b
    <3>1. \A e \in W : e.url # b
      BY <1>2, <1>3, <1>6, <2>2
    <3> QED
      BY <1>4, <2>2, <3>1, BalanceInIs
  <2> QED
    BY <2>1, <2>2
<1> QED
  BY <1>1, <1>4, <1>5, <1>6

\* The fields that count.
Fields(m, E, D, A, P) ==
    Shape(m) /\ m.entries = E /\ m.deposits = D /\ m.applied = A /\ m.payouts = P

LEMMA SetBalanceIs ==
  ASSUME NEW l, Shape(l), NEW a, NEW n
  PROVE  Fields(SetBalance(l, a, n), Written(l.entries, a, n), l.deposits, l.applied, l.payouts)
<1>1. PICK E : E = Written(l.entries, a, n)
  OBVIOUS
<1>2. SetBalance(l, a, n) = [l EXCEPT !.entries = E]
  BY <1>1 DEF SetBalance, EntryIndex, Written
<1>3. PICK m : m = [l EXCEPT !.entries = E]
  OBVIOUS
<1>4. m = [type |-> l.type, hash |-> l.hash, genesis |-> l.genesis, updated |-> l.updated,
           entries |-> E, deposits |-> l.deposits, applied |-> l.applied, payouts |-> l.payouts]
  BY <1>3 DEF Shape
<1>5. Fields(m, E, l.deposits, l.applied, l.payouts)
  BY <1>4 DEF Fields, Shape
<1> QED
  BY <1>1, <1>2, <1>3, <1>5

LEMMA TouchIs ==
  ASSUME NEW l, NEW E, NEW D, NEW A, NEW P, Fields(l, E, D, A, P), NEW t
  PROVE  Fields(Touch(l, t), E, D, A, P)
<1>1. PICK u : u = IF t > l.updated THEN t ELSE l.updated
  OBVIOUS
<1>2. PICK m : m = [l EXCEPT !.updated = u]
  OBVIOUS
<1>3. Touch(l, t) = m
  BY <1>1, <1>2 DEF Touch
<1>4. m = [type |-> l.type, hash |-> l.hash, genesis |-> l.genesis, updated |-> u,
           entries |-> l.entries, deposits |-> l.deposits, applied |-> l.applied, payouts |-> l.payouts]
  BY <1>2 DEF Fields, Shape
<1>5. Fields(m, E, D, A, P)
  BY <1>4 DEF Fields, Shape
<1> QED
  BY <1>3, <1>5

LEMMA ExceptDeposits ==
  ASSUME NEW l, NEW E, NEW D, NEW A, NEW P, Fields(l, E, D, A, P), NEW x
  PROVE  Fields([l EXCEPT !.deposits = @ \cup {x}], E, D \cup {x}, A, P)
<1>1. PICK m : m = [l EXCEPT !.deposits = @ \cup {x}]
  OBVIOUS
<1>2. m = [type |-> l.type, hash |-> l.hash, genesis |-> l.genesis, updated |-> l.updated,
           entries |-> E, deposits |-> D \cup {x}, applied |-> A, payouts |-> P]
  BY <1>1 DEF Fields, Shape
<1> QED
  BY <1>1, <1>2 DEF Fields, Shape

LEMMA ExceptApplied ==
  ASSUME NEW l, NEW E, NEW D, NEW A, NEW P, Fields(l, E, D, A, P), NEW i
  PROVE  Fields([l EXCEPT !.applied = @ \cup {i}], E, D, A \cup {i}, P)
<1>1. PICK m : m = [l EXCEPT !.applied = @ \cup {i}]
  OBVIOUS
<1>2. m = [type |-> l.type, hash |-> l.hash, genesis |-> l.genesis, updated |-> l.updated,
           entries |-> E, deposits |-> D, applied |-> A \cup {i}, payouts |-> P]
  BY <1>1 DEF Fields, Shape
<1> QED
  BY <1>1, <1>2 DEF Fields, Shape

LEMMA ExceptPayouts ==
  ASSUME NEW l, NEW E, NEW D, NEW A, NEW P, Fields(l, E, D, A, P), NEW i, NEW p
  PROVE  Fields([l EXCEPT !.applied = @ \cup {i}, !.payouts = @ \cup {p}], E, D, A \cup {i}, P \cup {p})
<1>1. PICK m : m = [l EXCEPT !.applied = @ \cup {i}, !.payouts = @ \cup {p}]
  OBVIOUS
<1>2. m = [type |-> l.type, hash |-> l.hash, genesis |-> l.genesis, updated |-> l.updated,
           entries |-> E, deposits |-> D, applied |-> A \cup {i}, payouts |-> P \cup {p}]
  BY <1>1 DEF Fields, Shape
<1> QED
  BY <1>1, <1>2 DEF Fields, Shape

-----------------------------------------------------------------------------
(* Ledgers whose balances their deposits, payouts and requests explain. *)

Books(E, D, A, P) ==
    /\ EntriesOK(E) /\ IsFiniteSet(D) /\ Valued(D) /\ IsFiniteSet(P) /\ Valued(P) /\ IsFiniteSet(A)
    /\ \A p \in P : p.id \in A
Answers(A, P, k, R) ==
    /\ k \in [A -> R]
    /\ \A id \in A : k[id].id = id
    /\ \A p \in P : k[p.id].what = "withdraw" /\ k[p.id].account = p.account /\ k[p.id].amount = p.value
Balanced(E, D, A, P, k, a) ==
    BalanceIn(E, a) = SumOf(Of(D, a)) - SumOf(Of(P, a)) + Moved(k, Sent(k, A, a)) - Moved(k, Spent(k, A, a))
Explained(E, D, A, P, R) ==
    Books(E, D, A, P) /\ \E k : Answers(A, P, k, R) /\ \A a \in Accounts : Balanced(E, D, A, P, k, a)
RequestsOK(R) == \A r \in R : r.amount \in Nat

LEMMA PartsAreNumbers ==
  ASSUME NEW E, NEW D, NEW A, NEW P, NEW R, NEW k, Books(E, D, A, P), Answers(A, P, k, R), RequestsOK(R), NEW a
  PROVE  /\ BalanceIn(E, a) \in Int /\ SumOf(Of(D, a)) \in Int /\ SumOf(Of(P, a)) \in Int
         /\ Moved(k, Sent(k, A, a)) \in Int /\ Moved(k, Spent(k, A, a)) \in Int
<1>1. BalanceIn(E, a) \in Nat
  BY BalanceInIs DEF Books
<1>2. IsFiniteSet(Of(D, a)) /\ Valued(Of(D, a)) /\ IsFiniteSet(Of(P, a)) /\ Valued(Of(P, a))
  BY FS_Subset DEF Books, Of, Valued
<1>3. SumOf(Of(D, a)) \in Nat /\ SumOf(Of(P, a)) \in Nat
  BY <1>2, SumOfType
<1>4. PICK S, T : S = Sent(k, A, a) /\ T = Spent(k, A, a)
  OBVIOUS
<1>5. S \subseteq A /\ T \subseteq A /\ IsFiniteSet(A)
  BY <1>4 DEF Books, Sent, Spent
<1>6. Amounts(k, A)
  BY DEF Amounts, Answers, RequestsOK
<1>7. IsFiniteSet(S) /\ IsFiniteSet(T) /\ Amounts(k, S) /\ Amounts(k, T)
  BY <1>5, <1>6, FS_Subset DEF Amounts
<1>8. Moved(k, S) \in Nat /\ Moved(k, T) \in Nat
  BY <1>7, MovedType
<1> QED
  BY <1>1, <1>3, <1>4, <1>8

\* What an operation adds to an account, and takes from it.
Changed(E, F, a, in, out) == BalanceIn(F, a) = BalanceIn(E, a) + in - out

LEMMA IfNat ==
  ASSUME NEW p, NEW n \in Nat
  PROVE  If(p, n) \in Nat
  BY DEF If

LEMMA CreditExplained ==
  ASSUME NEW E, NEW D, NEW A, NEW P, NEW R, Explained(E, D, A, P, R), RequestsOK(R),
         NEW x, x \notin D, x.value \in Nat, NEW F, EntriesOK(F),
         \A a \in Accounts : Changed(E, F, a, If(x.account = a, x.value), 0)
  PROVE  Explained(F, D \cup {x}, A, P, R)
<1>1. PICK C : C = D \cup {x}
  OBVIOUS
<1>2. Books(E, D, A, P)
  BY DEF Explained
<1>3. Books(F, C, A, P)
  BY <1>1, <1>2, FS_AddElement DEF Books, Valued
<1>4. PICK k : Answers(A, P, k, R) /\ \A a \in Accounts : Balanced(E, D, A, P, k, a)
  BY DEF Explained
<1>5. ASSUME NEW a \in Accounts PROVE Balanced(F, C, A, P, k, a)
  <2>1. PICK b, d, p, s, t, w : /\ b = BalanceIn(E, a) /\ d = SumOf(Of(D, a)) /\ p = SumOf(Of(P, a))
                                /\ s = Moved(k, Sent(k, A, a)) /\ t = Moved(k, Spent(k, A, a))
                                /\ w = If(x.account = a, x.value)
    OBVIOUS
  <2>2. b \in Int /\ d \in Int /\ p \in Int /\ s \in Int /\ t \in Int /\ w \in Int
    BY <1>2, <1>4, <2>1, PartsAreNumbers, IfNat
  <2>3. b = d - p + s - t
    BY <1>4, <2>1 DEF Balanced
  <2>4. BalanceIn(F, a) = b + w - 0
    BY <2>1 DEF Changed
  <2>5. SumOf(Of(C, a)) = d + w
    <3>1. SumOf(Of(D \cup {x}, a)) = SumOf(Of(D, a)) + If(x.account = a, x.value)
      BY <1>2, SumOfOne DEF Books
    <3> QED
      BY ONLY <1>1, <2>1, <3>1
  <2>6. b + w - 0 = (d + w) - p + s - t
    BY ONLY <2>2, <2>3
  <2> QED
    BY ONLY <2>1, <2>4, <2>5, <2>6 DEF Balanced
<1> QED
  BY <1>1, <1>3, <1>4, <1>5 DEF Explained

\* The request that answers one more id.
LEMMA AnswersOne ==
  ASSUME NEW A, NEW P, NEW R, NEW k, Answers(A, P, k, R), RequestsOK(R), NEW r \in R, r.id \notin A,
         \A p \in P : p.id \in A
  PROVE  \E h : OneMore(h, k, A, r.id, r) /\ Answers(A \cup {r.id}, P, h, R) /\ Amounts(k, A)
<1>1. PICK i, B : i = r.id /\ B = A \cup {i}
  OBVIOUS
<1>2. PICK h : h = [id \in B |-> IF id = i THEN r ELSE k[id]]
  OBVIOUS
<1>3. h \in [B -> R]
  BY <1>1, <1>2 DEF Answers
<1>4. h[i] = r /\ \A id \in A : h[id] = k[id]
  BY <1>1, <1>2
<1>5. Answers(B, P, h, R)
  BY <1>1, <1>3, <1>4 DEF Answers
<1>6. OneMore(h, k, A, i, r)
  BY <1>1, <1>4 DEF OneMore, SameOn, RequestsOK
<1>7. Amounts(k, A)
  BY DEF Amounts, Answers, RequestsOK
<1> QED
  BY <1>1, <1>5, <1>6, <1>7

LEMMA TransferExplained ==
  ASSUME NEW E, NEW D, NEW A, NEW P, NEW R, Explained(E, D, A, P, R), RequestsOK(R),
         NEW r \in R, r.id \notin A, r.what = "transfer", NEW F, EntriesOK(F),
         \A a \in Accounts : Changed(E, F, a, If(r.to = a, r.amount), If(r.account = a, r.amount))
  PROVE  Explained(F, D, A \cup {r.id}, P, R)
<1>1. PICK B, i : B = A \cup {i} /\ i = r.id
  OBVIOUS
<1>2. Books(E, D, A, P)
  BY DEF Explained
<1>3. Books(F, D, B, P)
  BY <1>1, <1>2, FS_AddElement DEF Books
<1>4. PICK k : Answers(A, P, k, R) /\ \A a \in Accounts : Balanced(E, D, A, P, k, a)
  BY DEF Explained
<1>5. PICK h : OneMore(h, k, A, i, r) /\ Answers(B, P, h, R) /\ Amounts(k, A)
  BY <1>1, <1>2, <1>4, AnswersOne DEF Books
<1>6. ASSUME NEW a \in Accounts PROVE Balanced(F, D, B, P, h, a)
  <2>1. PICK b, d, p, s, t, u, w : /\ b = BalanceIn(E, a) /\ d = SumOf(Of(D, a)) /\ p = SumOf(Of(P, a))
                                   /\ s = Moved(k, Sent(k, A, a)) /\ t = Moved(k, Spent(k, A, a))
                                   /\ u = If(r.to = a, r.amount) /\ w = If(r.account = a, r.amount)
    OBVIOUS
  <2>2. b \in Int /\ d \in Int /\ p \in Int /\ s \in Int /\ t \in Int /\ u \in Int /\ w \in Int
    <3>1. r.amount \in Nat
      BY DEF RequestsOK
    <3> QED
      BY <1>2, <1>4, <2>1, <3>1, PartsAreNumbers, IfNat
  <2>3. b = d - p + s - t
    BY <1>4, <2>1 DEF Balanced
  <2>4. BalanceIn(F, a) = b + u - w
    BY <2>1 DEF Changed
  <2>5. Moved(h, Sent(h, B, a)) = s + u /\ Moved(h, Spent(h, B, a)) = t + w
    <3>1. IsFiniteSet(A)
      BY <1>2 DEF Books
    <3>2. /\ Moved(h, Sent(h, A \cup {i}, a))
               = Moved(k, Sent(k, A, a)) + If(r.what = "transfer" /\ r.to = a, r.amount)
          /\ Moved(h, Spent(h, A \cup {i}, a))
               = Moved(k, Spent(k, A, a)) + If(r.what = "transfer" /\ r.account = a, r.amount)
      BY <1>5, <3>1, SentOne
    <3>3. /\ If(r.what = "transfer" /\ r.to = a, r.amount) = If(r.to = a, r.amount)
          /\ If(r.what = "transfer" /\ r.account = a, r.amount) = If(r.account = a, r.amount)
      BY DEF If
    <3> QED
      BY ONLY <1>1, <2>1, <3>2, <3>3
  <2>6. b + u - w = d - p + (s + u) - (t + w)
    BY ONLY <2>2, <2>3
  <2> QED
    BY ONLY <2>1, <2>4, <2>5, <2>6 DEF Balanced
<1> QED
  BY <1>1, <1>3, <1>5, <1>6 DEF Explained

LEMMA WithdrawExplained ==
  ASSUME NEW E, NEW D, NEW A, NEW P, NEW R, Explained(E, D, A, P, R), RequestsOK(R),
         NEW r \in R, r.id \notin A, r.what = "withdraw", NEW F, EntriesOK(F),
         NEW x, x.id = r.id, x.account = r.account, x.value = r.amount,
         \A a \in Accounts : Changed(E, F, a, 0, If(r.account = a, r.amount))
  PROVE  Explained(F, D, A \cup {r.id}, P \cup {x}, R)
<1>1. PICK B, i, Q : B = A \cup {i} /\ i = r.id /\ Q = P \cup {x}
  OBVIOUS
<1>2. Books(E, D, A, P) /\ r.amount \in Nat /\ x.value \in Nat
  BY DEF Explained, RequestsOK
<1>3. Books(F, D, B, Q)
  BY <1>1, <1>2, FS_AddElement DEF Books, Valued
<1>4. PICK k : Answers(A, P, k, R) /\ \A a \in Accounts : Balanced(E, D, A, P, k, a)
  BY DEF Explained
<1>5. PICK h : OneMore(h, k, A, i, r) /\ Answers(B, P, h, R) /\ Amounts(k, A)
  BY <1>1, <1>2, <1>4, AnswersOne DEF Books
<1>6. x \notin P
  BY <1>2 DEF Books
<1>7. Answers(B, Q, h, R)
  <2>1. h[x.id] = r
    BY <1>1, <1>5 DEF OneMore
  <2> QED
    BY <1>1, <1>5, <2>1 DEF Answers
<1>8. ASSUME NEW a \in Accounts PROVE Balanced(F, D, B, Q, h, a)
  <2>1. PICK b, d, p, s, t, w : /\ b = BalanceIn(E, a) /\ d = SumOf(Of(D, a)) /\ p = SumOf(Of(P, a))
                                /\ s = Moved(k, Sent(k, A, a)) /\ t = Moved(k, Spent(k, A, a))
                                /\ w = If(r.account = a, r.amount)
    OBVIOUS
  <2>2. b \in Int /\ d \in Int /\ p \in Int /\ s \in Int /\ t \in Int /\ w \in Int
    BY <1>2, <1>4, <2>1, PartsAreNumbers, IfNat
  <2>3. b = d - p + s - t
    BY <1>4, <2>1 DEF Balanced
  <2>4. BalanceIn(F, a) = b + 0 - w
    BY <2>1 DEF Changed
  <2>5. Moved(h, Sent(h, B, a)) = s + 0 /\ Moved(h, Spent(h, B, a)) = t + 0
    <3>1. IsFiniteSet(A)
      BY <1>2 DEF Books
    <3>2. /\ Moved(h, Sent(h, A \cup {i}, a))
               = Moved(k, Sent(k, A, a)) + If(r.what = "transfer" /\ r.to = a, r.amount)
          /\ Moved(h, Spent(h, A \cup {i}, a))
               = Moved(k, Spent(k, A, a)) + If(r.what = "transfer" /\ r.account = a, r.amount)
      BY <1>5, <3>1, SentOne
    <3>3. /\ If(r.what = "transfer" /\ r.to = a, r.amount) = 0
          /\ If(r.what = "transfer" /\ r.account = a, r.amount) = 0
      BY DEF If
    <3> QED
      BY ONLY <1>1, <2>1, <3>2, <3>3
  <2>6. SumOf(Of(Q, a)) = p + w
    <3>1. SumOf(Of(P \cup {x}, a)) = SumOf(Of(P, a)) + If(x.account = a, x.value)
      BY <1>2, <1>6, SumOfOne DEF Books
    <3>2. If(x.account = a, x.value) = If(r.account = a, r.amount)
      OBVIOUS
    <3> QED
      BY ONLY <1>1, <2>1, <3>1, <3>2
  <2>7. b + 0 - w = d - (p + w) + (s + 0) - (t + 0)
    BY ONLY <2>2, <2>3
  <2> QED
    BY ONLY <2>1, <2>4, <2>5, <2>6, <2>7 DEF Balanced
<1> QED
  BY <1>1, <1>3, <1>7, <1>8 DEF Explained

OkLedger(l, R) == Shape(l) /\ Explained(l.entries, l.deposits, l.applied, l.payouts, R)

LEMMA FieldsOk ==
  ASSUME NEW m, NEW E, NEW D, NEW A, NEW P, Fields(m, E, D, A, P), NEW R, Explained(E, D, A, P, R)
  PROVE  OkLedger(m, R)
  BY DEF Fields, OkLedger

LEMMA ShapeFields ==
  ASSUME NEW l, Shape(l)
  PROVE  Fields(l, l.entries, l.deposits, l.applied, l.payouts)
  BY DEF Fields

LEMMA NewIsOk ==
  ASSUME NEW op, NEW t, NEW R
  PROVE  OkLedger(NewLedger(op, t), R)
<1>1. Shape(NewLedger(op, t)) /\ Fields(NewLedger(op, t), {}, {}, {}, {})
  BY DEF NewLedger, Shape, Fields
<1>2. Books({}, {}, {}, {})
  BY FS_EmptySet DEF Books, EntriesOK, Valued
<1>3. PICK k : k = [id \in {} |-> 0]
  OBVIOUS
<1>4. Answers({}, {}, k, R)
  BY <1>3 DEF Answers
<1>5. ASSUME NEW a \in Accounts PROVE Balanced({}, {}, {}, {}, k, a)
  <2>1. Of({}, a) = {} /\ Sent(k, {}, a) = {} /\ Spent(k, {}, a) = {}
    BY DEF Of, Sent, Spent
  <2>2. SumOf({}) = 0
    <3>1. PICK f : f = [c \in {} |-> c.value]
      OBVIOUS
    <3>2. SumOf({}) = Total(f, {})
      BY <3>1 DEF SumOf, SumFunction, Total
    <3> QED
      BY <3>2, TotalEmpty
  <2>3. Moved(k, {}) = 0
    <3>1. PICK f : f = [id \in {} |-> k[id].amount]
      OBVIOUS
    <3>2. Moved(k, {}) = Total(f, {})
      BY <3>1 DEF Moved, SumFunction, Total
    <3> QED
      BY <3>2, TotalEmpty
  <2>4. BalanceIn({}, a) = 0
    BY <1>2, BalanceInIs DEF Books
  <2> QED
    BY <2>1, <2>2, <2>3, <2>4 DEF Balanced
<1>6. Explained({}, {}, {}, {}, R)
  BY <1>2, <1>4, <1>5 DEF Explained
<1> QED
  BY <1>1, <1>6, FieldsOk

LEMMA MoreRequests ==
  ASSUME NEW l, NEW R, NEW Q, R \subseteq Q, OkLedger(l, R)
  PROVE  OkLedger(l, Q)
<1>1. PICK E, D, A, P : E = l.entries /\ D = l.deposits /\ A = l.applied /\ P = l.payouts
  OBVIOUS
<1>2. Explained(E, D, A, P, R)
  BY <1>1 DEF OkLedger
<1>3. PICK k : Answers(A, P, k, R) /\ \A a \in Accounts : Balanced(E, D, A, P, k, a)
  BY <1>2 DEF Explained
<1>4. Answers(A, P, k, Q)
  BY <1>3 DEF Answers
<1>5. Explained(E, D, A, P, Q)
  BY <1>2, <1>3, <1>4 DEF Explained
<1> QED
  BY <1>1, <1>5 DEF OkLedger

\* Credit, transfer and debit keep a ledger explained.
LEMMA CreditIsOk ==
  ASSUME NEW l, NEW R, OkLedger(l, R), RequestsOK(R), NEW c, c.value \in Nat, NEW t
  PROVE  OkLedger(Credit(l, c, t), R)
<1>1. CASE (\E d \in l.deposits : d.op = c.op) \/ ~CheckSats(c.value)
  BY <1>1 DEF Credit
<1>2. CASE ~((\E d \in l.deposits : d.op = c.op) \/ ~CheckSats(c.value))
  <2>1. PICK E, D, A, P, x : /\ E = l.entries /\ D = l.deposits /\ A = l.applied /\ P = l.payouts
                             /\ x = [op |-> c.op, account |-> c.account, value |-> c.value]
    OBVIOUS
  <2>2. Shape(l) /\ Explained(E, D, A, P, R) /\ EntriesOK(E)
    BY <2>1 DEF OkLedger, Explained, Books
  <2>3. PICK m, n : m = SetBalance(l, c.account, n) /\ n = Balance(l, c.account) + c.value
    OBVIOUS
  <2>4. BalanceIn(E, c.account) \in Nat /\ n = BalanceIn(E, c.account) + c.value
    BY <2>1, <2>2, <2>3, BalanceOf, BalanceInIs
  <2>5. n \in Nat
    BY <2>4
  <2>6. PICK F : F = Written(E, c.account, n)
    OBVIOUS
  <2>7. Fields(m, F, D, A, P)
    BY <2>1, <2>2, <2>3, <2>6, SetBalanceIs
  <2>8. EntriesOK(F) /\ BalanceIn(F, c.account) = n /\ \A b : b # c.account => BalanceIn(F, b) = BalanceIn(E, b)
    BY <2>2, <2>5, <2>6, WrittenIs
  <2>9. x \notin D /\ x.value = c.value /\ x.account = c.account
    BY <1>2, <2>1
  <2>10. ASSUME NEW a \in Accounts PROVE Changed(E, F, a, If(x.account = a, x.value), 0)
    <3>1. CASE a = c.account
      <4>1. If(x.account = a, x.value) = c.value
        BY <2>9, <3>1 DEF If
      <4>2. BalanceIn(F, a) = BalanceIn(E, a) + c.value - 0
        BY <2>4, <2>8, <3>1
      <4> QED
        BY ONLY <4>1, <4>2 DEF Changed
    <3>2. CASE a # c.account
      <4>1. If(x.account = a, x.value) = 0
        BY <2>9, <3>2 DEF If
      <4>2. BalanceIn(F, a) = BalanceIn(E, a) + 0 - 0
        BY <2>2, <2>8, <3>2, BalanceInIs
      <4> QED
        BY ONLY <4>1, <4>2 DEF Changed
    <3> QED
      BY <3>1, <3>2
  <2>11. Explained(F, D \cup {x}, A, P, R)
    BY <2>2, <2>8, <2>9, <2>10, CreditExplained
  <2>12. Credit(l, c, t) = Touch([m EXCEPT !.deposits = @ \cup {x}], t)
    BY <1>2, <2>1, <2>3 DEF Credit
  <2>13. Fields([m EXCEPT !.deposits = @ \cup {x}], F, D \cup {x}, A, P)
    BY <2>7, ExceptDeposits
  <2>14. Fields(Touch([m EXCEPT !.deposits = @ \cup {x}], t), F, D \cup {x}, A, P)
    BY <2>13, TouchIs
  <2> QED
    BY <2>11, <2>12, <2>14, FieldsOk
<1> QED
  BY <1>1, <1>2

LEMMA TransferIsOk ==
  ASSUME NEW l, NEW R, OkLedger(l, R), RequestsOK(R), NEW r \in R, r.what = "transfer", NEW t
  PROVE  OkLedger(Transfer(l, r, t), R)
<1>1. CASE r.amount = 0 \/ ~CheckSats(r.amount) \/ r.id \in l.applied \/ Balance(l, r.account) < r.amount
  BY <1>1 DEF Transfer
<1>2. CASE ~(r.amount = 0 \/ ~CheckSats(r.amount) \/ r.id \in l.applied \/ Balance(l, r.account) < r.amount)
  <2>1. PICK E, D, A, P, u, v, w : /\ E = l.entries /\ D = l.deposits /\ A = l.applied /\ P = l.payouts
                                   /\ u = r.account /\ v = r.to /\ w = r.amount
    OBVIOUS
  <2>2. Shape(l) /\ Explained(E, D, A, P, R) /\ EntriesOK(E) /\ w \in Nat /\ r.id \notin A
    BY <1>2, <2>1 DEF OkLedger, Explained, Books, RequestsOK
  <2>3. PICK m, n : m = SetBalance(l, u, n) /\ n = Balance(l, u) - w
    OBVIOUS
  <2>4. BalanceIn(E, u) \in Nat /\ n = BalanceIn(E, u) - w /\ ~(BalanceIn(E, u) < w)
    BY <1>2, <2>1, <2>2, <2>3, BalanceOf, BalanceInIs
  <2>5. n \in Nat
    BY <2>2, <2>4
  <2>6. PICK F : F = Written(E, u, n)
    OBVIOUS
  <2>7. Fields(m, F, D, A, P) /\ Shape(m) /\ m.entries = F
    BY <2>1, <2>2, <2>3, <2>6, SetBalanceIs DEF Fields
  <2>8. EntriesOK(F) /\ BalanceIn(F, u) = n /\ \A b : b # u => BalanceIn(F, b) = BalanceIn(E, b)
    BY <2>2, <2>5, <2>6, WrittenIs
  <2>9. PICK k, j : k = SetBalance(m, v, j) /\ j = Balance(m, v) + w
    OBVIOUS
  <2>10. BalanceIn(F, v) \in Nat /\ j = BalanceIn(F, v) + w
    BY <2>7, <2>8, <2>9, BalanceOf, BalanceInIs
  <2>11. j \in Nat
    BY <2>2, <2>10
  <2>12. PICK G : G = Written(F, v, j)
    OBVIOUS
  <2>13. Fields(k, G, D, A, P)
    <3>1. m.deposits = D /\ m.applied = A /\ m.payouts = P
      BY <2>7 DEF Fields
    <3> QED
      BY <2>7, <2>9, <2>12, <3>1, SetBalanceIs
  <2>14. EntriesOK(G) /\ BalanceIn(G, v) = j /\ \A b : b # v => BalanceIn(G, b) = BalanceIn(F, b)
    BY <2>8, <2>11, <2>12, WrittenIs
  <2>15. ASSUME NEW a \in Accounts PROVE Changed(E, G, a, If(r.to = a, r.amount), If(r.account = a, r.amount))
    <3>1. PICK e, f, g : e = BalanceIn(E, a) /\ f = BalanceIn(F, a) /\ g = BalanceIn(G, a)
      OBVIOUS
    <3>2. e \in Int /\ f \in Int
      BY <2>2, <2>8, <3>1, BalanceInIs
    <3>3. f = IF a = u THEN e - w ELSE e
      BY ONLY <2>4, <2>8, <3>1
    <3>4. g = IF a = v THEN f + w ELSE f
      BY ONLY <2>10, <2>14, <3>1
    <3>5. If(r.to = a, r.amount) = (IF a = v THEN w ELSE 0) /\ If(r.account = a, r.amount) = (IF a = u THEN w ELSE 0)
      BY ONLY <2>1 DEF If
    <3>6. g = e + (IF a = v THEN w ELSE 0) - (IF a = u THEN w ELSE 0)
      BY ONLY <2>2, <3>2, <3>3, <3>4
    <3> QED
      BY ONLY <3>1, <3>5, <3>6 DEF Changed
  <2>16. Explained(G, D, A \cup {r.id}, P, R)
    BY <2>2, <2>14, <2>15, TransferExplained
  <2>17. Transfer(l, r, t) = Touch([k EXCEPT !.applied = @ \cup {r.id}], t)
    BY <1>2, <2>1, <2>3, <2>9 DEF Transfer
  <2>18. Fields([k EXCEPT !.applied = @ \cup {r.id}], G, D, A \cup {r.id}, P)
    BY <2>13, ExceptApplied
  <2>19. Fields(Touch([k EXCEPT !.applied = @ \cup {r.id}], t), G, D, A \cup {r.id}, P)
    BY <2>18, TouchIs
  <2> QED
    BY <2>16, <2>17, <2>19, FieldsOk
<1> QED
  BY <1>1, <1>2

LEMMA DebitIsOk ==
  ASSUME NEW l, NEW R, OkLedger(l, R), RequestsOK(R), NEW r \in R, r.what = "withdraw", MayDebit(l, r),
         NEW txid, NEW t
  PROVE  OkLedger(Debit(l, r, txid, t), R)
<1>1. PICK E, D, A, P, u, w, x : /\ E = l.entries /\ D = l.deposits /\ A = l.applied /\ P = l.payouts
                                 /\ u = r.account /\ w = r.amount
                                 /\ x = [id |-> r.id, account |-> r.account, value |-> r.amount, txid |-> txid]
  OBVIOUS
<1>2. Shape(l) /\ Explained(E, D, A, P, R) /\ EntriesOK(E) /\ w \in Nat /\ r.id \notin A
  BY <1>1 DEF OkLedger, Explained, Books, RequestsOK, MayDebit
<1>3. PICK m, n : m = SetBalance(l, u, n) /\ n = Balance(l, u) - w
  OBVIOUS
<1>4. BalanceIn(E, u) \in Nat /\ n = BalanceIn(E, u) - w /\ BalanceIn(E, u) >= w
  BY <1>1, <1>2, <1>3, BalanceOf, BalanceInIs DEF MayDebit
<1>5. n \in Nat
  BY <1>2, <1>4
<1>6. PICK F : F = Written(E, u, n)
  OBVIOUS
<1>7. Fields(m, F, D, A, P)
  BY <1>1, <1>2, <1>3, <1>6, SetBalanceIs
<1>8. EntriesOK(F) /\ BalanceIn(F, u) = n /\ \A b : b # u => BalanceIn(F, b) = BalanceIn(E, b)
  BY <1>2, <1>5, <1>6, WrittenIs
<1>9. x.id = r.id /\ x.account = r.account /\ x.value = r.amount
  BY <1>1
<1>10. ASSUME NEW a \in Accounts PROVE Changed(E, F, a, 0, If(r.account = a, r.amount))
  <2>1. PICK e, f : e = BalanceIn(E, a) /\ f = BalanceIn(F, a)
    OBVIOUS
  <2>2. e \in Int
    BY <1>2, <2>1, BalanceInIs
  <2>3. f = IF a = u THEN e - w ELSE e
    BY ONLY <1>4, <1>8, <2>1
  <2>4. If(r.account = a, r.amount) = (IF a = u THEN w ELSE 0)
    BY ONLY <1>1 DEF If
  <2>5. f = e + 0 - (IF a = u THEN w ELSE 0)
    BY ONLY <1>2, <2>2, <2>3
  <2> QED
    BY ONLY <2>1, <2>4, <2>5 DEF Changed
<1>11. Explained(F, D, A \cup {r.id}, P \cup {x}, R)
  BY <1>2, <1>8, <1>9, <1>10, WithdrawExplained
<1>12. Debit(l, r, txid, t) = Touch([m EXCEPT !.applied = @ \cup {r.id}, !.payouts = @ \cup {x}], t)
  BY <1>1, <1>3 DEF Debit
<1>13. Fields([m EXCEPT !.applied = @ \cup {r.id}, !.payouts = @ \cup {x}], F, D, A \cup {r.id}, P \cup {x})
  BY <1>7, ExceptPayouts
<1>14. Fields(Touch([m EXCEPT !.applied = @ \cup {r.id}, !.payouts = @ \cup {x}], t), F, D, A \cup {r.id}, P \cup {x})
  BY <1>13, TouchIs
<1> QED
  BY <1>11, <1>12, <1>14, FieldsOk

-----------------------------------------------------------------------------
(* Addresses and secrets. *)

\* A point has the x of its even form, which is even.
LEMMA XOnlyTwice ==
  ASSUME NEW p \in 0 .. Order - 1
  PROVE  XOnly(XOnly(p)) = XOnly(p) /\ XOnly(p) \in 0 .. Order
<1>1. Order \in Nat /\ Order > 2
  BY OrderAssumption
<1>2. PICK h : h = Order \div 2
  OBVIOUS
<1>3. h \in Nat /\ 2 * h <= Order /\ Order <= 2 * h + 1
  BY <1>1, <1>2
<1>4. \A q : XOnly(q) = IF q > h THEN Order - q ELSE q
  BY <1>2 DEF XOnly, IsOdd, Negate
<1>5. CASE p > h
  <2>1. XOnly(p) = Order - p /\ ~(Order - p > h)
    BY <1>1, <1>3, <1>4, <1>5
  <2>2. XOnly(Order - p) = Order - p
    BY <1>4, <2>1
  <2> QED
    BY <1>1, <2>1, <2>2
<1>6. CASE ~(p > h)
  <2>1. XOnly(p) = p
    BY <1>4, <1>6
  <2> QED
    BY <1>1, <2>1
<1> QED
  BY <1>5, <1>6

\* What the sum of a point and a tweak is.
LEMMA ModRange ==
  ASSUME NEW n \in Nat
  PROVE  n % Order \in 0 .. Order - 1
<1>1. PICK m : m = Order
  OBVIOUS
<1>2. m \in Nat /\ m > 0
  BY <1>1, OrderAssumption
<1>3. n % m \in 0 .. m - 1
  BY <1>2
<1> QED
  BY <1>1, <1>3

KnownBy(g, d) == g \in {Did(PointOf(d)), Multikey(PointOf(d)), Compressed(PointOf(d))}
Address(d, a) == DepositAddress(Did(PointOf(d)), a).x

\* Whatever form the operator is known by, an account's address is the same.
LEMMA SameAddress ==
  ASSUME NEW d \in Scalars, NEW g, KnownBy(g, d), NEW a
  PROVE  DepositAddress(g, a).x = Address(d, a)
<1>1. d \in 0 .. Order - 1
  BY OrderAssumption DEF Scalars
<1>2. BasePoint(g) = XOnly(d) \/ BasePoint(g) = d
  BY DEF KnownBy, Did, Multikey, Compressed, BasePoint, PointOf
<1>3. XOnly(BasePoint(g)) = XOnly(d)
  BY <1>1, <1>2, XOnlyTwice
<1>4. BasePoint(Did(PointOf(d))) = XOnly(d)
  BY DEF Did, BasePoint, PointOf
<1>5. Did(BasePoint(g)) = Did(BasePoint(Did(PointOf(d))))
  BY <1>1, <1>3, <1>4, XOnlyTwice DEF Did
<1>6. DepositPoint(g, a) = DepositPoint(Did(PointOf(d)), a)
  BY <1>5 DEF DepositPoint
<1> QED
  BY <1>6 DEF DepositAddress, Address

\* The secret the operator derives for an account signs for its address.
LEMMA SecretSigns ==
  ASSUME NEW d \in Scalars, NEW a \in Accounts
  PROVE  SignsFor(DepositSecret(d, Tweak[a]), Address(d, a))
<1>1. d \in 0 .. Order - 1 /\ Tweak[a] \in Nat
  BY OrderAssumption, TellerAssumption DEF Scalars
<1>2. PICK e, q : e = XOnly(d) /\ q = (e + Tweak[a]) % Order
  OBVIOUS
<1>3. e \in Nat /\ XOnly(e) = e
  BY <1>1, <1>2, XOnlyTwice, OrderAssumption
<1>4. q \in 0 .. Order - 1
  BY <1>1, <1>2, <1>3, ModRange
<1>5. \A z : Normalized(z) = XOnly(z)
  BY DEF Normalized, XOnly, PointOf
<1>6. DepositSecret(d, Tweak[a]) = q
  BY <1>2, <1>5 DEF DepositSecret, TweakedSecret
<1>7. DepositPoint(Did(PointOf(d)), a) = q
  BY <1>2, <1>3 DEF DepositPoint, TweakedPoint, Did, BasePoint, PointOf
<1>8. Address(d, a) = XOnly(q)
  BY <1>7 DEF Address, DepositAddress
<1>9. SignsFor(q, XOnly(q))
  BY <1>4, <1>5, XOnlyTwice DEF SignsFor, SigningKey, PointOf
<1> QED
  BY <1>6, <1>8, <1>9

-----------------------------------------------------------------------------
(* Payouts. *)

\* The estimate is never below the size a signed payout has.
LEMMA EstimateIsEnough ==
  ASSUME NEW n \in Nat, NEW o \in Nat
  PROVE  /\ Rate * VsizeEstimate(n, o) \in Int /\ Rate * VsizeOf(n, o) \in Int
         /\ Rate * VsizeEstimate(n, o) >= Rate * VsizeOf(n, o)
<1>1. VsizeEstimate(n, o) \in Nat /\ VsizeOf(n, o) \in Nat /\ VsizeOf(n, o) <= VsizeEstimate(n, o)
  <2>1. PICK k : k = (2 + 67 * n + 3) \div 4
    OBVIOUS
  <2>2. k \in Nat /\ 4 * k <= 67 * n + 5
    BY <2>1
  <2>3. VsizeOf(n, o) = 10 + 41 * n + 43 * o + k /\ VsizeEstimate(n, o) = 11 + 58 * n + 43 * o
    BY <2>1 DEF VsizeOf, VsizeEstimate
  <2> QED
    BY <2>2, <2>3
<1>2. Rate \in Nat
  BY TellerAssumption
<1>3. PICK a, b, r : a = VsizeEstimate(n, o) /\ b = VsizeOf(n, o) /\ r = Rate
  OBVIOUS
<1>4. PICK x : x = a - b /\ x \in Nat
  BY <1>1, <1>3
<1>5. a \in Nat /\ b \in Nat /\ r \in Nat /\ a = b + x /\ r * x \in Nat /\ r * b \in Nat
  BY <1>1, <1>2, <1>3, <1>4
<1>6. r * (b + x) = r * b + r * x
  BY ONLY <1>4, <1>5
<1>7. r * a >= r * b
  BY ONLY <1>4, <1>5, <1>6
<1>8. r * a \in Int /\ r * b \in Int
  BY ONLY <1>5
<1> QED
  BY <1>3, <1>7, <1>8

\* What a plan that holds has: coins of those held, a change and a fee that add up.
Sound(plan, held, amount) ==
    /\ plan.picked \subseteq held /\ plan.change \in Nat
    /\ SumOf(plan.picked) = amount + plan.fee + plan.change
    /\ plan.fee >= Rate * VsizeOf(Cardinality(plan.picked), plan.outs)

LEMMA PlanWithIs ==
  ASSUME NEW held, IsFiniteSet(held), Valued(held), NEW picked, picked \subseteq held, NEW amount \in Nat,
         PlanWith(picked, amount).ok
  PROVE  Sound(PlanWith(picked, amount), held, amount)
<1>1. IsFiniteSet(picked) /\ Valued(picked)
  BY FS_Subset DEF Valued
<1>2. PICK n, in : n = Cardinality(picked) /\ in = SumOf(picked)
  OBVIOUS
<1>3. n \in Nat /\ in \in Nat
  BY <1>1, <1>2, FS_CardinalityType, SumOfType
<1>4. PICK fee, one : fee = Rate * VsizeEstimate(n, 2) /\ one = Rate * VsizeEstimate(n, 1)
  OBVIOUS
<1>5. PICK real, real1 : real = Rate * VsizeOf(n, 2) /\ real1 = Rate * VsizeOf(n, 1)
  OBVIOUS
<1>6. fee \in Int /\ one \in Int /\ real \in Int /\ real1 \in Int /\ fee >= real /\ one >= real1
  BY <1>3, <1>4, <1>5, EstimateIsEnough
<1>7. PICK change : change = in - amount - fee
  OBVIOUS
<1>8. change \in Int /\ Dust \in Nat
  BY <1>3, <1>6, <1>7, TellerAssumption
<1>9. PICK plan : plan = PlanWith(picked, amount)
  OBVIOUS
<1>10. plan = IF change >= Dust
              THEN [ok |-> TRUE, picked |-> picked, outs |-> 2, fee |-> fee, change |-> change]
              ELSE [ok |-> change >= 0 /\ in >= amount + one,
                    picked |-> picked, outs |-> 1, fee |-> in - amount, change |-> 0]
  BY <1>2, <1>4, <1>7, <1>9 DEF PlanWith
<1>11. CASE change >= Dust
  <2>1. plan.picked = picked /\ plan.outs = 2 /\ plan.fee = fee /\ plan.change = change
    BY <1>10, <1>11
  <2>2. change \in Nat /\ in = amount + fee + change
    BY <1>3, <1>6, <1>7, <1>8, <1>11
  <2> QED
    BY <1>2, <1>5, <1>6, <1>9, <2>1, <2>2 DEF Sound
<1>12. CASE ~(change >= Dust)
  <2>1. plan.picked = picked /\ plan.outs = 1 /\ plan.fee = in - amount /\ plan.change = 0
    BY <1>10, <1>12
  <2>2. in >= amount + one
    <3>1. PICK ok : ok = (change >= 0 /\ in >= amount + one)
      OBVIOUS
    <3>2. plan = [ok |-> ok, picked |-> picked, outs |-> 1, fee |-> in - amount, change |-> 0]
      BY <1>10, <1>12, <3>1
    <3>3. plan.ok = ok /\ plan.ok
      BY ONLY <1>9, <3>2, PlanWith(picked, amount).ok
    <3> QED
      BY ONLY <3>1, <3>3, Zenon
  <2>3. in = amount + (in - amount) + 0 /\ in - amount >= real1
    BY <1>3, <1>6, <2>2
  <2> QED
    BY <1>2, <1>5, <1>9, <2>1, <2>3 DEF Sound
<1> QED
  BY <1>11, <1>12

LEMMA PlanIsSound ==
  ASSUME NEW held, IsFiniteSet(held), Valued(held), NEW amount \in Nat, PlanPayout(held, amount).ok
  PROVE  Sound(PlanPayout(held, amount), held, amount)
<1>1. PICK plans : plans = {picked \in Picks(held) : PlanWith(picked, amount).ok}
  OBVIOUS
<1>2. PICK first : first = {picked \in plans : \A other \in plans : picked \subseteq other}
  OBVIOUS
<1>3. PICK p : p = CHOOSE picked \in first : TRUE
  OBVIOUS
<1>4. PlanPayout(held, amount) = IF amount < MinPay \/ ~CheckSats(amount) \/ first = {} THEN NoPlan
                                 ELSE PlanWith(p, amount)
  BY <1>1, <1>2, <1>3 DEF PlanPayout
<1>5. ~NoPlan.ok
  BY DEF NoPlan
<1>6. first # {} /\ PlanPayout(held, amount) = PlanWith(p, amount)
  BY <1>4, <1>5
<1>7. p \in Picks(held) /\ PlanWith(p, amount).ok
  BY <1>1, <1>2, <1>3, <1>6
<1>8. p \subseteq held
  BY <1>7 DEF Picks
<1> QED
  BY <1>6, <1>7, <1>8, PlanWithIs

-----------------------------------------------------------------------------
(* The teller. *)

\* Every document on the relays, the operator's own ledger and the empty one are explained by
\* the requests the relays hold.
RelaysOK(p, R) == \E S : p \in Seq(S) /\ \A ev \in S : OkLedger(ev.doc, R)
CoinOK(d, c) == c.account \in Accounts /\ c.value \in Nat /\ c.x = Address(d, c.account)

TellerBase ==
    /\ secret \in Scalars /\ KnownBy(given, secret)
    /\ RequestsOK(requests) /\ OkLedger(ledger, requests) /\ RelaysOK(published, requests)
    /\ IsFiniteSet(chain) /\ \A c \in chain : CoinOK(secret, c)

LEMMA AskedIsTyped ==
  ASSUME NEW r \in Asked
  PROVE  r.amount \in Nat
<1>1. \A a, what, id, n, to, h : RequestEvent(a, what, id, n, to, h).amount = n
  BY DEF RequestEvent
<1>2. Wanted \subseteq Nat
  BY TellerAssumption
<1> DEFINE J == {RequestEvent(a, "join", id, 0, a, ledger.hash) : a \in Accounts, id \in Ids}
           T == {RequestEvent(a, "transfer", id, n, to, ledger.hash) :
                   a \in Accounts, id \in Ids, n \in Wanted, to \in Accounts}
           W == {RequestEvent(a, "withdraw", id, n, a, ledger.hash) : a \in Accounts, id \in Ids, n \in Wanted}
<1>3. r \in J \/ r \in T \/ r \in W
  BY DEF Asked
<1>4. CASE r \in J
  BY <1>1, <1>4
<1>5. CASE r \in T
  BY <1>1, <1>2, <1>5
<1>6. CASE r \in W
  BY <1>1, <1>2, <1>6
<1> QED
  BY <1>3, <1>4, <1>5, <1>6

LEMMA RelaysKeep ==
  ASSUME NEW p, NEW R, NEW Q, R \subseteq Q, RelaysOK(p, R)
  PROVE  RelaysOK(p, Q)
<1>1. PICK S : p \in Seq(S) /\ \A ev \in S : OkLedger(ev.doc, R)
  BY DEF RelaysOK
<1>2. \A ev \in S : OkLedger(ev.doc, Q)
  BY <1>1, MoreRequests
<1> QED
  BY <1>1, <1>2 DEF RelaysOK

LEMMA RelaysMore ==
  ASSUME NEW p, NEW R, RelaysOK(p, R), NEW ev, OkLedger(ev.doc, R), NEW q, q = Append(p, ev)
  PROVE  RelaysOK(q, R)
<1>1. PICK S : p \in Seq(S) /\ \A e \in S : OkLedger(e.doc, R)
  BY DEF RelaysOK
<1>2. PICK T : T = S \cup {ev}
  OBVIOUS
<1>3. q \in Seq(T)
  BY <1>1, <1>2, AppendProperties
<1>4. \A e \in T : OkLedger(e.doc, R)
  BY <1>1, <1>2
<1> QED
  BY <1>3, <1>4 DEF RelaysOK

\* What a new start reads is a document the relays hold, or the empty one.
LEMMA LatestIsOk ==
  ASSUME NEW p, NEW R, RelaysOK(p, R), NEW hash
  PROVE  OkLedger(LatestLedger(p, hash).doc, R)
<1>1. PICK S : p \in Seq(S) /\ \A ev \in S : OkLedger(ev.doc, R)
  BY DEF RelaysOK
<1>2. PICK read : read = {i \in DOMAIN p : ReadLedgerEvent(p[i], hash)}
  OBVIOUS
<1>3. PICK newest : newest = {i \in read : \A j \in read : p[j].at <= p[i].at}
  OBVIOUS
<1>4. LatestLedger(p, hash) = IF newest = {} THEN LedgerEvent(Operator, NewLedger(Operator, 0), 0)
                                      ELSE p[Min(newest)]
  BY <1>2, <1>3 DEF LatestLedger
<1>5. CASE newest = {}
  <2>1. LatestLedger(p, hash).doc = NewLedger(Operator, 0)
    BY <1>4, <1>5 DEF LedgerEvent
  <2> QED
    BY <2>1, NewIsOk
<1>6. CASE newest # {}
  <2>1. newest \subseteq DOMAIN p
    BY <1>2, <1>3
  <2>2. DOMAIN p \subseteq Nat
    BY <1>1
  <2>3. Min(newest) \in newest
    BY <1>6, <2>1, <2>2, MinMember
  <2>4. p[Min(newest)] \in S
    <3>1. PICK i : i = Min(newest) /\ i \in DOMAIN p
      BY <2>1, <2>3
    <3> QED
      BY <1>1, <3>1, ElementOfSeq
  <2> QED
    BY <1>1, <1>4, <1>6, <2>4
<1> QED
  BY <1>5, <1>6

LEMMA TellerBaseInit == TellerInit => TellerBase
<1> SUFFICES ASSUME TellerInit PROVE TellerBase
  OBVIOUS
<1>1. secret \in Scalars /\ KnownBy(given, secret)
  BY TellerAssumption DEF TellerInit, KnownBy
<1>2. OkLedger(ledger, requests)
  BY NewIsOk DEF TellerInit
<1>3. RelaysOK(published, requests)
  <2>1. published \in Seq({})
    BY DEF TellerInit
  <2> QED
    BY <2>1 DEF RelaysOK
<1>4. IsFiniteSet(chain) /\ chain = {} /\ requests = {}
  BY FS_EmptySet DEF TellerInit
<1> QED
  BY <1>1, <1>2, <1>3, <1>4 DEF TellerBase, RequestsOK

LEMMA PayStep ==
  ASSUME TellerBase, NEW a \in Accounts, NEW v \in Values, Pay(a, v)
  PROVE  TellerBase'
<1>1. PICK c : c = [op |-> made + 1, account |-> a, value |-> v, x |-> DepositAddress(given, a).x]
  OBVIOUS
<1>2. chain' = chain \cup {c}
  BY <1>1 DEF Pay
<1>3. secret' = secret /\ given' = given /\ ledger' = ledger /\ requests' = requests /\ published' = published
  BY DEF Pay
<1>4. c.account = a /\ c.value = v /\ c.x = Address(secret, a)
  BY <1>1, SameAddress DEF TellerBase
<1>5. CoinOK(secret, c)
  BY <1>4, TellerAssumption DEF CoinOK
<1>6. IsFiniteSet(chain') /\ \A k \in chain' : CoinOK(secret, k)
  BY <1>2, <1>5, FS_AddElement DEF TellerBase
<1> QED
  BY <1>3, <1>6 DEF TellerBase

LEMMA AskStep ==
  ASSUME TellerBase, NEW r \in Asked, Ask(r)
  PROVE  TellerBase'
<1>1. requests' = requests \cup {r} /\ r.amount \in Nat
  BY AskedIsTyped DEF Ask
<1>2. secret' = secret /\ given' = given /\ ledger' = ledger /\ chain' = chain /\ published' = published
  BY DEF Ask
<1>3. PICK R, Q : R = requests /\ Q = requests'
  OBVIOUS
<1>4. R \subseteq Q /\ RequestsOK(Q) /\ OkLedger(ledger, R) /\ RelaysOK(published, R)
  BY <1>1, <1>3 DEF TellerBase, RequestsOK
<1>5. OkLedger(ledger, Q) /\ RelaysOK(published, Q)
  BY <1>4, MoreRequests, RelaysKeep
<1> QED
  BY <1>2, <1>3, <1>4, <1>5 DEF TellerBase

LEMMA SeeStep ==
  ASSUME TellerBase, NEW c \in chain, See(c)
  PROVE  TellerBase'
<1>1. ledger' = Credit(ledger, c, now)
  BY DEF See
<1>2. secret' = secret /\ given' = given /\ requests' = requests /\ chain' = chain /\ published' = published
  BY DEF See
<1>3. c.value \in Nat /\ OkLedger(ledger, requests) /\ RequestsOK(requests)
  BY DEF TellerBase, CoinOK
<1>4. OkLedger(Credit(ledger, c, now), requests)
  BY <1>3, CreditIsOk
<1> QED
  BY <1>1, <1>2, <1>4 DEF TellerBase

LEMMA TransferStep ==
  ASSUME TellerBase, NEW r \in requests, OnTransfer(r)
  PROVE  TellerBase'
<1>1. ledger' = Transfer(ledger, r, now) /\ r.what = "transfer"
  BY DEF OnTransfer
<1>2. secret' = secret /\ given' = given /\ requests' = requests /\ chain' = chain /\ published' = published
  BY DEF OnTransfer
<1>3. OkLedger(ledger, requests) /\ RequestsOK(requests)
  BY DEF TellerBase
<1>4. OkLedger(Transfer(ledger, r, now), requests)
  BY <1>1, <1>3, TransferIsOk
<1> QED
  BY <1>1, <1>2, <1>4 DEF TellerBase

LEMMA WithdrawStep ==
  ASSUME TellerBase, NEW r \in requests, OnWithdraw(r)
  PROVE  TellerBase'
<1>1. PICK plan, own : plan = PlanPayout(Held, r.amount) /\ own = DepositAddress(Did(PointOf(secret)), Operator)
  OBVIOUS
<1>2. PICK c : c = [op |-> made + 1, account |-> Operator, value |-> plan.change, x |-> own.x]
  OBVIOUS
<1>3. /\ r.what = "withdraw" /\ plan.ok /\ MayDebit(ledger, r)
      /\ ledger' = Debit(ledger, r, made + 1, now)
      /\ chain' = IF plan.change = 0 THEN chain \ plan.picked ELSE (chain \ plan.picked) \cup {c}
      /\ secret' = secret /\ given' = given /\ requests' = requests /\ published' = published
  BY <1>1, <1>2 DEF OnWithdraw
<1>4. OkLedger(ledger, requests) /\ RequestsOK(requests) /\ r.amount \in Nat
  BY DEF TellerBase, RequestsOK
<1>5. OkLedger(Debit(ledger, r, made + 1, now), requests)
  BY <1>3, <1>4, DebitIsOk
<1>6. Held \subseteq chain
  BY DEF Held
<1>7. IsFiniteSet(Held) /\ Valued(Held)
  BY <1>6, FS_Subset DEF TellerBase, CoinOK, Valued
<1>8. Sound(plan, Held, r.amount)
  BY <1>1, <1>3, <1>4, <1>7, PlanIsSound
<1>9. plan.change \in Nat
  BY <1>8 DEF Sound
<1>10. c.account = Operator /\ c.value \in Nat /\ c.x = Address(secret, Operator)
  BY <1>1, <1>2, <1>9 DEF Address
<1>11. CoinOK(secret, c)
  BY <1>10, TellerAssumption DEF CoinOK
<1>12. PICK L : L = chain \ plan.picked
  OBVIOUS
<1>13. IsFiniteSet(L) /\ IsFiniteSet(L \cup {c}) /\ \A k \in L \cup {c} : CoinOK(secret, k)
  BY <1>11, <1>12, FS_Subset, FS_AddElement DEF TellerBase
<1>14. IsFiniteSet(chain') /\ \A k \in chain' : CoinOK(secret, k)
  BY <1>3, <1>12, <1>13
<1> QED
  BY <1>3, <1>5, <1>14 DEF TellerBase

LEMMA PublishStep ==
  ASSUME TellerBase, Publish
  PROVE  TellerBase'
<1>1. PICK ev : ev = LedgerEvent(Operator, ledger, now)
  OBVIOUS
<1>2. published' = Append(published, ev) /\ ev.doc = ledger
  BY <1>1 DEF Publish, LedgerEvent
<1>3. secret' = secret /\ given' = given /\ ledger' = ledger /\ requests' = requests /\ chain' = chain
  BY DEF Publish
<1>4. PICK q : q = Append(published, ev)
  OBVIOUS
<1>5. RelaysOK(q, requests)
  BY <1>2, <1>4, RelaysMore DEF TellerBase
<1> QED
  BY <1>2, <1>3, <1>4, <1>5 DEF TellerBase

LEMMA RepeatStep ==
  ASSUME TellerBase, Repeat
  PROVE  TellerBase'
<1>1. PICK ev : ev = LedgerEvent("else", NewLedger(Operator, 0), now + 1)
  OBVIOUS
<1>2. published' = Append(published, ev) /\ ev.doc = NewLedger(Operator, 0)
  BY <1>1 DEF Repeat, LedgerEvent
<1>3. secret' = secret /\ given' = given /\ ledger' = ledger /\ requests' = requests /\ chain' = chain
  BY DEF Repeat
<1>4. PICK q : q = Append(published, ev)
  OBVIOUS
<1>5. RelaysOK(q, requests)
  BY <1>2, <1>4, RelaysMore, NewIsOk DEF TellerBase
<1> QED
  BY <1>2, <1>3, <1>4, <1>5 DEF TellerBase

LEMMA StartAgainStep ==
  ASSUME TellerBase, StartAgain
  PROVE  TellerBase'
<1>1. PICK l : l = LatestLedger(published, ledger.hash).doc
  OBVIOUS
<1>2. ledger' = l
  BY <1>1 DEF StartAgain
<1>3. secret' = secret /\ given' = given /\ published' = published /\ requests' = requests /\ chain' = chain
  BY DEF StartAgain
<1>4. OkLedger(l, requests)
  BY <1>1, LatestIsOk DEF TellerBase
<1> QED
  BY <1>2, <1>3, <1>4 DEF TellerBase

\* The ledger, and every document of it on the relays, is explained by deposits, payouts and
\* requests; every coin lies at the address the operator derives.
THEOREM TellerBaseHolds == TellerSpec => []TellerBase
<1>1. TellerInit => TellerBase
  BY TellerBaseInit
<1>2. TellerBase /\ [TellerNext]_tellerVars => TellerBase'
  <2> SUFFICES ASSUME TellerBase, [TellerNext]_tellerVars PROVE TellerBase'
    OBVIOUS
  <2>1. CASE \E a \in Accounts, v \in Values : Pay(a, v)
    BY <2>1, PayStep
  <2>2. CASE \E r \in Asked : Ask(r)
    BY <2>2, AskStep
  <2>3. CASE \E c \in chain : See(c)
    BY <2>3, SeeStep
  <2>4. CASE \E r \in requests : OnTransfer(r) \/ OnWithdraw(r)
    BY <2>4, TransferStep, WithdrawStep
  <2>5. CASE Publish
    BY <2>5, PublishStep
  <2>6. CASE Repeat
    BY <2>6, RepeatStep
  <2>7. CASE StartAgain
    BY <2>7, StartAgainStep
  <2>8. CASE UNCHANGED tellerVars
    BY <2>8 DEF tellerVars, TellerBase
  <2> QED
    BY <2>1, <2>2, <2>3, <2>4, <2>5, <2>6, <2>7, <2>8 DEF TellerNext
<1> QED
  BY <1>1, <1>2, PTL DEF TellerSpec

\* "Every change is a signed request or a deposit seen on-chain" (lib.rs): whatever restarts
\* and repeated deliveries do, one request per applied id, the deposits credited and the
\* payouts made explain every balance of the ledger (credit, transfer and debit).
THEOREM EveryChangeIsSignedHolds == TellerSpec => []EveryChangeIsSigned
<1>1. TellerBase => EveryChangeIsSigned
  <2> SUFFICES ASSUME TellerBase PROVE EveryChangeIsSigned
    OBVIOUS
  <2>1. PICK E, D, A, P : E = ledger.entries /\ D = ledger.deposits /\ A = ledger.applied /\ P = ledger.payouts
    OBVIOUS
  <2>2. Explained(E, D, A, P, requests)
    BY <2>1 DEF TellerBase, OkLedger
  <2>3. PICK k : Answers(A, P, k, requests) /\ \A a \in Accounts : Balanced(E, D, A, P, k, a)
    BY <2>2 DEF Explained
  <2>4. k \in [ledger.applied -> requests] /\ Signed(ledger, k)
    BY <2>1, <2>3 DEF Answers, Signed
  <2>5. ASSUME NEW a \in Accounts PROVE AddsUp(ledger, k, a)
    <3>1. /\ Balance(ledger, a) = BalanceIn(E, a)
          /\ {d \in ledger.deposits : d.account = a} = Of(D, a)
          /\ {p \in ledger.payouts : p.account = a} = Of(P, a)
          /\ To(ledger, k, a) = Sent(k, A, a) /\ By(ledger, k, a) = Spent(k, A, a)
      BY <2>1, BalanceOf DEF Of, To, By, Sent, Spent
    <3>2. Balanced(E, D, A, P, k, a)
      BY <2>3
    <3> QED
      BY ONLY <3>1, <3>2 DEF AddsUp, Balanced
  <2> QED
    BY <2>4, <2>5 DEF EveryChangeIsSigned
<1> QED
  BY <1>1, TellerBaseHolds, PTL

\* Whatever form the depositors know the operator by, and whatever the parity of its key: the
\* operator sees every coin at the address it derives itself, its secret for the account signs
\* for it, and a plan adds up and never pays less than the signed transaction's size asks for
\* (deposit_address, deposit_secret, plan_payout, sign_payout).
THEOREM DepositsCanBeSpentHolds == TellerSpec => []DepositsCanBeSpent
<1>1. TellerBase => DepositsCanBeSpent
  <2> SUFFICES ASSUME TellerBase PROVE DepositsCanBeSpent
    OBVIOUS
  <2>1. \A c \in chain : DepositAddress(Did(PointOf(secret)), c.account).x = c.x
    BY DEF TellerBase, CoinOK, Address
  <2>2. ASSUME NEW n \in Wanted, PlanPayout(chain, n).ok
        PROVE  /\ SignPayout(PlanPayout(chain, n), secret)
               /\ SumOf(PlanPayout(chain, n).picked)
                    = n + PlanPayout(chain, n).fee + PlanPayout(chain, n).change
    <3>1. n \in Nat /\ IsFiniteSet(chain) /\ Valued(chain)
      BY TellerAssumption DEF TellerBase, CoinOK, Valued
    <3>2. PICK plan : plan = PlanPayout(chain, n)
      OBVIOUS
    <3>3. Sound(plan, chain, n)
      BY <2>2, <3>1, <3>2, PlanIsSound
    <3>4. ASSUME NEW c \in plan.picked PROVE SignsFor(DepositSecret(secret, Tweak[c.account]), c.x)
      <4>1. secret \in Scalars /\ c.account \in Accounts /\ c.x = Address(secret, c.account)
        BY <3>3 DEF Sound, TellerBase, CoinOK
      <4> QED
        BY <4>1, SecretSigns
    <3>5. SignPayout(plan, secret)
      BY <3>3, <3>4 DEF Sound, SignPayout
    <3>6. SumOf(plan.picked) = n + plan.fee + plan.change
      BY <3>3 DEF Sound
    <3> QED
      BY <3>2, <3>5, <3>6
  <2> QED
    BY <2>1, <2>2 DEF DepositsCanBeSpent
<1> QED
  BY <1>1, TellerBaseHolds, PTL

-----------------------------------------------------------------------------
(* Folds over sequences: what a fold has come to after each element. *)

LEMMA MaxMember ==
  ASSUME NEW S, NEW n \in Nat, S \subseteq 1 .. n, S # {}
  PROVE  Max(S) \in S /\ \A y \in S : Max(S) >= y
<1>1. PICK T : T = {n - x : x \in S}
  OBVIOUS
<1>2. T \subseteq Nat /\ T # {}
  <2>1. \A x \in S : n - x \in Nat
    OBVIOUS
  <2> QED
    BY <1>1, <2>1
<1>3. PICK k \in T : \A y \in T : ~(y < k)
  BY <1>2, LeastNat
<1>4. PICK x \in S : k = n - x
  BY <1>1, <1>3
<1>5. ASSUME NEW y \in S PROVE x >= y
  <2>1. n - y \in T /\ ~(n - y < n - x)
    BY <1>1, <1>3, <1>4
  <2>2. x \in Int /\ y \in Int
    OBVIOUS
  <2> QED
    BY ONLY <2>1, <2>2, n \in Nat
<1> QED
  BY <1>5 DEF Max

LEMMA IntervalParts ==
  ASSUME NEW n \in Nat
  PROVE  \A s \in SUBSET (1 .. n) : /\ IsFiniteSet(s) /\ Cardinality(s) \in Nat /\ Cardinality(s) <= n
                                    /\ s # {} => Max(s) \in s
                                    /\ s \ {Max(s)} \in SUBSET (1 .. n)
<1>1. IsFiniteSet(1 .. n) /\ Cardinality(1 .. n) = n
  BY FS_Interval
<1>2. ASSUME NEW s \in SUBSET (1 .. n)
      PROVE  IsFiniteSet(s) /\ Cardinality(s) \in Nat /\ Cardinality(s) <= n
  BY <1>1, <1>2, FS_Subset, FS_CardinalityType
<1> QED
  BY <1>2, MaxMember

LEMMA IntervalMax ==
  ASSUME NEW n \in Nat, NEW k \in 1 .. n
  PROVE  Max(1 .. k) = k
<1>1. 1 .. k \subseteq 1 .. n /\ k \in 1 .. k
  OBVIOUS
<1>2. Max(1 .. k) \in 1 .. k /\ Max(1 .. k) >= k
  BY <1>1, MaxMember
<1> QED
  BY <1>2

\* The folds of the model, each step with what it is given: replaying entries, walking the
\* mempool, keeping some of a list, resolving a block's inputs and applying its transactions.
Step(fold, p, a, x) ==
    CASE fold = "replay" -> ReplayEntry(a, x)
      [] fold = "walk" -> (IF Contains(p, x) THEN a ELSE Evicted(a, x))
      [] fold = "only" -> (IF x \in p THEN Append(a, x) ELSE a)
      [] fold = "resolve" -> ResolveTx(p[1], p[2], a, x)
      [] fold = "apply" -> ApplyTx(p, a, x)
FoldBody(fold, p, base, q, g, s) == IF s = {} THEN base ELSE Step(fold, p, g[s \ {Max(s)}], q[Max(s)])
IsFold(fold, p, base, q, g) == g = [s \in SUBSET DOMAIN q |-> FoldBody(fold, p, base, q, g, s)]
FoldOf(fold, p, base, q) == (CHOOSE g : IsFold(fold, p, base, q, g))[DOMAIN q]
FoldUpTo(fold, p, base, q, g, n) ==
    \A s \in SUBSET DOMAIN q : Cardinality(s) <= n => g[s] = FoldBody(fold, p, base, q, g, s)

LEMMA FoldUpToExists ==
  ASSUME NEW fold, NEW p, NEW base, NEW q, NEW m \in Nat, DOMAIN q = 1 .. m, NEW n \in Nat
  PROVE  \E g : FoldUpTo(fold, p, base, q, g, n)
<1>1. \A s \in SUBSET DOMAIN q : IsFiniteSet(s) /\ Cardinality(s) \in Nat
  BY IntervalParts
<1>2. \A s \in SUBSET DOMAIN q : Cardinality(s) = 0 <=> s = {}
  BY <1>1, FS_EmptySet
<1>3. \A s \in SUBSET DOMAIN q : s # {} =>
        s \ {Max(s)} \in SUBSET DOMAIN q /\ Cardinality(s \ {Max(s)}) = Cardinality(s) - 1
  BY <1>1, IntervalParts, FS_RemoveElement
<1> DEFINE T == {k \in Nat : ~\E g : FoldUpTo(fold, p, base, q, g, k)}
<1> SUFFICES T = {}
  OBVIOUS
<1>4. ASSUME T # {} PROVE FALSE
  <2>1. PICK k \in T : \A y \in T : ~(y < k)
    <3>1. T \subseteq Nat
      OBVIOUS
    <3> HIDE DEF T
    <3> QED
      BY <1>4, <3>1, LeastNat
  <2>2. CASE k = 0
    <3>1. PICK g : g = [s \in SUBSET DOMAIN q |-> base]
      OBVIOUS
    <3>2. FoldUpTo(fold, p, base, q, g, 0)
      BY <1>1, <1>2, <3>1 DEF FoldUpTo, FoldBody
    <3> QED
      BY <2>1, <2>2, <3>2
  <2>3. CASE k # 0
    <3>1. k - 1 \in Nat /\ k - 1 < k /\ k \in Nat
      BY <2>1, <2>3
    <3>2. PICK g : FoldUpTo(fold, p, base, q, g, k - 1)
      BY <2>1, <3>1
    <3> HIDE DEF T
    <3>3. PICK h : h = [s \in SUBSET DOMAIN q |->
                          IF Cardinality(s) <= k - 1 THEN g[s] ELSE FoldBody(fold, p, base, q, g, s)]
      OBVIOUS
    <3>4. \A s \in SUBSET DOMAIN q :
            h[s] = IF Cardinality(s) <= k - 1 THEN g[s] ELSE FoldBody(fold, p, base, q, g, s)
      BY <3>3
    <3>5. \A s \in SUBSET DOMAIN q : h[s] = FoldBody(fold, p, base, q, g, s) \/ ~(Cardinality(s) <= k)
      BY <3>2, <3>4 DEF FoldUpTo
    <3>6. ASSUME NEW s \in SUBSET DOMAIN q, Cardinality(s) <= k
          PROVE  FoldBody(fold, p, base, q, g, s) = FoldBody(fold, p, base, q, h, s)
      <4>1. CASE s = {}
        BY <4>1 DEF FoldBody
      <4>2. CASE s # {}
        <5>1. PICK u : u = s \ {Max(s)}
          OBVIOUS
        <5>2. u \in SUBSET DOMAIN q /\ Cardinality(u) <= k - 1
          BY <1>1, <1>3, <3>1, <3>6, <4>2, <5>1
        <5>3. h[u] = g[u]
          BY <3>4, <5>2
        <5> QED
          BY <5>1, <5>3 DEF FoldBody
      <4> QED
        BY <4>1, <4>2
    <3>7. FoldUpTo(fold, p, base, q, h, k)
      BY <3>5, <3>6 DEF FoldUpTo
    <3> QED
      BY <2>1, <3>7 DEF T
  <2> QED
    BY <2>2, <2>3
<1> QED
  BY <1>4

\* What a fold has come to after each element.
Runs(fold, p, base, q, n, v) == v[0] = base /\ \A k \in 1 .. n : v[k] = Step(fold, p, v[k - 1], q[k])

LEMMA FoldRuns ==
  ASSUME NEW fold, NEW p, NEW base, NEW q, NEW n \in Nat, DOMAIN q = 1 .. n
  PROVE  \E v : Runs(fold, p, base, q, n, v) /\ FoldOf(fold, p, base, q) = v[n]
<1>1. PICK f : f = CHOOSE g : IsFold(fold, p, base, q, g)
  OBVIOUS
<1>2. FoldOf(fold, p, base, q) = f[DOMAIN q]
  BY <1>1 DEF FoldOf
<1>3. \E g : IsFold(fold, p, base, q, g)
  <2>1. PICK g : FoldUpTo(fold, p, base, q, g, n)
    BY FoldUpToExists
  <2>2. \A s \in SUBSET DOMAIN q : Cardinality(s) <= n /\ (s \ {Max(s)} \in SUBSET DOMAIN q)
    BY IntervalParts
  <2>3. PICK h : h = [s \in SUBSET DOMAIN q |-> g[s]]
    OBVIOUS
  <2>4. \A s \in SUBSET DOMAIN q :
          h[s] = g[s] /\ g[s] = FoldBody(fold, p, base, q, g, s) /\ h[s \ {Max(s)}] = g[s \ {Max(s)}]
    BY <2>1, <2>2, <2>3 DEF FoldUpTo
  <2>5. \A s \in SUBSET DOMAIN q : h[s] = FoldBody(fold, p, base, q, h, s)
    BY <2>4 DEF FoldBody
  <2>6. h = [s \in SUBSET DOMAIN q |-> FoldBody(fold, p, base, q, h, s)]
    BY <2>3, <2>5
  <2> QED
    BY <2>6 DEF IsFold
<1>4. f = [s \in SUBSET DOMAIN q |-> FoldBody(fold, p, base, q, f, s)]
  BY <1>1, <1>3 DEF IsFold
<1>5. \A s \in SUBSET DOMAIN q : f[s] = FoldBody(fold, p, base, q, f, s)
  <2>1. PICK g : g = f
    OBVIOUS
  <2>2. f = [s \in SUBSET DOMAIN q |-> FoldBody(fold, p, base, q, g, s)]
    BY <1>4, <2>1
  <2> QED
    BY <2>1, <2>2
<1>6. PICK v : v = [k \in 0 .. n |-> f[1 .. k]]
  OBVIOUS
<1>7. v[0] = base
  <2>1. v[0] = f[1 .. 0] /\ 1 .. 0 = {} /\ {} \in SUBSET DOMAIN q
    BY <1>6
  <2> QED
    BY <1>5, <2>1 DEF FoldBody
<1>8. ASSUME NEW k \in 1 .. n PROVE v[k] = Step(fold, p, v[k - 1], q[k])
  <2>1. PICK s, t : s = 1 .. k /\ t = 1 .. k - 1
    OBVIOUS
  <2>2. s \in SUBSET DOMAIN q /\ s # {} /\ s \ {k} = t /\ Max(s) = k
    BY <1>8, <2>1, IntervalMax
  <2>3. v[k] = f[s] /\ v[k - 1] = f[t]
    BY <1>6, <1>8, <2>1
  <2>4. f[s] = Step(fold, p, f[t], q[k])
    BY <1>5, <2>2 DEF FoldBody
  <2> QED
    BY <2>3, <2>4
<1>9. v[n] = f[DOMAIN q]
  BY <1>6
<1> QED
  BY <1>2, <1>7, <1>8, <1>9 DEF Runs

ReplayIs(base, q, g) == g = [s \in SUBSET DOMAIN q |-> IF s = {} THEN base ELSE ReplayEntry(g[s \ {Max(s)}], q[Max(s)])]

LEMMA ReplayFold ==
  ASSUME NEW base, NEW q
  PROVE  FoldLeft(ReplayEntry, base, q) = FoldOf("replay", 0, base, q)
<1>1. \A g : IsFold("replay", 0, base, q, g) <=> ReplayIs(base, q, g)
  BY DEF IsFold, ReplayIs, FoldBody, Step
<1>2. (CHOOSE g : IsFold("replay", 0, base, q, g)) = CHOOSE g : ReplayIs(base, q, g)
  BY <1>1, Zenon
<1>3. FoldLeft(ReplayEntry, base, q) = (CHOOSE g : ReplayIs(base, q, g))[DOMAIN q]
  BY DEF FoldLeft, MapThenFoldSet, ReplayIs
<1> QED
  BY <1>2, <1>3 DEF FoldOf

WalkIs(kept, base, q, g) == g = [s \in SUBSET DOMAIN q |-> IF s = {} THEN base ELSE IF Contains(kept, q[Max(s)]) THEN g[s \ {Max(s)}] ELSE Evicted(g[s \ {Max(s)}], q[Max(s)])]

LEMMA WalkFold ==
  ASSUME NEW kept, NEW base, NEW q
  PROVE  FoldLeft(LAMBDA st, t : IF Contains(kept, t) THEN st ELSE Evicted(st, t), base, q) = FoldOf("walk", kept, base, q)
<1>1. \A g : IsFold("walk", kept, base, q, g) <=> WalkIs(kept, base, q, g)
  BY DEF IsFold, WalkIs, FoldBody, Step
<1>2. (CHOOSE g : IsFold("walk", kept, base, q, g)) = CHOOSE g : WalkIs(kept, base, q, g)
  BY <1>1, Zenon
<1>3. FoldLeft(LAMBDA st, t : IF Contains(kept, t) THEN st ELSE Evicted(st, t), base, q) = (CHOOSE g : WalkIs(kept, base, q, g))[DOMAIN q]
  BY DEF FoldLeft, MapThenFoldSet, WalkIs
<1> QED
  BY <1>2, <1>3 DEF FoldOf

OnlyIs(some, base, q, g) == g = [s \in SUBSET DOMAIN q |-> IF s = {} THEN base ELSE IF q[Max(s)] \in some THEN Append(g[s \ {Max(s)}], q[Max(s)]) ELSE g[s \ {Max(s)}]]

LEMMA OnlyFold ==
  ASSUME NEW some, NEW base, NEW q
  PROVE  FoldLeft(LAMBDA kept, t : IF t \in some THEN Append(kept, t) ELSE kept, base, q) = FoldOf("only", some, base, q)
<1>1. \A g : IsFold("only", some, base, q, g) <=> OnlyIs(some, base, q, g)
  BY DEF IsFold, OnlyIs, FoldBody, Step
<1>2. (CHOOSE g : IsFold("only", some, base, q, g)) = CHOOSE g : OnlyIs(some, base, q, g)
  BY <1>1, Zenon
<1>3. FoldLeft(LAMBDA kept, t : IF t \in some THEN Append(kept, t) ELSE kept, base, q) = (CHOOSE g : OnlyIs(some, base, q, g))[DOMAIN q]
  BY DEF FoldLeft, MapThenFoldSet, OnlyIs
<1> QED
  BY <1>2, <1>3 DEF FoldOf

ResolveIs(st, h, base, q, g) == g = [s \in SUBSET DOMAIN q |-> IF s = {} THEN base ELSE ResolveTx(st, h, g[s \ {Max(s)}], q[Max(s)])]

LEMMA ResolveFold ==
  ASSUME NEW st, NEW h, NEW base, NEW q
  PROVE  FoldLeft(LAMBDA acc, t : ResolveTx(st, h, acc, t), base, q) = FoldOf("resolve", <<st, h>>, base, q)
<1>1. \A g : IsFold("resolve", <<st, h>>, base, q, g) <=> ResolveIs(st, h, base, q, g)
  BY DEF IsFold, ResolveIs, FoldBody, Step
<1>2. (CHOOSE g : IsFold("resolve", <<st, h>>, base, q, g)) = CHOOSE g : ResolveIs(st, h, base, q, g)
  BY <1>1, Zenon
<1>3. FoldLeft(LAMBDA acc, t : ResolveTx(st, h, acc, t), base, q) = (CHOOSE g : ResolveIs(st, h, base, q, g))[DOMAIN q]
  BY DEF FoldLeft, MapThenFoldSet, ResolveIs
<1> QED
  BY <1>2, <1>3 DEF FoldOf

ApplyIs(h, base, q, g) == g = [s \in SUBSET DOMAIN q |-> IF s = {} THEN base ELSE ApplyTx(h, g[s \ {Max(s)}], q[Max(s)])]

LEMMA ApplyFold ==
  ASSUME NEW h, NEW base, NEW q
  PROVE  FoldLeft(LAMBDA u, t : ApplyTx(h, u, t), base, q) = FoldOf("apply", h, base, q)
<1>1. \A g : IsFold("apply", h, base, q, g) <=> ApplyIs(h, base, q, g)
  BY DEF IsFold, ApplyIs, FoldBody, Step
<1>2. (CHOOSE g : IsFold("apply", h, base, q, g)) = CHOOSE g : ApplyIs(h, base, q, g)
  BY <1>1, Zenon
<1>3. FoldLeft(LAMBDA u, t : ApplyTx(h, u, t), base, q) = (CHOOSE g : ApplyIs(h, base, q, g))[DOMAIN q]
  BY DEF FoldLeft, MapThenFoldSet, ApplyIs
<1> QED
  BY <1>2, <1>3 DEF FoldOf

-----------------------------------------------------------------------------
(* More about sums. *)

Natural(f, S) == \A x \in S : f[x] \in Nat

LEMMA TotalNatural ==
  ASSUME NEW f, NEW S, IsFiniteSet(S), Natural(f, S), NEW R, R \subseteq S
  PROVE  IsFiniteSet(R) /\ Whole(f, R) /\ Natural(f, R) /\ Total(f, R) \in Nat
<1>1. IsFiniteSet(R) /\ Whole(f, R) /\ Natural(f, R)
  BY FS_Subset DEF Whole, Natural
<1>2. \A x \in R : f[x] \in Nat
  BY <1>1 DEF Natural
<1> QED
  BY <1>1, <1>2, TotalType

\* A part of a set and what is left.
LEMMA TotalSplit ==
  ASSUME NEW f, NEW S, IsFiniteSet(S), Natural(f, S), NEW Part, Part \subseteq S
  PROVE  Total(f, S) = Total(f, Part) + Total(f, S \ Part)
<1> DEFINE T == {r \in SUBSET S : Total(f, S) # Total(f, r) + Total(f, S \ r)}
<1> SUFFICES T = {}
  OBVIOUS
<1>1. ASSUME T # {} PROVE FALSE
  <2>1. PICK U \in T : IsFiniteSet(U) /\ \A V \in T : ~(V \subseteq U /\ V # U)
    <3>1. T \subseteq SUBSET S
      OBVIOUS
    <3> HIDE DEF T
    <3> QED
      BY <1>1, <3>1, LeastSubset
  <2>2. U \subseteq S /\ Total(f, S) # Total(f, U) + Total(f, S \ U)
    BY <2>1
  <2>3. U # {}
    <3>1. ASSUME U = {} PROVE FALSE
      <4>1. S \ U = S /\ Total(f, U) = 0
        BY <3>1, TotalEmpty
      <4>2. Total(f, S) \in Nat
        BY TotalNatural
      <4> QED
        BY <2>2, <4>1, <4>2
    <3> QED
      BY <3>1
  <2>4. PICK x \in U : TRUE
    BY <2>3
  <2>5. PICK V, W, Z : V = U \ {x} /\ W = S \ V /\ Z = S \ U
    OBVIOUS
  <2>6. V \in SUBSET S /\ V \subseteq U /\ V # U /\ x \in W /\ W \ {x} = Z /\ W \subseteq S /\ Z \subseteq S
    BY <2>2, <2>4, <2>5
  <2>7. Total(f, S) = Total(f, V) + Total(f, W)
    <3>1. V \notin T
      BY <2>1, <2>6
    <3> QED
      BY <2>5, <2>6, <3>1
  <2> HIDE DEF T
  <2>8. Total(f, U) = f[x] + Total(f, V) /\ Total(f, W) = f[x] + Total(f, Z)
    <3>1. Whole(f, U) /\ Whole(f, W) /\ IsFiniteSet(U) /\ IsFiniteSet(W)
      BY <2>2, <2>6, TotalNatural
    <3>2. Total(f, U) = f[x] + Total(f, U \ {x})
      BY <2>4, <3>1, TotalRemove
    <3>3. Total(f, W) = f[x] + Total(f, W \ {x})
      BY <2>6, <3>1, TotalRemove
    <3> QED
      BY ONLY <2>5, <2>6, <3>2, <3>3
  <2>9. PICK a, b, c : a = f[x] /\ b = Total(f, V) /\ c = Total(f, Z)
    OBVIOUS
  <2>10. a \in Nat /\ b \in Nat /\ c \in Nat
    <3>1. Total(f, V) \in Nat /\ Total(f, Z) \in Nat
      BY <2>6, TotalNatural
    <3>2. f[x] \in Nat
      BY <2>2, <2>4 DEF Natural
    <3> QED
      BY ONLY <2>9, <3>1, <3>2
  <2>11. b + (a + c) = (a + b) + c
    BY ONLY <2>10
  <2> QED
    BY ONLY <2>2, <2>5, <2>7, <2>8, <2>9, <2>11
<1> QED
  BY <1>1

LEMMA TotalPart ==
  ASSUME NEW f, NEW S, IsFiniteSet(S), Natural(f, S), NEW R, R \subseteq S
  PROVE  Total(f, R) <= Total(f, S)
<1>1. Total(f, S) = Total(f, R) + Total(f, S \ R)
  BY TotalSplit
<1>2. Total(f, R) \in Nat /\ Total(f, S \ R) \in Nat
  <2>1. S \ R \subseteq S
    OBVIOUS
  <2> QED
    BY <2>1, TotalNatural
<1> QED
  BY <1>1, <1>2

\* Two parts that share nothing.
LEMMA TotalParts ==
  ASSUME NEW f, NEW S, IsFiniteSet(S), Natural(f, S), NEW P, NEW R, P \subseteq S, R \subseteq S, P \cap R = {}
  PROVE  Total(f, P) + Total(f, R) <= Total(f, S)
<1>1. PICK W : W = S \ P
  OBVIOUS
<1>2. W \subseteq S /\ R \subseteq W
  BY <1>1
<1>3. Total(f, S) = Total(f, P) + Total(f, W)
  BY <1>1, TotalSplit
<1>4. IsFiniteSet(W) /\ Natural(f, W) /\ Total(f, W) \in Nat
  BY <1>2, TotalNatural
<1>5. Total(f, R) <= Total(f, W) /\ Total(f, R) \in Nat /\ Total(f, P) \in Nat
  BY <1>2, <1>4, TotalPart, TotalNatural
<1> QED
  BY <1>3, <1>4, <1>5

\* Summed by the names that a function gives.
Names(h, I) == {h[i] : i \in I}
OneToOne(h, I) == \A i, j \in I : h[i] = h[j] => i = j

LEMMA TotalNames ==
  ASSUME NEW I, IsFiniteSet(I), NEW h, OneToOne(h, I), NEW f, NEW w, Natural(w, I), \A i \in I : f[h[i]] = w[i]
  PROVE  IsFiniteSet(Names(h, I)) /\ Total(f, Names(h, I)) = Total(w, I)
<1> DEFINE T == {r \in SUBSET I : ~(IsFiniteSet(Names(h, r)) /\ Total(f, Names(h, r)) = Total(w, r))}
<1> SUFFICES T = {}
  OBVIOUS
<1>1. ASSUME T # {} PROVE FALSE
  <2>1. PICK U \in T : IsFiniteSet(U) /\ \A V \in T : ~(V \subseteq U /\ V # U)
    <3>1. T \subseteq SUBSET I
      OBVIOUS
    <3> HIDE DEF T
    <3> QED
      BY <1>1, <3>1, LeastSubset
  <2>2. U \subseteq I /\ ~(IsFiniteSet(Names(h, U)) /\ Total(f, Names(h, U)) = Total(w, U))
    BY <2>1
  <2>3. U # {}
    <3>1. Names(h, {}) = {}
      BY DEF Names
    <3> QED
      BY <2>2, <3>1, TotalEmpty, FS_EmptySet
  <2>4. PICK x \in U : TRUE
    BY <2>3
  <2>5. PICK V, N, y : V = U \ {x} /\ N = Names(h, V) /\ y = h[x]
    OBVIOUS
  <2>6. V \in SUBSET I /\ V \subseteq U /\ V # U /\ x \in I
    BY <2>2, <2>4, <2>5
  <2>7. IsFiniteSet(N) /\ Total(f, N) = Total(w, V)
    <3>1. V \notin T
      BY <2>1, <2>6
    <3> QED
      BY <2>5, <2>6, <3>1
  <2> HIDE DEF T
  <2>8. y \notin N
    BY <2>4, <2>5, <2>6 DEF Names, OneToOne
  <2>9. Names(h, U) = N \cup {y}
    BY <2>4, <2>5 DEF Names
  <2>10. Whole(f, N) /\ f[y] = w[x] /\ f[y] \in Int
    <3>1. \A i \in I : f[h[i]] \in Int
      BY DEF Natural
    <3> QED
      BY <2>5, <2>6, <3>1 DEF Whole, Names
  <2>11. Total(f, N \cup {y}) = f[y] + Total(f, N)
    BY <2>7, <2>8, <2>10, TotalAdd
  <2>12. Total(w, U) = w[x] + Total(w, V)
    <3>1. IsFiniteSet(U) /\ Whole(w, U)
      BY <2>2, TotalNatural
    <3> QED
      BY <2>4, <2>5, <3>1, TotalRemove
  <2>13. IsFiniteSet(N \cup {y})
    BY <2>7, FS_AddElement
  <2> QED
    BY ONLY <2>2, <2>7, <2>9, <2>10, <2>11, <2>12, <2>13
<1> QED
  BY <1>1

-----------------------------------------------------------------------------
(* The value of coins. *)

Priced(S) == IsFiniteSet(S) /\ \A c \in S : c.v \in Nat

LEMMA ValueOfIs ==
  ASSUME NEW S, Priced(S), NEW R, R \subseteq S
  PROVE  /\ Priced(R) /\ IsFiniteSet(S) /\ Natural([c \in S |-> c.v], S)
         /\ ValueOf(R) = Total([c \in S |-> c.v], R) /\ ValueOf(R) \in Nat
<1>1. PICK f, g : f = [c \in S |-> c.v] /\ g = [c \in R |-> c.v]
  OBVIOUS
<1>2. Priced(R)
  BY FS_Subset DEF Priced
<1>3. Natural(f, S) /\ Natural(g, R) /\ Alike(g, f, R)
  BY <1>1, <1>2 DEF Natural, Alike, Priced
<1>4. ValueOf(R) = Total(g, R)
  BY <1>1 DEF ValueOf, SumFunction, Total
<1>5. IsFiniteSet(R) /\ IsFiniteSet(S)
  BY <1>2 DEF Priced
<1>6. Total(g, R) = Total(f, R) /\ Total(f, R) \in Nat
  BY <1>3, <1>5, TotalAlike, TotalNatural
<1> QED
  BY <1>1, <1>2, <1>3, <1>4, <1>5, <1>6

LEMMA ValueOfSplit ==
  ASSUME NEW S, Priced(S), NEW R, R \subseteq S
  PROVE  /\ ValueOf(S) = ValueOf(R) + ValueOf(S \ R) /\ Priced(R) /\ Priced(S \ R)
         /\ ValueOf(S) \in Nat /\ ValueOf(R) \in Nat /\ ValueOf(S \ R) \in Nat /\ ValueOf(R) <= ValueOf(S)
<1>1. PICK f, W : f = [c \in S |-> c.v] /\ W = S \ R
  OBVIOUS
<1>2. W \subseteq S /\ S \subseteq S
  BY <1>1
<1>3. Natural(f, S) /\ IsFiniteSet(S)
  BY <1>1, <1>2, ValueOfIs
<1>4. /\ ValueOf(S) = Total(f, S) /\ ValueOf(R) = Total(f, R) /\ ValueOf(W) = Total(f, W)
      /\ ValueOf(S) \in Nat /\ ValueOf(R) \in Nat /\ ValueOf(W) \in Nat /\ Priced(R) /\ Priced(W)
  BY <1>1, <1>2, ValueOfIs
<1>5. Total(f, S) = Total(f, R) + Total(f, W)
  BY <1>1, <1>3, TotalSplit
<1>6. ValueOf(S) = ValueOf(R) + ValueOf(W)
  BY ONLY <1>4, <1>5
<1>7. ValueOf(R) <= ValueOf(S)
  BY ONLY <1>4, <1>6
<1> QED
  BY <1>1, <1>4, <1>6, <1>7

LEMMA ValueOfUnion ==
  ASSUME NEW A, NEW B, Priced(A), Priced(B)
  PROVE  /\ Priced(A \cup B) /\ ValueOf(A \cup B) <= ValueOf(A) + ValueOf(B)
         /\ ValueOf(A) \in Nat /\ ValueOf(B) \in Nat /\ ValueOf(A \cup B) \in Nat
<1>1. PICK S, D : S = A \cup B /\ D = S \ A
  OBVIOUS
<1>2. Priced(S) /\ A \subseteq S /\ D \subseteq B
  BY <1>1, FS_Union DEF Priced
<1>3. ValueOf(S) = ValueOf(A) + ValueOf(D) /\ ValueOf(S) \in Nat /\ ValueOf(A) \in Nat
  BY <1>1, <1>2, ValueOfSplit
<1>4. ValueOf(D) <= ValueOf(B) /\ ValueOf(D) \in Nat /\ ValueOf(B) \in Nat
  BY <1>2, ValueOfSplit
<1>5. ValueOf(S) <= ValueOf(A) + ValueOf(B)
  BY ONLY <1>3, <1>4
<1> QED
  BY <1>1, <1>2, <1>3, <1>4, <1>5

LEMMA ValueOfNone == ValueOf({}) = 0 /\ Priced({})
<1>1. PICK f : f = [c \in {} |-> c.v]
  OBVIOUS
<1>2. ValueOf({}) = Total(f, {})
  BY <1>1 DEF ValueOf, SumFunction, Total
<1> QED
  BY <1>2, TotalEmpty, FS_EmptySet DEF Priced

LEMMA ValueOfOne ==
  ASSUME NEW c, c.v \in Nat
  PROVE  Priced({c}) /\ ValueOf({c}) = c.v
<1>1. PICK f : f = [x \in {c} |-> x.v]
  OBVIOUS
<1>2. ValueOf({c}) = Total(f, {c}) /\ f[c] = c.v
  BY <1>1 DEF ValueOf, SumFunction, Total
<1>3. Total(f, {c}) = f[c]
  BY <1>2, TotalOne
<1> QED
  BY <1>2, <1>3, FS_Singleton DEF Priced

\* Coins made one by one are worth no more than what they were made of.
LEMMA ValueOfNames ==
  ASSUME NEW I, IsFiniteSet(I), NEW h, NEW w, Natural(w, I), \A i \in I : h[i].v = w[i]
  PROVE  Priced(Names(h, I)) /\ ValueOf(Names(h, I)) <= Total(w, I)
<1> DEFINE T == {r \in SUBSET I : ~(Priced(Names(h, r)) /\ ValueOf(Names(h, r)) <= Total(w, r))}
<1> SUFFICES T = {}
  OBVIOUS
<1>1. ASSUME T # {} PROVE FALSE
  <2>1. PICK U \in T : IsFiniteSet(U) /\ \A V \in T : ~(V \subseteq U /\ V # U)
    <3>1. T \subseteq SUBSET I
      OBVIOUS
    <3> HIDE DEF T
    <3> QED
      BY <1>1, <3>1, LeastSubset
  <2>2. U \subseteq I /\ ~(Priced(Names(h, U)) /\ ValueOf(Names(h, U)) <= Total(w, U))
    BY <2>1
  <2>3. U # {}
    <3>1. Names(h, {}) = {}
      BY DEF Names
    <3> QED
      BY <2>2, <3>1, TotalEmpty, ValueOfNone
  <2>4. PICK x \in U : TRUE
    BY <2>3
  <2>5. PICK V, N, y : V = U \ {x} /\ N = Names(h, V) /\ y = h[x]
    OBVIOUS
  <2>6. V \in SUBSET I /\ V \subseteq U /\ V # U /\ x \in I
    BY <2>2, <2>4, <2>5
  <2>7. Priced(N) /\ ValueOf(N) <= Total(w, V)
    <3>1. V \notin T
      BY <2>1, <2>6
    <3> QED
      BY <2>5, <2>6, <3>1
  <2> HIDE DEF T
  <2>8. Names(h, U) = N \cup {y}
    BY <2>4, <2>5 DEF Names
  <2>9. y.v = w[x] /\ w[x] \in Nat
    BY <2>5, <2>6 DEF Natural
  <2>10. Priced({y}) /\ ValueOf({y}) = w[x]
    BY <2>9, ValueOfOne
  <2>11. Priced(N \cup {y}) /\ ValueOf(N \cup {y}) <= ValueOf(N) + w[x] /\ ValueOf(N) \in Nat
         /\ ValueOf(N \cup {y}) \in Nat
    BY <2>7, <2>10, ValueOfUnion
  <2>12. Total(w, U) = w[x] + Total(w, V) /\ Total(w, V) \in Nat
    <3>1. IsFiniteSet(U) /\ Whole(w, U) /\ Total(w, V) \in Nat
      BY <2>2, <2>6, TotalNatural
    <3> QED
      BY <2>4, <2>5, <3>1, TotalRemove
  <2>13. ValueOf(N \cup {y}) <= Total(w, U)
    BY ONLY <2>7, <2>9, <2>11, <2>12
  <2> QED
    BY ONLY <2>2, <2>8, <2>11, <2>13
<1> QED
  BY <1>1

-----------------------------------------------------------------------------
(* What a block's outputs are worth. *)

Outs(outs) == IsFiniteSet(DOMAIN outs) /\ \A i \in DOMAIN outs : outs[i].v \in Nat
Claims(list) == DOMAIN list = 1 .. Len(list) /\ Len(list) \in Nat /\ \A i \in DOMAIN list : list[i].v \in Nat
Block(b) ==
    /\ b = [h |-> b.h, prev |-> b.prev, txs |-> b.txs, fee |-> b.fee, claims |-> b.claims,
            pegs |-> b.pegs, sealed |-> b.sealed]
    /\ b.h \in Nat /\ b.txs \in Seq(TxIds) /\ b.fee \in Nat /\ b.pegs \in Seq(Nat) /\ Claims(b.claims)

\* Outputs, the coins among them and what is burnt: each is counted once.
LEMMA SumOutIs ==
  ASSUME NEW outs, Outs(outs)
  PROVE  /\ Natural([i \in DOMAIN outs |-> outs[i].v], DOMAIN outs)
         /\ SumOut(outs) = Total([i \in DOMAIN outs |-> outs[i].v], DOMAIN outs) /\ SumOut(outs) \in Nat
<1>1. PICK w : w = [i \in DOMAIN outs |-> outs[i].v]
  OBVIOUS
<1>2. Natural(w, DOMAIN outs) /\ IsFiniteSet(DOMAIN outs)
  BY <1>1 DEF Outs, Natural
<1>3. SumOut(outs) = Total(w, DOMAIN outs)
  BY <1>1 DEF SumOut, SumFunction, Total
<1>4. Total(w, DOMAIN outs) \in Nat
  BY <1>2, TotalNatural
<1> QED
  BY <1>1, <1>2, <1>3, <1>4

PaysOf(outs) == {j \in DOMAIN outs : Spendable(outs[j])}
BurnsIn(outs) == {j \in DOMAIN outs : outs[j].kind = "burn"}

LEMMA CoinsValue ==
  ASSUME NEW txid, NEW outs, Outs(outs), NEW h
  PROVE  /\ Priced(CoinsOf(txid, outs, h))
         /\ ValueOf(CoinsOf(txid, outs, h)) <= Total([i \in DOMAIN outs |-> outs[i].v], PaysOf(outs))
<1>1. PICK w, I : w = [i \in DOMAIN outs |-> outs[i].v] /\ I = PaysOf(outs)
  OBVIOUS
<1>2. IsFiniteSet(I) /\ Natural(w, I)
  <2>1. I \subseteq DOMAIN outs
    BY <1>1 DEF PaysOf
  <2> QED
    BY <1>1, <2>1, SumOutIs, TotalNatural DEF Outs
<1> DEFINE Made(i) == [op |-> <<txid[1], txid[2], i>>, v |-> outs[i].v, h |-> h, cb |-> txid[1] = "cb"]
<1>3. \A i : Made(i).v = outs[i].v
  OBVIOUS
<1>4. CoinsOf(txid, outs, h) = {Made(i) : i \in I}
  BY <1>1 DEF CoinsOf, PaysOf
<1> HIDE DEF Made
<1>5. PICK m : m = [i \in I |-> Made(i)]
  OBVIOUS
<1>6. Names(m, I) = {Made(i) : i \in I}
  BY <1>5 DEF Names
<1>7. \A i \in I : m[i].v = w[i]
  BY <1>1, <1>3, <1>5 DEF PaysOf
<1>8. Priced(Names(m, I)) /\ ValueOf(Names(m, I)) <= Total(w, I)
  BY <1>2, <1>7, ValueOfNames
<1> QED
  BY ONLY <1>1, <1>4, <1>6, <1>8

LEMMA BurntValue ==
  ASSUME NEW t, Outs(TxDef[t].outs), NEW h
  PROVE  /\ Priced(Burnt(t, h))
         /\ ValueOf(Burnt(t, h)) <= Total([i \in DOMAIN TxDef[t].outs |-> TxDef[t].outs[i].v], BurnsIn(TxDef[t].outs))
<1>1. PICK outs : outs = TxDef[t].outs
  OBVIOUS
<1>2. PICK w, I : w = [i \in DOMAIN outs |-> outs[i].v] /\ I = BurnsIn(outs)
  OBVIOUS
<1>3. IsFiniteSet(I) /\ Natural(w, I)
  <2>1. I \subseteq DOMAIN outs
    BY <1>2 DEF BurnsIn
  <2> QED
    BY <1>1, <1>2, <2>1, SumOutIs, TotalNatural DEF Outs
<1> DEFINE Made(i) == [op |-> <<"tx", t, i>>, v |-> outs[i].v, h |-> h]
<1>4. \A i : Made(i).v = outs[i].v
  OBVIOUS
<1>5. Burnt(t, h) = {Made(i) : i \in I}
  BY <1>1, <1>2 DEF Burnt, BurnsIn
<1> HIDE DEF Made
<1>6. PICK m : m = [i \in I |-> Made(i)]
  OBVIOUS
<1>7. Names(m, I) = {Made(i) : i \in I}
  BY <1>6 DEF Names
<1>8. \A i \in I : m[i].v = w[i]
  BY <1>2, <1>4, <1>6 DEF BurnsIn
<1>9. Priced(Names(m, I)) /\ ValueOf(Names(m, I)) <= Total(w, I)
  BY <1>3, <1>8, ValueOfNames
<1> QED
  BY ONLY <1>1, <1>2, <1>5, <1>7, <1>9

LEMMA TxOuts ==
  ASSUME NEW t \in TxIds
  PROVE  Outs(TxDef[t].outs)
<1>1. PICK o, K : o = TxDef[t].outs /\ K = [v : Nat, kind : {"pay", "burn", "malformed", "data"}]
  OBVIOUS
<1>2. o \in Seq(K)
  BY <1>1, RulesAssumption
<1>3. DOMAIN o = 1 .. Len(o) /\ Len(o) \in Nat /\ \A i \in DOMAIN o : o[i] \in K
  BY ONLY <1>2
<1>4. IsFiniteSet(1 .. Len(o))
  BY <1>3, FS_Interval
<1>5. \A x \in K : x.v \in Nat
  BY <1>1
<1> QED
  BY ONLY <1>1, <1>3, <1>4, <1>5 DEF Outs

\* A transaction pays and burns no more than its outputs.
LEMMA TxValue ==
  ASSUME NEW t \in TxIds, NEW h
  PROVE  /\ Priced(CoinsOf(<<"tx", t>>, TxDef[t].outs, h)) /\ Priced(Burnt(t, h)) /\ SumOut(TxDef[t].outs) \in Nat
         /\ ValueOf(CoinsOf(<<"tx", t>>, TxDef[t].outs, h)) + ValueOf(Burnt(t, h)) <= SumOut(TxDef[t].outs)
<1>1. PICK outs : outs = TxDef[t].outs
  OBVIOUS
<1>2. Outs(outs) /\ Outs(TxDef[t].outs)
  BY <1>1, TxOuts
<1>3. PICK w, S, P, B : w = [i \in DOMAIN outs |-> outs[i].v] /\ S = DOMAIN outs /\ P = PaysOf(outs) /\ B = BurnsIn(outs)
  OBVIOUS
<1>4. P \subseteq S /\ B \subseteq S /\ P \cap B = {}
  BY <1>3 DEF PaysOf, BurnsIn, Spendable
<1>5. Natural(w, S) /\ IsFiniteSet(S) /\ SumOut(outs) = Total(w, S) /\ SumOut(outs) \in Nat
  BY <1>2, <1>3, SumOutIs DEF Outs
<1>6. Total(w, P) + Total(w, B) <= Total(w, S) /\ Total(w, P) \in Nat /\ Total(w, B) \in Nat
  <2>1. Total(w, P) + Total(w, B) <= Total(w, S)
    BY <1>4, <1>5, TotalParts
  <2>2. Total(w, P) \in Nat /\ Total(w, B) \in Nat
    BY <1>4, <1>5, TotalNatural
  <2> QED
    BY <2>1, <2>2
<1>7. PICK C, D : C = CoinsOf(<<"tx", t>>, outs, h) /\ D = Burnt(t, h)
  OBVIOUS
<1>8. Priced(C) /\ ValueOf(C) <= Total(w, P)
  BY <1>2, <1>3, <1>7, CoinsValue
<1>9. Priced(D) /\ ValueOf(D) <= Total(w, B)
  BY <1>1, <1>2, <1>3, <1>7, BurntValue
<1>10. ValueOf(C) \in Nat /\ ValueOf(D) \in Nat
  BY <1>8, <1>9, ValueOfIs
<1>11. ValueOf(C) + ValueOf(D) <= SumOut(outs)
  BY ONLY <1>5, <1>6, <1>8, <1>9, <1>10
<1> QED
  BY ONLY <1>1, <1>5, <1>7, <1>8, <1>9, <1>11

\* So does a coinbase.
LEMMA CoinbaseIs ==
  ASSUME NEW b, Block(b)
  PROVE  CoinbaseOuts(b) \in Seq([v : Nat, kind : {"pay"}])
<1>1. PICK K, x, y, z : /\ K = [v : Nat, kind : {"pay"}]
                        /\ x = [i \in DOMAIN b.pegs |-> [v |-> b.pegs[i], kind |-> "pay"]]
                        /\ y = (IF b.fee = 0 THEN <<>> ELSE <<[v |-> b.fee, kind |-> "pay"]>>)
                        /\ z = [i \in DOMAIN b.claims |-> [v |-> b.claims[i].v, kind |-> "pay"]]
  OBVIOUS
<1>2. x \in Seq(K)
  <2>1. b.pegs \in Seq(Nat)
    BY DEF Block
  <2>2. DOMAIN b.pegs = 1 .. Len(b.pegs) /\ Len(b.pegs) \in Nat /\ \A i \in DOMAIN b.pegs : b.pegs[i] \in Nat
    BY <2>1
  <2>3. x \in [1 .. Len(b.pegs) -> K]
    BY <1>1, <2>2
  <2> QED
    BY <2>2, <2>3, SeqDef
<1>3. y \in Seq(K)
  <2>1. b.fee \in Nat
    BY DEF Block
  <2>2. [v |-> b.fee, kind |-> "pay"] \in K
    BY <1>1, <2>1
  <2>3. <<>> \in Seq(K) /\ <<[v |-> b.fee, kind |-> "pay"]>> \in Seq(K)
    BY ONLY <2>2
  <2>4. CASE b.fee = 0
    BY <1>1, <2>3, <2>4
  <2>5. CASE b.fee # 0
    BY <1>1, <2>3, <2>5
  <2> QED
    BY ONLY <2>4, <2>5
<1>4. z \in Seq(K)
  <2>1. DOMAIN b.claims = 1 .. Len(b.claims) /\ Len(b.claims) \in Nat /\ \A i \in DOMAIN b.claims : b.claims[i].v \in Nat
    BY DEF Block, Claims
  <2>2. z \in [1 .. Len(b.claims) -> K]
    BY <1>1, <2>1
  <2> QED
    BY <2>1, <2>2, SeqDef
<1>5. CoinbaseOuts(b) = x \o y \o z
  BY <1>1 DEF CoinbaseOuts
<1>6. x \o y \o z \in Seq(K)
  BY <1>2, <1>3, <1>4
<1> QED
  BY ONLY <1>1, <1>5, <1>6

LEMMA CoinbaseValue ==
  ASSUME NEW b, Block(b), NEW h
  PROVE  /\ Priced(CoinsOf(<<"cb", h>>, CoinbaseOuts(b), h)) /\ SumOut(CoinbaseOuts(b)) \in Nat
         /\ ValueOf(CoinsOf(<<"cb", h>>, CoinbaseOuts(b), h)) <= SumOut(CoinbaseOuts(b))
<1>1. PICK o, K : o = CoinbaseOuts(b) /\ K = [v : Nat, kind : {"pay"}]
  OBVIOUS
<1>2. o \in Seq(K)
  BY <1>1, CoinbaseIs
<1>3. DOMAIN o = 1 .. Len(o) /\ Len(o) \in Nat /\ \A i \in DOMAIN o : o[i] \in K
  BY ONLY <1>2
<1>4. IsFiniteSet(1 .. Len(o))
  BY <1>3, FS_Interval
<1>5. \A x \in K : x.v \in Nat
  BY <1>1
<1>6. Outs(o)
  BY ONLY <1>3, <1>4, <1>5 DEF Outs
<1>7. PICK w, S, P, C : w = [i \in DOMAIN o |-> o[i].v] /\ S = DOMAIN o /\ P = PaysOf(o) /\ C = CoinsOf(<<"cb", h>>, o, h)
  OBVIOUS
<1>8. Natural(w, S) /\ IsFiniteSet(S) /\ SumOut(o) = Total(w, S) /\ SumOut(o) \in Nat
  BY <1>6, <1>7, SumOutIs DEF Outs
<1>9. Priced(C) /\ ValueOf(C) <= Total(w, P)
  BY <1>6, <1>7, CoinsValue
<1>10. P \subseteq S
  BY <1>7 DEF PaysOf
<1>11. Total(w, P) <= Total(w, S) /\ Total(w, P) \in Nat
  BY <1>8, <1>10, TotalPart, TotalNatural
<1>12. ValueOf(C) \in Nat
  BY <1>9, ValueOfIs
<1>13. ValueOf(C) <= SumOut(o)
  BY ONLY <1>8, <1>9, <1>11, <1>12
<1> QED
  BY ONLY <1>1, <1>7, <1>8, <1>9, <1>13

-----------------------------------------------------------------------------
(* One transaction resolved and applied. *)

\* The coins that are still to be spent are there.
Reach(s, acc, u) == \A c \in Insert(s.utxo, acc.created) : c.op \notin acc.spent => c \in u
Taken(s, acc, t) == UNION {CoinAt(Insert(s.utxo, acc.created), op) : op \in TxDef[t].ins \ acc.spent}
Lost(s, acc, t) == {op \in TxDef[t].ins : op \in acc.spent \/ CoinAt(Taken(s, acc, t), op) = {}}
Paid(s, acc, t) ==
    IF Lost(s, acc, t) = {} /\ ValueOf(Taken(s, acc, t)) >= SumOut(TxDef[t].outs)
    THEN ValueOf(Taken(s, acc, t)) - SumOut(TxDef[t].outs) ELSE 0
Sane(acc) == acc.missing = {} /\ ~acc.deficit

LEMMA ResolveIsStep ==
  ASSUME NEW s, NEW h, NEW acc, NEW t
  PROVE  /\ ResolveTx(s, h, acc, t).spent = acc.spent \cup TxDef[t].ins
         /\ ResolveTx(s, h, acc, t).created = Insert(acc.created, CoinsOf(<<"tx", t>>, TxDef[t].outs, h))
         /\ ResolveTx(s, h, acc, t).fees = acc.fees + Paid(s, acc, t)
         /\ ResolveTx(s, h, acc, t).missing = acc.missing \cup Lost(s, acc, t)
  BY DEF ResolveTx, Taken, Lost, Paid

LEMMA ResolveDeficit ==
  ASSUME NEW s, NEW h, NEW acc, NEW t, ~ResolveTx(s, h, acc, t).deficit
  PROVE  ~acc.deficit /\ ~(Lost(s, acc, t) = {} /\ ValueOf(Taken(s, acc, t)) < SumOut(TxDef[t].outs))
<1>1. ResolveTx(s, h, acc, t).deficit =
        (acc.deficit \/ (Lost(s, acc, t) = {} /\ ValueOf(Taken(s, acc, t)) < SumOut(TxDef[t].outs)))
  BY Zenon DEF ResolveTx, Taken, Lost
<1> QED
  BY <1>1, Zenon

LEMMA TakenHeld ==
  ASSUME NEW s, NEW acc, NEW t, NEW u, Reach(s, acc, u)
  PROVE  Taken(s, acc, t) \subseteq {c \in u : c.op \in TxDef[t].ins}
  BY DEF Taken, CoinAt, Reach

Unspent(u, ins) == {c \in u : c.op \notin ins}

LEMMA ReachOn ==
  ASSUME NEW s, NEW acc, NEW u, Reach(s, acc, u), NEW minted, NEW ins, NEW r,
         r.created = Insert(acc.created, minted), r.spent = acc.spent \cup ins
  PROVE  Reach(s, r, Insert(Unspent(u, ins), minted))
<1>1. PICK U : U = s.utxo
  OBVIOUS
<1>2. SUFFICES ASSUME NEW c \in Insert(U, Insert(acc.created, minted)), c.op \notin acc.spent, c.op \notin ins
               PROVE  c \in Insert({d \in u : d.op \notin ins}, minted)
  BY <1>1 DEF Reach, Unspent
<1>3. \A d \in Insert(U, acc.created) : d.op \notin acc.spent => d \in u
  BY <1>1 DEF Reach
<1>4. CASE c \in minted
  BY <1>4 DEF Insert
<1>5. CASE c \notin minted
  <2>1. \A d \in minted : d.op # c.op
    BY <1>2, <1>5 DEF Insert
  <2>2. c \in Insert(U, acc.created)
    <3>1. CASE c \in acc.created
      BY <3>1 DEF Insert
    <3>2. CASE c \notin acc.created
      <4>1. c \in U /\ \A d \in Insert(acc.created, minted) : d.op # c.op
        BY <1>2, <1>5, <3>2 DEF Insert
      <4>2. ASSUME NEW d \in acc.created, d.op = c.op PROVE FALSE
        <5>1. d \in Insert(acc.created, minted)
          BY <2>1, <4>2 DEF Insert
        <5> QED
          BY <4>1, <4>2, <5>1
      <4> QED
        BY <4>1, <4>2 DEF Insert
    <3> QED
      BY <3>1, <3>2
  <2>3. c \in u
    BY <1>2, <1>3, <2>2
  <2> QED
    BY <1>2, <2>1, <2>3 DEF Insert
<1> QED
  BY <1>4, <1>5

\* A coin that takes another's place adds no more than it is worth.
LEMMA InsertValue ==
  ASSUME NEW u, NEW minted, Priced(u), Priced(minted)
  PROVE  /\ Priced(Insert(u, minted)) /\ ValueOf(Insert(u, minted)) <= ValueOf(u) + ValueOf(minted)
         /\ ValueOf(u) \in Nat /\ ValueOf(minted) \in Nat /\ ValueOf(Insert(u, minted)) \in Nat
<1>1. PICK R : R = {c \in u : \A d \in minted : d.op # c.op}
  OBVIOUS
<1>2. R \subseteq u /\ Insert(u, minted) = R \cup minted
  BY <1>1 DEF Insert
<1>3. Priced(R) /\ ValueOf(R) <= ValueOf(u) /\ ValueOf(R) \in Nat /\ ValueOf(u) \in Nat
  BY <1>2, ValueOfSplit
<1>4. Priced(R \cup minted) /\ ValueOf(R \cup minted) <= ValueOf(R) + ValueOf(minted) /\ ValueOf(minted) \in Nat
      /\ ValueOf(R \cup minted) \in Nat
  BY <1>3, ValueOfUnion
<1>5. ValueOf(R \cup minted) <= ValueOf(u) + ValueOf(minted)
  BY ONLY <1>3, <1>4
<1> QED
  BY ONLY <1>2, <1>3, <1>4, <1>5

Carried(s, h, t, acc, u, r, w) ==
    /\ Priced(w) /\ Reach(s, r, w) /\ r.fees \in Nat
    /\ Sane(r) => /\ Sane(acc)
                  /\ ValueOf(w) + ValueOf(Burnt(t, h)) + r.fees <= ValueOf(u) + acc.fees

LEMMA TxCarried ==
  ASSUME NEW s, NEW h, NEW acc, NEW t \in TxIds, NEW u, Priced(u), Reach(s, acc, u), acc.fees \in Nat
  PROVE  Carried(s, h, t, acc, u, ResolveTx(s, h, acc, t), ApplyTx(h, u, t))
<1>1. PICK r, w, ins, minted, burnt, out :
        /\ r = ResolveTx(s, h, acc, t) /\ w = ApplyTx(h, u, t) /\ ins = TxDef[t].ins
        /\ minted = CoinsOf(<<"tx", t>>, TxDef[t].outs, h) /\ burnt = Burnt(t, h) /\ out = SumOut(TxDef[t].outs)
  OBVIOUS
<1>2. PICK S, R, taken, lost : /\ S = {c \in u : c.op \in ins} /\ R = {c \in u : c.op \notin ins}
                               /\ taken = Taken(s, acc, t) /\ lost = Lost(s, acc, t)
  OBVIOUS
<1>3. /\ r.spent = acc.spent \cup ins /\ r.created = Insert(acc.created, minted)
      /\ r.fees = acc.fees + Paid(s, acc, t) /\ r.missing = acc.missing \cup lost
  BY <1>1, <1>2, ResolveIsStep
<1>4. w = Insert(R, minted)
  BY <1>1, <1>2 DEF ApplyTx
<1>5. Reach(s, r, w)
  <2>1. r.created = Insert(acc.created, minted) /\ r.spent = acc.spent \cup ins /\ R = Unspent(u, ins)
    BY ONLY <1>2, <1>3 DEF Unspent
  <2>2. Reach(s, r, Insert(Unspent(u, ins), minted))
    BY ONLY <2>1, Reach(s, acc, u), ReachOn
  <2> QED
    BY ONLY <1>4, <2>1, <2>2
<1>6. Priced(minted) /\ Priced(burnt) /\ out \in Nat /\ ValueOf(minted) + ValueOf(burnt) <= out
  BY <1>1, TxValue
<1>7. S \subseteq u /\ R = u \ S
  BY <1>2
<1>8. Priced(S) /\ Priced(R) /\ ValueOf(u) = ValueOf(S) + ValueOf(R) /\ ValueOf(S) \in Nat /\ ValueOf(R) \in Nat
      /\ ValueOf(u) \in Nat
  BY <1>7, ValueOfSplit
<1>9. taken \subseteq S
  BY <1>1, <1>2, TakenHeld
<1>10. ValueOf(taken) <= ValueOf(S) /\ ValueOf(taken) \in Nat
  BY <1>8, <1>9, ValueOfSplit
<1>11. /\ Priced(w) /\ ValueOf(w) <= ValueOf(R) + ValueOf(minted) /\ ValueOf(w) \in Nat /\ ValueOf(minted) \in Nat
       /\ ValueOf(burnt) \in Nat
  BY <1>4, <1>6, <1>8, InsertValue, ValueOfIs
<1>12. /\ Paid(s, acc, t) = IF lost = {} /\ ValueOf(taken) >= out THEN ValueOf(taken) - out ELSE 0
       /\ r.fees \in Nat
  <2>1. Paid(s, acc, t) = IF lost = {} /\ ValueOf(taken) >= out THEN ValueOf(taken) - out ELSE 0
    BY <1>1, <1>2 DEF Paid
  <2>2. Paid(s, acc, t) \in Nat
    BY ONLY <1>6, <1>10, <2>1
  <2> QED
    BY ONLY <1>3, <2>1, <2>2, acc.fees \in Nat
<1>13. ASSUME Sane(r)
       PROVE  Sane(acc) /\ ValueOf(w) + ValueOf(burnt) + r.fees <= ValueOf(u) + acc.fees
  <2>1. ~acc.deficit /\ ~(lost = {} /\ ValueOf(taken) < out)
    <3>1. ~ResolveTx(s, h, acc, t).deficit
      BY <1>1, <1>13 DEF Sane
    <3>2. ~acc.deficit /\ ~(Lost(s, acc, t) = {} /\ ValueOf(Taken(s, acc, t)) < SumOut(TxDef[t].outs))
      BY <3>1, ResolveDeficit
    <3> QED
      BY <1>1, <1>2, <3>2
  <2>2. acc.missing = {} /\ lost = {}
    BY <1>3, <1>13 DEF Sane
  <2>3. ValueOf(taken) >= out /\ Paid(s, acc, t) = ValueOf(taken) - out
    BY ONLY <1>6, <1>10, <1>12, <2>1, <2>2
  <2>4. ValueOf(w) + ValueOf(burnt) + r.fees <= ValueOf(u) + acc.fees
    BY ONLY <1>3, <1>6, <1>8, <1>10, <1>11, <2>3, acc.fees \in Nat
  <2> QED
    BY <2>1, <2>2, <2>4 DEF Sane
<1> QED
  BY <1>1, <1>5, <1>11, <1>12, <1>13 DEF Carried

-----------------------------------------------------------------------------
(* A block resolved and applied. *)

Minted(b) == CoinsOf(<<"cb", b.h>>, CoinbaseOuts(b), b.h)
Fresh(b) == [spent |-> {}, created |-> Minted(b), fees |-> 0, missing |-> {}, deficit |-> FALSE,
             premature |-> FALSE, seqlock |-> FALSE]
Resolved(s, b) == FoldOf("resolve", <<s, b.h>>, Fresh(b), b.txs)
CoinsAfter(s, b) == FoldOf("apply", b.h, Insert(s.utxo, Minted(b)), b.txs)
BurntUpTo(b, k) == UNION {Burnt(b.txs[i], b.h) : i \in 1 .. k}

Level(s, b, base, v, u, k) ==
    /\ Priced(u[k]) /\ Reach(s, v[k], u[k]) /\ v[k].fees \in Nat /\ Priced(BurntUpTo(b, k))
    /\ Sane(v[k]) => ValueOf(u[k]) + ValueOf(BurntUpTo(b, k)) + v[k].fees <= ValueOf(base)

LEMMA LevelStart ==
  ASSUME NEW s, NEW b, NEW base, base = Insert(s.utxo, Minted(b)), Priced(base), NEW v, NEW u, v[0] = Fresh(b), u[0] = base
  PROVE  Level(s, b, base, v, u, 0)
<1>1. BurntUpTo(b, 0) = {}
  BY DEF BurntUpTo
<1>2. Priced(BurntUpTo(b, 0)) /\ ValueOf(BurntUpTo(b, 0)) = 0
  BY <1>1, ValueOfNone
<1>3. v[0].created = Minted(b) /\ v[0].spent = {} /\ v[0].fees = 0
  BY DEF Fresh
<1>4. Reach(s, v[0], u[0])
  BY <1>3 DEF Reach
<1>5. ValueOf(base) \in Nat
  BY ValueOfIs
<1>6. ValueOf(u[0]) + ValueOf(BurntUpTo(b, 0)) + v[0].fees <= ValueOf(base)
  BY ONLY <1>2, <1>3, <1>5, u[0] = base
<1> QED
  BY <1>2, <1>3, <1>4, <1>6 DEF Level

LEMMA LevelOn ==
  ASSUME NEW s, NEW b, NEW base, Priced(base), NEW v, NEW u, NEW k \in Nat \ {0}, NEW t \in TxIds, t = b.txs[k],
         Level(s, b, base, v, u, k - 1), v[k] = ResolveTx(s, b.h, v[k - 1], t), u[k] = ApplyTx(b.h, u[k - 1], t)
  PROVE  Level(s, b, base, v, u, k)
<1>1. PICK acc, r, x, y, B, D, E : /\ acc = v[k - 1] /\ r = v[k] /\ x = u[k - 1] /\ y = u[k]
                                   /\ B = BurntUpTo(b, k - 1) /\ D = Burnt(t, b.h) /\ E = BurntUpTo(b, k)
  OBVIOUS
<1>2. /\ Priced(x) /\ Reach(s, acc, x) /\ acc.fees \in Nat /\ Priced(B)
      /\ Sane(acc) => ValueOf(x) + ValueOf(B) + acc.fees <= ValueOf(base)
  BY <1>1 DEF Level
<1>3. Carried(s, b.h, t, acc, x, r, y)
  BY <1>1, <1>2, TxCarried
<1>4. E = B \cup D
  <2>1. 1 .. k = (1 .. k - 1) \cup {k}
    OBVIOUS
  <2> QED
    BY <1>1, <2>1 DEF BurntUpTo
<1>5. Priced(D)
  BY <1>1, TxValue
<1>6. Priced(E) /\ ValueOf(E) <= ValueOf(B) + ValueOf(D) /\ ValueOf(B) \in Nat /\ ValueOf(D) \in Nat /\ ValueOf(E) \in Nat
  BY <1>2, <1>4, <1>5, ValueOfUnion
<1>7. Priced(y) /\ Reach(s, r, y) /\ r.fees \in Nat
  BY <1>3 DEF Carried
<1>8. ValueOf(x) \in Nat /\ ValueOf(y) \in Nat /\ ValueOf(base) \in Nat
  BY <1>2, <1>7, ValueOfIs
<1>9. ASSUME Sane(r) PROVE ValueOf(y) + ValueOf(E) + r.fees <= ValueOf(base)
  <2>1. Sane(acc) /\ ValueOf(y) + ValueOf(D) + r.fees <= ValueOf(x) + acc.fees
    BY <1>1, <1>3, <1>9 DEF Carried
  <2>2. ValueOf(x) + ValueOf(B) + acc.fees <= ValueOf(base)
    BY <1>2, <2>1
  <2> QED
    BY ONLY <1>2, <1>6, <1>7, <1>8, <2>1, <2>2
<1> QED
  BY ONLY <1>1, <1>6, <1>7, <1>9 DEF Level

LEMMA BlockLevel ==
  ASSUME NEW s, NEW b, Block(b), Priced(s.utxo)
  PROVE  /\ Priced(CoinsAfter(s, b)) /\ Resolved(s, b).fees \in Nat /\ Priced(BurnsOf(b))
         /\ Sane(Resolved(s, b)) =>
              ValueOf(CoinsAfter(s, b)) + ValueOf(BurnsOf(b)) + Resolved(s, b).fees <= ValueOf(s.utxo) + SumOut(CoinbaseOuts(b))
<1>1. PICK base, n, q : base = Insert(s.utxo, Minted(b)) /\ q = b.txs /\ n = Len(q)
  OBVIOUS
<1>2. q \in Seq(TxIds)
  BY <1>1 DEF Block
<1>3. DOMAIN q = 1 .. n /\ n \in Nat /\ \A i \in 1 .. n : q[i] \in TxIds
  BY <1>1, <1>2
<1>4. Priced(Minted(b)) /\ SumOut(CoinbaseOuts(b)) \in Nat /\ ValueOf(Minted(b)) <= SumOut(CoinbaseOuts(b))
  BY CoinbaseValue DEF Minted
<1>5. /\ Priced(base) /\ ValueOf(base) <= ValueOf(s.utxo) + ValueOf(Minted(b)) /\ ValueOf(base) \in Nat
      /\ ValueOf(s.utxo) \in Nat /\ ValueOf(Minted(b)) \in Nat
  BY <1>1, <1>4, InsertValue
<1>6. PICK v : Runs("resolve", <<s, b.h>>, Fresh(b), q, n, v) /\ Resolved(s, b) = v[n]
  BY <1>1, <1>3, FoldRuns DEF Resolved
<1>7. PICK u : Runs("apply", b.h, base, q, n, u) /\ CoinsAfter(s, b) = u[n]
  BY <1>1, <1>3, FoldRuns DEF CoinsAfter
<1>8. v[0] = Fresh(b) /\ u[0] = base
  BY <1>6, <1>7 DEF Runs
<1>9. \A k \in 1 .. n : v[k] = ResolveTx(s, b.h, v[k - 1], q[k])
  <2>1. \A k \in 1 .. n : v[k] = Step("resolve", <<s, b.h>>, v[k - 1], q[k])
    BY <1>6 DEF Runs
  <2>2. \A a, x : Step("resolve", <<s, b.h>>, a, x) = ResolveTx(s, b.h, a, x)
    BY DEF Step
  <2> QED
    BY <2>1, <2>2
<1>10. \A k \in 1 .. n : u[k] = ApplyTx(b.h, u[k - 1], q[k])
  <2>1. \A k \in 1 .. n : u[k] = Step("apply", b.h, u[k - 1], q[k])
    BY <1>7 DEF Runs
  <2>2. \A a, x : Step("apply", b.h, a, x) = ApplyTx(b.h, a, x)
    BY DEF Step
  <2> QED
    BY <2>1, <2>2
<1> DEFINE T == {k \in 0 .. n : ~Level(s, b, base, v, u, k)}
<1>11. ASSUME T # {} PROVE FALSE
  <2>1. T \subseteq Nat
    BY <1>3
  <2>2. PICK k \in T : \A y \in T : ~(y < k)
    <3> HIDE DEF T
    <3> QED
      BY <1>11, <2>1, LeastNat
  <2>3. k \in 0 .. n /\ ~Level(s, b, base, v, u, k)
    BY <2>2
  <2>4. k # 0
    BY <1>1, <1>5, <1>8, <2>3, LevelStart
  <2>5. k \in Nat \ {0} /\ k \in 1 .. n /\ k - 1 \in 0 .. n /\ k - 1 < k
    BY <1>3, <2>3, <2>4
  <2>6. Level(s, b, base, v, u, k - 1)
    BY <2>2, <2>5
  <2> HIDE DEF T
  <2>7. PICK t \in TxIds : t = b.txs[k] /\ t = q[k]
    BY <1>1, <1>3, <2>5
  <2>8. v[k] = ResolveTx(s, b.h, v[k - 1], t) /\ u[k] = ApplyTx(b.h, u[k - 1], t)
    BY <1>9, <1>10, <2>5, <2>7
  <2>9. Level(s, b, base, v, u, k)
    BY <1>5, <2>5, <2>6, <2>7, <2>8, LevelOn
  <2> QED
    BY <2>3, <2>9
<1>12. Level(s, b, base, v, u, n)
  <2>1. n \notin T /\ n \in 0 .. n
    BY <1>3, <1>11
  <2> QED
    BY <2>1
<1> HIDE DEF T
<1>13. BurntUpTo(b, n) = BurnsOf(b)
  BY <1>1, <1>3 DEF BurntUpTo, BurnsOf
<1>14. Priced(u[n]) /\ v[n].fees \in Nat /\ Priced(BurnsOf(b))
  BY <1>12, <1>13 DEF Level
<1>15. ASSUME Sane(v[n])
       PROVE  ValueOf(u[n]) + ValueOf(BurnsOf(b)) + v[n].fees <= ValueOf(s.utxo) + SumOut(CoinbaseOuts(b))
  <2>1. ValueOf(u[n]) + ValueOf(BurnsOf(b)) + v[n].fees <= ValueOf(base)
    BY <1>12, <1>13, <1>15 DEF Level
  <2>2. ValueOf(u[n]) \in Nat /\ ValueOf(BurnsOf(b)) \in Nat
    BY <1>14, ValueOfIs
  <2> QED
    BY ONLY <1>4, <1>5, <1>14, <2>1, <2>2
<1> QED
  BY ONLY <1>6, <1>7, <1>14, <1>15

\* Both as the rules have them.
LEMMA ResolvedIs ==
  ASSUME NEW s, NEW b
  PROVE  ResolveSpending(s, b) = Resolved(s, b)
  BY ResolveFold DEF ResolveSpending, Resolved, Fresh, Minted

PoolLeft(s, b) == Only(s.mempool, {t \in TxIds : TxDef[t].ins \subseteq {c.op : c \in CoinsAfter(s, b)}})
ClaimsIn(b) == {[op |-> b.claims[i].op, v |-> b.claims[i].v, h |-> b.h] : i \in DOMAIN b.claims}

LEMMA AppliedIs ==
  ASSUME NEW s, NEW b
  PROVE  Applied(s, b) = [s EXCEPT !.chain = Append(@, b), !.utxo = CoinsAfter(s, b), !.claims = @ \cup ClaimsIn(b),
                                   !.pegouts = @ \cup BurnsOf(b), !.mempool = PoolLeft(s, b),
                                   !.spent = SpentBy(PoolLeft(s, b))]
<1>1. FoldLeft(LAMBDA u, t : ApplyTx(b.h, u, t),
               Insert(s.utxo, CoinsOf(<<"cb", b.h>>, CoinbaseOuts(b), b.h)), b.txs) = CoinsAfter(s, b)
  BY ApplyFold DEF CoinsAfter, Minted
<1> QED
  BY <1>1 DEF Applied, PoolLeft, ClaimsIn

-----------------------------------------------------------------------------
(* What a valid block leaves is backed. *)

StateShape(s) == DOMAIN s = {"chain", "utxo", "claims", "pegouts", "mempool", "spent", "rejected"}

LEMMA AppliedParts ==
  ASSUME NEW s, NEW b, StateShape(s)
  PROVE  /\ StateShape(Applied(s, b)) /\ Applied(s, b).chain = Append(s.chain, b) /\ Applied(s, b).utxo = CoinsAfter(s, b)
         /\ Applied(s, b).claims = s.claims \cup ClaimsIn(b) /\ Applied(s, b).pegouts = s.pegouts \cup BurnsOf(b)
         /\ Applied(s, b).mempool = PoolLeft(s, b) /\ Applied(s, b).spent = SpentBy(PoolLeft(s, b))
         /\ Applied(s, b).rejected = s.rejected
<1>1. PICK a, u, c, p, m, z : /\ a = Append(s.chain, b) /\ u = CoinsAfter(s, b) /\ c = s.claims \cup ClaimsIn(b)
                              /\ p = s.pegouts \cup BurnsOf(b) /\ m = PoolLeft(s, b) /\ z = SpentBy(PoolLeft(s, b))
  OBVIOUS
<1>2. PICK r : r = Applied(s, b)
  OBVIOUS
<1>3. r = [s EXCEPT !.chain = a, !.utxo = u, !.claims = c, !.pegouts = p, !.mempool = m, !.spent = z]
  BY <1>1, <1>2, AppliedIs
<1>4. /\ r.chain = a /\ r.utxo = u /\ r.claims = c /\ r.pegouts = p /\ r.mempool = m /\ r.spent = z
      /\ r.rejected = s.rejected /\ DOMAIN r = DOMAIN s
  BY ONLY <1>3, StateShape(s) DEF StateShape
<1> QED
  BY ONLY <1>1, <1>2, <1>4, StateShape(s) DEF StateShape

\* The records of claims: one for each outpoint, below the height n.
Recorded(C, n) ==
    /\ Priced(C)
    /\ \A r \in C : r.h \in Nat /\ r.h < n
    /\ \A r, q \in C : r.op = q.op => r = q

PaidFor(C) == [op \in {r.op : r \in C} |-> Max({r.v : r \in {q \in C : q.op = op}})]

LEMMA ClaimedIs ==
  ASSUME NEW C, NEW n, Recorded(C, n)
  PROVE  SumFunction(PaidFor(C)) = ValueOf(C)
<1>1. PICK f, h, w : f = PaidFor(C) /\ h = [r \in C |-> r.op] /\ w = [r \in C |-> r.v]
  OBVIOUS
<1>2. IsFiniteSet(C) /\ \A r \in C : r.v \in Nat
  BY DEF Recorded, Priced
<1>3. Natural(w, C)
  BY <1>1, <1>2 DEF Natural
<1>4. OneToOne(h, C)
  BY <1>1 DEF OneToOne, Recorded
<1>5. ASSUME NEW r \in C PROVE f[r.op] = r.v
  <2>1. {q \in C : q.op = r.op} = {r}
    BY DEF Recorded
  <2>2. f[r.op] = Max({q.v : q \in {q \in C : q.op = r.op}})
    BY <1>1 DEF PaidFor
  <2>3. {q.v : q \in {r}} = {r.v}
    OBVIOUS
  <2>4. Max({r.v}) = r.v
    <3>1. PICK x : x = r.v /\ x \in Nat
      BY <1>2
    <3>2. x >= x
      BY <3>1
    <3>3. Max({x}) \in {x}
      BY <3>2 DEF Max
    <3> QED
      BY <3>1, <3>3
  <2> QED
    BY ONLY <2>1, <2>2, <2>3, <2>4
<1>6. \A r \in C : f[h[r]] = w[r]
  BY <1>1, <1>5
<1>7. Total(f, Names(h, C)) = Total(w, C)
  BY <1>2, <1>3, <1>4, <1>6, TotalNames
<1>8. Names(h, C) = DOMAIN f
  BY <1>1 DEF Names, PaidFor
<1>9. SumFunction(f) = Total(f, DOMAIN f)
  BY DEF SumFunction, Total
<1>10. ValueOf(C) = Total(w, C)
  BY <1>1 DEF ValueOf, SumFunction, Total
<1> QED
  BY ONLY <1>1, <1>7, <1>8, <1>9, <1>10

\* What the claims of a block pay.
ClaimSum(b) == SumFunction([i \in DOMAIN b.claims |-> b.claims[i].v])

LEMMA ClaimsValue ==
  ASSUME NEW s, NEW b, Block(b), Recorded(s.claims, b.h), ClaimsOk(s, b)
  PROVE  /\ Recorded(s.claims \cup ClaimsIn(b), b.h + 1) /\ ClaimSum(b) \in Nat /\ ValueOf(s.claims) \in Nat
         /\ ValueOf(s.claims \cup ClaimsIn(b)) = ValueOf(s.claims) + ClaimSum(b)
<1>1. PICK I, w, N, C, S, h : /\ I = DOMAIN b.claims /\ w = [i \in DOMAIN b.claims |-> b.claims[i].v] /\ N = ClaimsIn(b)
                           /\ C = s.claims /\ S = s.claims \cup ClaimsIn(b) /\ h = b.h
  OBVIOUS
<1>2. IsFiniteSet(I) /\ Natural(w, I) /\ h \in Nat /\ \A i \in I : b.claims[i].v \in Nat
  <2>1. Claims(b.claims) /\ b.h \in Nat
    BY DEF Block
  <2>2. I = 1 .. Len(b.claims) /\ Len(b.claims) \in Nat /\ \A i \in I : b.claims[i].v \in Nat
    BY <1>1, <2>1 DEF Claims
  <2>3. IsFiniteSet(I)
    BY ONLY <2>2, FS_Interval
  <2>4. Natural(w, I)
    BY ONLY <1>1, <2>2 DEF Natural
  <2> QED
    BY ONLY <1>1, <2>1, <2>2, <2>3, <2>4
<1>3. PICK m : m = [i \in I |-> [op |-> b.claims[i].op, v |-> b.claims[i].v, h |-> h]]
  OBVIOUS
<1>4. N = Names(m, I)
  BY <1>1, <1>3 DEF ClaimsIn, Names
<1>5. \A i \in I : m[i].v = w[i] /\ m[i].op = b.claims[i].op /\ m[i].h = h
  BY <1>1, <1>3
<1>6. \A i, j \in I : i # j => b.claims[i].op # b.claims[j].op
  BY <1>1 DEF ClaimsOk
<1>7. OneToOne(m, I)
  BY <1>5, <1>6 DEF OneToOne
<1>8. Priced(N)
  BY <1>2, <1>4, <1>5, ValueOfNames
<1>9. PICK f : f = [c \in N |-> c.v]
  OBVIOUS
<1>10. \A i \in I : f[m[i]] = w[i]
  BY <1>4, <1>5, <1>9 DEF Names
<1>11. Total(f, Names(m, I)) = Total(w, I)
  BY <1>2, <1>7, <1>10, TotalNames
<1>12. ValueOf(N) = Total(f, N)
  BY <1>9 DEF ValueOf, SumFunction, Total
<1>13. ClaimSum(b) = Total(w, I)
  BY <1>1 DEF ClaimSum, SumFunction, Total
<1>14. ValueOf(N) = ClaimSum(b)
  BY ONLY <1>4, <1>11, <1>12, <1>13
<1>15. Priced(C) /\ (\A r \in C : r.h \in Nat /\ r.h < h) /\ (\A r, q \in C : r.op = q.op => r = q)
  BY <1>1 DEF Recorded
<1>16. \A r \in N : \E i \in I : r = m[i]
  BY <1>4 DEF Names
<1>17. \A r \in N : r.h = h
  BY <1>5, <1>16
<1>18. \A r, q \in N : r.op = q.op => r = q
  <2>1. SUFFICES ASSUME NEW r \in N, NEW q \in N, r.op = q.op PROVE r = q
    OBVIOUS
  <2>2. PICK i \in I, j \in I : r = m[i] /\ q = m[j]
    BY <1>16
  <2> QED
    BY <1>5, <1>6, <2>1, <2>2
<1>19. \A r \in C, q \in N : r.op # q.op
  <2>1. SUFFICES ASSUME NEW r \in C, NEW q \in N, r.op = q.op PROVE FALSE
    OBVIOUS
  <2>2. PICK i \in I : q = m[i]
    BY <1>16
  <2>3. r.op = b.claims[i].op
    BY <1>5, <2>1, <2>2
  <2>4. r.h = h
    BY <1>1, <2>3 DEF ClaimsOk
  <2> QED
    BY <1>2, <1>15, <2>4
<1>20. Priced(S) /\ S = C \cup N /\ C \subseteq S
  BY <1>1, <1>8, <1>15, ValueOfUnion
<1>21. S \ C = N
  BY <1>19, <1>20
<1>22. /\ ValueOf(S) = ValueOf(C) + ValueOf(N) /\ ValueOf(C) \in Nat /\ ValueOf(N) \in Nat
  BY <1>20, <1>21, ValueOfSplit
<1>23. Recorded(S, h + 1)
  <2>1. \A r \in S : r.h \in Nat /\ r.h < h + 1
    BY <1>2, <1>15, <1>17, <1>20
  <2>2. \A r, q \in S : r.op = q.op => r = q
    BY <1>15, <1>18, <1>19, <1>20
  <2> QED
    BY <1>20, <2>1, <2>2 DEF Recorded
<1> QED
  BY ONLY <1>1, <1>14, <1>22, <1>23

Backing(n) == IF n = 0 THEN 0 ELSE SumFunction(Pegs)
Supplied(s) ==
    /\ Priced(s.utxo) /\ Priced(s.pegouts) /\ Recorded(s.claims, Len(s.chain))
    /\ ValueOf(s.utxo) + ValueOf(s.pegouts) <= Backing(Len(s.chain)) + ValueOf(s.claims)

\* What the judgement of a block says of amounts, and that it has no transaction twice.
BlockBalanced(s, b) ==
    /\ Sane(ResolveSpending(s, b)) /\ ClaimsOk(s, b) /\ IsInjective(b.txs)
    /\ SumOut(CoinbaseOuts(b)) <= (IF b.h = 0 THEN SumFunction(Pegs) ELSE 0) + ResolveSpending(s, b).fees + ClaimSum(b)

LEMMA JudgeBalances ==
  ASSUME NEW s, NEW b, Judge(s, b)
  PROVE  BlockBalanced(s, b)
  BY DEF Judge, ContextOk, BlockBalanced, Sane, ClaimSum, StructureOk

LEMMA PegsNatural == SumFunction(Pegs) \in Nat
<1>1. Pegs \in Seq(Nat)
  BY RulesAssumption
<1>2. DOMAIN Pegs = 1 .. Len(Pegs) /\ Len(Pegs) \in Nat /\ \A i \in DOMAIN Pegs : Pegs[i] \in Nat
  BY <1>1
<1>3. IsFiniteSet(DOMAIN Pegs) /\ Natural(Pegs, DOMAIN Pegs)
  BY <1>2, FS_Interval DEF Natural
<1>4. Total(Pegs, DOMAIN Pegs) \in Nat
  BY <1>3, TotalNatural
<1> QED
  BY <1>4 DEF SumFunction, Total

\* A chain is a sequence of something.
Listed(q) == \E S : q \in Seq(S)

LEMMA ListedIs ==
  ASSUME NEW q, Listed(q)
  PROVE  Len(q) \in Nat /\ DOMAIN q = 1 .. Len(q)
  BY DEF Listed

LEMMA ListedAppend ==
  ASSUME NEW q, Listed(q), NEW x
  PROVE  /\ Listed(Append(q, x)) /\ Len(Append(q, x)) = Len(q) + 1 /\ Append(q, x)[Len(q) + 1] = x
         /\ \A i \in 1 .. Len(q) : Append(q, x)[i] = q[i]
<1>1. PICK S : q \in Seq(S)
  BY DEF Listed
<1>2. PICK R : R = S \cup {x}
  OBVIOUS
<1>3. q \in Seq(R) /\ x \in R
  <2>1. S \subseteq R
    BY <1>2
  <2>2. q \in Seq(R)
    BY <1>1, <2>1
  <2> QED
    BY <1>2, <2>2
<1>4. /\ Append(q, x) \in Seq(R) /\ Len(Append(q, x)) = Len(q) + 1 /\ Append(q, x)[Len(q) + 1] = x
      /\ \A i \in 1 .. Len(q) : Append(q, x)[i] = q[i]
  BY ONLY <1>3, AppendProperties
<1> QED
  BY <1>4 DEF Listed

LEMMA AppliedSupplied ==
  ASSUME NEW s, NEW b, StateShape(s), Listed(s.chain), Supplied(s), Block(b), b.h = Len(s.chain), BlockBalanced(s, b)
  PROVE  Supplied(Applied(s, b))
<1>1. PICK a, n, sp : a = Applied(s, b) /\ n = Len(s.chain) /\ sp = Resolved(s, b)
  OBVIOUS
<1>2. n \in Nat /\ Len(a.chain) = n + 1 /\ b.h = n
  <2>1. a.chain = Append(s.chain, b)
    BY <1>1, AppliedParts
  <2> QED
    BY <1>1, <2>1, ListedIs, ListedAppend
<1>3. a.utxo = CoinsAfter(s, b) /\ a.claims = s.claims \cup ClaimsIn(b) /\ a.pegouts = s.pegouts \cup BurnsOf(b)
  BY <1>1, AppliedParts
<1>4. /\ Priced(s.utxo) /\ Priced(s.pegouts) /\ Recorded(s.claims, n)
      /\ ValueOf(s.utxo) + ValueOf(s.pegouts) <= Backing(n) + ValueOf(s.claims)
  BY <1>1 DEF Supplied
<1>5. /\ Sane(sp) /\ ClaimsOk(s, b)
      /\ SumOut(CoinbaseOuts(b)) <= (IF n = 0 THEN SumFunction(Pegs) ELSE 0) + sp.fees + ClaimSum(b)
  BY <1>1, <1>2, ResolvedIs DEF BlockBalanced
<1>6. /\ Priced(a.utxo) /\ sp.fees \in Nat /\ Priced(BurnsOf(b))
      /\ ValueOf(a.utxo) + ValueOf(BurnsOf(b)) + sp.fees <= ValueOf(s.utxo) + SumOut(CoinbaseOuts(b))
  BY <1>1, <1>3, <1>4, <1>5, BlockLevel
<1>7. /\ Recorded(a.claims, n + 1) /\ ClaimSum(b) \in Nat /\ ValueOf(s.claims) \in Nat
      /\ ValueOf(a.claims) = ValueOf(s.claims) + ClaimSum(b)
  BY <1>2, <1>3, <1>4, <1>5, ClaimsValue
<1>8. /\ Priced(a.pegouts) /\ ValueOf(a.pegouts) <= ValueOf(s.pegouts) + ValueOf(BurnsOf(b))
      /\ ValueOf(s.pegouts) \in Nat /\ ValueOf(BurnsOf(b)) \in Nat /\ ValueOf(a.pegouts) \in Nat
  BY <1>3, <1>4, <1>6, ValueOfUnion
<1>9. ValueOf(s.utxo) \in Nat /\ ValueOf(a.utxo) \in Nat /\ SumOut(CoinbaseOuts(b)) \in Nat
  BY <1>4, <1>6, ValueOfIs, CoinbaseValue
<1>10. PICK p, q, sub : p = SumFunction(Pegs) /\ q = Backing(n) /\ sub = (IF n = 0 THEN p ELSE 0)
  OBVIOUS
<1>11. p \in Nat /\ q \in Nat /\ sub \in Nat /\ q + sub = p /\ Backing(n + 1) = p
  BY <1>2, <1>10, PegsNatural DEF Backing
<1>12. ValueOf(s.utxo) + ValueOf(s.pegouts) <= q + ValueOf(s.claims)
  BY <1>4, <1>10
<1>13. SumOut(CoinbaseOuts(b)) <= sub + sp.fees + ClaimSum(b)
  BY <1>5, <1>10
<1>14. ValueOf(a.utxo) + ValueOf(a.pegouts) <= p + ValueOf(a.claims)
  BY ONLY <1>6, <1>7, <1>8, <1>9, <1>11, <1>12, <1>13
<1> QED
  BY ONLY <1>1, <1>2, <1>6, <1>7, <1>8, <1>11, <1>14 DEF Supplied

-----------------------------------------------------------------------------
(* No transaction is included twice. *)

\* The transactions in a chain; the outpoints a chain of n blocks with these has
\* made; and those that the block of height n with the transactions F makes.
Included(q) == UNION {Range(q[i].txs) : i \in 1 .. Len(q)}
ByChain(op, T, n) == (op[1] = "tx" /\ op[2] \in T) \/ (op[1] = "cb" /\ op[2] \in Nat /\ op[2] < n)
ByBlock(op, F, n) == (op[1] = "tx" /\ op[2] \in F) \/ (op[1] = "cb" /\ op[2] = n)

\* Coins U and burns P of a chain of n blocks with the transactions T: what a
\* transaction spent was made before, and is gone.
Once(U, P, T, n) ==
    /\ T \subseteq TxIds
    /\ \A c \in U : ByChain(c.op, T, n) /\ c.h \in Nat /\ c.h < n
    /\ \A t \in T : \A op \in TxDef[t].ins : ByChain(op, T, n)
    /\ \A t \in T : \A c \in U : c.op \notin TxDef[t].ins
    /\ \A r \in P : r.op[1] = "tx" /\ r.op[2] \in T

\* A transaction that the next block, of height n, can hold on the coins U.
SpentOf(U, t) == {c \in U : c.op \in TxDef[t].ins}
Mature(c, n) == c.cb => n - c.h >= Maturity
Ripe(U, t, n) == \A c \in SpentOf(U, t) : Mature(c, n) /\ ~Locked(t, c, n)
Lawful(t) ==
    \A i \in DOMAIN TxDef[t].outs :
        TxDef[t].outs[i].kind # "malformed" /\ (TxDef[t].outs[i].kind = "burn" => TxDef[t].outs[i].v >= PegoutMin)
\* No lock holds it, by height or by time.
Timely(U, t, n) == FinalAt(t, n) /\ \A c \in SpentOf(U, t) : ~(n < c.h + TxDef[t].wait)
Fits(U, t, n) ==
    /\ t \in TxIds /\ TxDef[t].ins \subseteq {c.op : c \in U} /\ Ripe(U, t, n)
    /\ SumOut(TxDef[t].outs) <= ValueOf(SpentOf(U, t)) /\ Lawful(t)

\* A mempool of the transactions R that reserves Z.
Pooled(U, R, Z, n) ==
    /\ \A t \in R : Fits(U, t, n) /\ TxDef[t].ins \subseteq Z
    /\ \A t, u \in R : t # u => TxDef[t].ins \cap TxDef[u].ins = {}

Current(s) ==
    /\ Once(s.utxo, s.pegouts, Included(s.chain), Len(s.chain))
    /\ Pooled(s.utxo, Range(s.mempool), s.spent, Len(s.chain)) /\ IsInjective(s.mempool)

LEMMA TxCoins ==
  ASSUME NEW t, NEW outs, NEW h, NEW c \in CoinsOf(<<"tx", t>>, outs, h)
  PROVE  c.op[1] = "tx" /\ c.op[2] = t /\ c.h = h
  BY DEF CoinsOf

LEMMA MintedCoins ==
  ASSUME NEW b, NEW c \in Minted(b)
  PROVE  c.op[1] = "cb" /\ c.op[2] = b.h /\ c.h = b.h
  BY DEF Minted, CoinsOf

\* A block at height n, after its transactions F, that made some coins and left w.
Early(F, T, n) == F \cap T = {} /\ \A t \in F : \A op \in TxDef[t].ins : ByChain(op, T \cup F, n + 1)
MadeBy(C, F, n) == \A c \in C : ByBlock(c.op, F, n)
Left(U, F, n, w) ==
    /\ \A c \in w : c \in U \/ (ByBlock(c.op, F, n) /\ c.h = n)
    /\ \A t \in F : \A c \in w : c.op \notin TxDef[t].ins
    /\ \A c \in U : (\A t \in F : c.op \notin TxDef[t].ins) => c \in w
Stage(U, T, n, F, new, w) == Early(F, T, n) /\ MadeBy(new, F, n) /\ Left(U, F, n, w)

\* A block never makes an outpoint that the chain has made.
LEMMA NewIsNew ==
  ASSUME NEW op, NEW T, NEW F, NEW n \in Nat, ByChain(op, T, n), ByBlock(op, F, n), F \cap T = {}
  PROVE  FALSE
  BY DEF ByChain, ByBlock

LEMMA StageStart ==
  ASSUME NEW U, NEW P, NEW T, NEW n \in Nat, Once(U, P, T, n), NEW b, b.h = n
  PROVE  Stage(U, T, n, {}, Minted(b), Insert(U, Minted(b)))
<1>1. PICK M : M = Minted(b)
  OBVIOUS
<1>2. \A c \in M : ByBlock(c.op, {}, n) /\ c.h = n
  BY <1>1, MintedCoins DEF ByBlock
<1>3. Early({}, T, n)
  BY DEF Early
<1>4. MadeBy(M, {}, n)
  BY <1>2 DEF MadeBy
<1>5. \A c \in U : ByChain(c.op, T, n)
  BY DEF Once
<1>6. ASSUME NEW c \in U PROVE c \in Insert(U, M)
  <2>1. ASSUME NEW d \in M, d.op = c.op PROVE FALSE
    BY <1>2, <1>5, <1>6, <2>1, NewIsNew
  <2> QED
    BY <1>6, <2>1 DEF Insert
<1>7. \A c \in Insert(U, M) : c \in U \/ (ByBlock(c.op, {}, n) /\ c.h = n)
  BY <1>2 DEF Insert
<1>8. Left(U, {}, n, Insert(U, M))
  BY <1>6, <1>7 DEF Left
<1> QED
  BY <1>1, <1>3, <1>4, <1>8 DEF Stage

\* The inputs of a transaction are coins of the chain or of the block before it.
Found(ins, U, new) == \A op \in ins : \E c \in Insert(U, new) : c.op = op

LEMMA StageNew ==
  ASSUME NEW U, NEW P, NEW T, NEW n \in Nat, Once(U, P, T, n), NEW F, NEW new, Early(F, T, n), MadeBy(new, F, n),
         NEW t \in TxIds, Found(TxDef[t].ins, U, new)
  PROVE  /\ t \notin T
         /\ \A op \in TxDef[t].ins : ByChain(op, T, n) \/ ByBlock(op, F, n)
<1>1. PICK ins : ins = TxDef[t].ins /\ ins # {}
  BY RulesAssumption
<1>2. \A op \in ins : (\E c \in U : c.op = op) \/ (\E c \in new : c.op = op)
  BY <1>1 DEF Found, Insert
<1>3. \A op \in ins : (\E c \in U : c.op = op) \/ ByBlock(op, F, n)
  BY <1>2 DEF MadeBy
<1>4. \A op \in ins : ByChain(op, T, n) \/ ByBlock(op, F, n)
  BY <1>3 DEF Once
<1>5. ASSUME t \in T PROVE FALSE
  <2>1. PICK op : op \in ins
    BY <1>1
  <2>2. ByChain(op, T, n) /\ ~(\E c \in U : c.op = op)
    BY <1>1, <1>5, <2>1 DEF Once
  <2>3. ByBlock(op, F, n)
    BY <1>3, <2>1, <2>2
  <2>4. F \cap T = {}
    BY DEF Early
  <2> QED
    BY <2>2, <2>3, <2>4, NewIsNew
<1> QED
  BY <1>1, <1>4, <1>5

LEMMA StageOn ==
  ASSUME NEW U, NEW P, NEW T, NEW n \in Nat, Once(U, P, T, n), NEW F, NEW new, NEW w, Stage(U, T, n, F, new, w),
         NEW t \in TxIds, t \notin F, Found(TxDef[t].ins, U, new),
         NEW M, \A c \in M : c.op[1] = "tx" /\ c.op[2] = t /\ c.h = n
  PROVE  Stage(U, T, n, F \cup {t}, Insert(new, M), Insert(Unspent(w, TxDef[t].ins), M))
<1>1. PICK ins, G, x : ins = TxDef[t].ins /\ G = F \cup {t} /\ x = Insert(Unspent(w, ins), M)
  OBVIOUS
<1>2. Early(F, T, n) /\ MadeBy(new, F, n) /\ Left(U, F, n, w)
  BY DEF Stage
<1>3. t \notin T /\ \A op \in ins : ByChain(op, T, n) \/ ByBlock(op, F, n)
  BY <1>1, <1>2, StageNew
<1>4. F \cap T = {} /\ \A u \in F : \A op \in TxDef[u].ins : ByChain(op, T \cup F, n + 1)
  BY <1>2 DEF Early
<1>5. Early(G, T, n)
  <2>1. G \cap T = {}
    BY <1>1, <1>3, <1>4
  <2>2. \A op : ByChain(op, T, n) \/ ByBlock(op, F, n) \/ ByChain(op, T \cup F, n + 1) => ByChain(op, T \cup G, n + 1)
    BY <1>1 DEF ByChain, ByBlock
  <2>3. ASSUME NEW u \in G, NEW op \in TxDef[u].ins PROVE ByChain(op, T \cup G, n + 1)
    <3>1. CASE u \in F
      BY <1>4, <2>2, <2>3, <3>1
    <3>2. CASE u = t
      BY <1>1, <1>3, <2>2, <2>3, <3>2
    <3> QED
      BY <1>1, <3>1, <3>2
  <2> QED
    BY <2>1, <2>3 DEF Early
<1>6. \A op : ByBlock(op, F, n) => ByBlock(op, G, n)
  BY <1>1 DEF ByBlock
<1>7. \A c \in M : ByBlock(c.op, G, n) /\ c.h = n
  BY <1>1 DEF ByBlock
<1>8. MadeBy(Insert(new, M), G, n)
  BY <1>2, <1>6, <1>7 DEF MadeBy, Insert
<1>9. \A c \in x : c \in M \/ (c \in w /\ c.op \notin ins)
  BY <1>1 DEF Insert, Unspent
<1>10. \A c \in x : c \in U \/ (ByBlock(c.op, G, n) /\ c.h = n)
  BY <1>2, <1>6, <1>7, <1>9 DEF Left
<1>11. ASSUME NEW u \in G, NEW c \in x, c.op \in TxDef[u].ins PROVE FALSE
  <2>1. CASE c \in M
    <3>1. c.op[1] = "tx" /\ c.op[2] = t
      BY <2>1
    <3>2. CASE u \in F
      <4>1. ByChain(c.op, T \cup F, n + 1)
        BY <1>4, <1>11, <3>2
      <4> QED
        BY <1>3, <3>1, <4>1 DEF ByChain
    <3>3. CASE u = t
      <4>1. ByChain(c.op, T, n) \/ ByBlock(c.op, F, n)
        BY <1>1, <1>3, <1>11, <3>3
      <4> QED
        BY <1>3, <3>1, <4>1 DEF ByChain, ByBlock
    <3> QED
      BY <1>1, <3>2, <3>3
  <2>2. CASE c \notin M
    <3>1. c \in w /\ c.op \notin ins
      BY <1>9, <1>11, <2>2
    <3>2. u \in F
      BY <1>1, <1>11, <3>1
    <3> QED
      BY <1>2, <1>11, <3>1, <3>2 DEF Left
  <2> QED
    BY <2>1, <2>2
<1>12. ASSUME NEW c \in U, \A u \in G : c.op \notin TxDef[u].ins PROVE c \in x
  <2>1. c \in w /\ c.op \notin ins
    BY <1>1, <1>2, <1>12 DEF Left
  <2>2. ByChain(c.op, T, n)
    BY <1>12 DEF Once
  <2>3. \A d \in M : d.op # c.op
    BY <1>3, <2>2 DEF ByChain
  <2> QED
    BY <1>1, <2>1, <2>3 DEF Insert, Unspent
<1>13. Left(U, G, n, x)
  BY <1>10, <1>11, <1>12 DEF Left
<1> QED
  BY <1>1, <1>5, <1>8, <1>13 DEF Stage

First(q, k) == {q[i] : i \in 1 .. k}

LEMMA LostNone ==
  ASSUME NEW s, NEW acc, NEW t, Lost(s, acc, t) = {}
  PROVE  Found(TxDef[t].ins, s.utxo, acc.created)
<1>1. SUFFICES ASSUME NEW op \in TxDef[t].ins PROVE \E c \in Insert(s.utxo, acc.created) : c.op = op
  BY DEF Found
<1>2. CoinAt(Taken(s, acc, t), op) # {}
  BY DEF Lost
<1>3. PICK c \in Taken(s, acc, t) : c.op = op
  BY <1>2 DEF CoinAt
<1>4. c \in Insert(s.utxo, acc.created)
  BY <1>3 DEF Taken, CoinAt
<1> QED
  BY <1>3, <1>4

StageAt(s, T, n, q, v, u, k) == v[k].missing = {} => Stage(s.utxo, T, n, First(q, k), v[k].created, u[k])

LEMMA StageAtOn ==
  ASSUME NEW s, NEW P, NEW T, NEW n \in Nat, Once(s.utxo, P, T, n), NEW q, NEW v, NEW u, NEW k \in Nat \ {0},
         NEW t \in TxIds, t = q[k], t \notin First(q, k - 1), StageAt(s, T, n, q, v, u, k - 1),
         v[k] = ResolveTx(s, n, v[k - 1], t), u[k] = ApplyTx(n, u[k - 1], t)
  PROVE  StageAt(s, T, n, q, v, u, k)
<1>1. SUFFICES ASSUME v[k].missing = {} PROVE Stage(s.utxo, T, n, First(q, k), v[k].created, u[k])
  BY DEF StageAt
<1>2. PICK acc, r, x, y, F, M, U, ins : /\ acc = v[k - 1] /\ r = v[k] /\ x = u[k - 1] /\ y = u[k] /\ F = First(q, k - 1)
                             /\ M = CoinsOf(<<"tx", t>>, TxDef[t].outs, n) /\ U = s.utxo /\ ins = TxDef[t].ins
  OBVIOUS
<1>3. r.created = Insert(acc.created, M) /\ r.missing = acc.missing \cup Lost(s, acc, t)
  BY <1>2, ResolveIsStep
<1>4. acc.missing = {} /\ Lost(s, acc, t) = {}
  BY <1>1, <1>2, <1>3
<1>5. Stage(U, T, n, F, acc.created, x)
  BY <1>2, <1>4 DEF StageAt
<1>6. y = Insert(Unspent(x, ins), M)
  BY <1>2 DEF ApplyTx, Unspent
<1>7. \A c \in M : c.op[1] = "tx" /\ c.op[2] = t /\ c.h = n
  BY <1>2, TxCoins
<1>8. Found(ins, U, acc.created)
  BY <1>2, <1>4, LostNone
<1>9. Stage(U, T, n, F \cup {t}, Insert(acc.created, M), Insert(Unspent(x, ins), M))
  <2>1. Once(U, P, T, n) /\ Found(TxDef[t].ins, U, acc.created) /\ t \notin F /\ ins = TxDef[t].ins
    BY <1>2, <1>8
  <2>2. Stage(U, T, n, F \cup {t}, Insert(acc.created, M), Insert(Unspent(x, TxDef[t].ins), M))
    BY ONLY <1>5, <1>7, <2>1, n \in Nat, t \in TxIds, StageOn
  <2> QED
    BY ONLY <2>1, <2>2
<1>10. First(q, k) = F \cup {t}
  <2>1. 1 .. k = (1 .. k - 1) \cup {k}
    OBVIOUS
  <2> QED
    BY <1>2, <2>1 DEF First
<1> QED
  BY ONLY <1>2, <1>3, <1>6, <1>9, <1>10

LEMMA BlockStage ==
  ASSUME NEW s, NEW P, NEW T, NEW h \in Nat, Once(s.utxo, P, T, h), NEW b, Block(b), b.h = h, IsInjective(b.txs),
         Resolved(s, b).missing = {}
  PROVE  \E new : Stage(s.utxo, T, h, Range(b.txs), new, CoinsAfter(s, b))
<1>1. PICK base, n, q : base = Insert(s.utxo, Minted(b)) /\ q = b.txs /\ n = Len(q)
  OBVIOUS
<1>2. q \in Seq(TxIds)
  BY <1>1 DEF Block
<1>3. DOMAIN q = 1 .. n /\ n \in Nat /\ \A i \in 1 .. n : q[i] \in TxIds
  BY <1>1, <1>2
<1>4. \A i, j \in 1 .. n : q[i] = q[j] => i = j
  BY <1>1, <1>3 DEF IsInjective
<1>6. PICK v : Runs("resolve", <<s, b.h>>, Fresh(b), q, n, v) /\ Resolved(s, b) = v[n]
  BY <1>1, <1>3, FoldRuns DEF Resolved
<1>7. PICK u : Runs("apply", b.h, base, q, n, u) /\ CoinsAfter(s, b) = u[n]
  BY ONLY <1>1, <1>3, FoldRuns DEF CoinsAfter
<1>8. v[0] = Fresh(b) /\ u[0] = base
  BY <1>6, <1>7 DEF Runs
<1>9. \A k \in 1 .. n : v[k] = ResolveTx(s, h, v[k - 1], q[k])
  <2>1. \A k \in 1 .. n : v[k] = Step("resolve", <<s, b.h>>, v[k - 1], q[k])
    BY <1>6 DEF Runs
  <2>2. \A a, x : Step("resolve", <<s, b.h>>, a, x) = ResolveTx(s, h, a, x)
    BY DEF Step
  <2> QED
    BY <2>1, <2>2
<1>10. \A k \in 1 .. n : u[k] = ApplyTx(h, u[k - 1], q[k])
  <2>1. \A k \in 1 .. n : u[k] = Step("apply", b.h, u[k - 1], q[k])
    BY <1>7 DEF Runs
  <2>2. \A a, x : Step("apply", b.h, a, x) = ApplyTx(h, a, x)
    BY DEF Step
  <2> QED
    BY <2>1, <2>2
<1> DEFINE Bad == {k \in 0 .. n : ~StageAt(s, T, h, q, v, u, k)}
<1>11. ASSUME Bad # {} PROVE FALSE
  <2>1. Bad \subseteq Nat
    BY <1>3
  <2>2. PICK k \in Bad : \A y \in Bad : ~(y < k)
    <3> HIDE DEF Bad
    <3> QED
      BY <1>11, <2>1, LeastNat
  <2>3. k \in 0 .. n /\ ~StageAt(s, T, h, q, v, u, k)
    BY <2>2
  <2>4. k # 0
    <3>1. First(q, 0) = {} /\ v[0].created = Minted(b)
      BY <1>8 DEF First, Fresh
    <3>2. Stage(s.utxo, T, h, First(q, 0), v[0].created, u[0])
      <4>1. Stage(s.utxo, T, h, {}, Minted(b), Insert(s.utxo, Minted(b)))
        BY StageStart
      <4> QED
        BY ONLY <1>1, <1>8, <3>1, <4>1
    <3> QED
      BY <2>3, <3>2 DEF StageAt
  <2>5. k \in Nat \ {0} /\ k \in 1 .. n /\ k - 1 \in 0 .. n /\ k - 1 < k
    BY <1>3, <2>3, <2>4
  <2>6. StageAt(s, T, h, q, v, u, k - 1)
    BY <2>2, <2>5
  <2> HIDE DEF Bad
  <2>7. PICK t \in TxIds : t = q[k]
    BY <1>3, <2>5
  <2>8. v[k] = ResolveTx(s, h, v[k - 1], t) /\ u[k] = ApplyTx(h, u[k - 1], t)
    BY <1>9, <1>10, <2>5, <2>7
  <2>9. t \notin First(q, k - 1)
    <3>1. \A i \in 1 .. k - 1 : q[i] # q[k]
      BY <1>3, <1>4, <2>5
    <3> QED
      BY <2>7, <3>1 DEF First
  <2>10. StageAt(s, T, h, q, v, u, k)
    BY <2>5, <2>6, <2>7, <2>8, <2>9, StageAtOn
  <2> QED
    BY <2>3, <2>10
<1>12. StageAt(s, T, h, q, v, u, n)
  <2>1. n \notin Bad /\ n \in 0 .. n
    BY <1>3, <1>11
  <2> QED
    BY <2>1
<1> HIDE DEF Bad
<1>13. First(q, n) = Range(b.txs)
  BY <1>1, <1>3 DEF First, Range
<1> QED
  BY <1>6, <1>7, <1>12, <1>13 DEF StageAt

-----------------------------------------------------------------------------
(* What a block leaves of this, and of the mempool. *)

LEMMA OnceOn ==
  ASSUME NEW U, NEW P, NEW T, NEW n \in Nat, Once(U, P, T, n), NEW F, F \subseteq TxIds, NEW new, NEW w,
         Stage(U, T, n, F, new, w), NEW B, \A r \in B : r.op[1] = "tx" /\ r.op[2] \in F
  PROVE  Once(w, P \cup B, T \cup F, n + 1)
<1>1. Early(F, T, n) /\ Left(U, F, n, w)
  BY DEF Stage
<1>2. F \cap T = {}
  BY <1>1 DEF Early
<1>3. PICK V : V = T \cup F
  OBVIOUS
<1>4. \A op : ByChain(op, T, n) \/ ByBlock(op, F, n) => ByChain(op, V, n + 1)
  BY <1>3 DEF ByChain, ByBlock
<1>5. \A c \in w : ByChain(c.op, V, n + 1) /\ c.h \in Nat /\ c.h < n + 1
  <2>1. SUFFICES ASSUME NEW c \in w PROVE ByChain(c.op, V, n + 1) /\ c.h \in Nat /\ c.h < n + 1
    OBVIOUS
  <2>2. c \in U \/ (ByBlock(c.op, F, n) /\ c.h = n)
    BY <1>1 DEF Left
  <2>3. CASE c \in U
    <3>1. ByChain(c.op, T, n) /\ c.h \in Nat /\ c.h < n
      BY <2>3 DEF Once
    <3> QED
      BY <1>4, <3>1
  <2>4. CASE ByBlock(c.op, F, n) /\ c.h = n
    BY <1>4, <2>4
  <2> QED
    BY <2>2, <2>3, <2>4
<1>6. ASSUME NEW t \in V, NEW op \in TxDef[t].ins PROVE ByChain(op, V, n + 1)
  <2>1. CASE t \in T
    <3>1. ByChain(op, T, n)
      BY <1>6, <2>1 DEF Once
    <3> QED
      BY <1>4, <3>1
  <2>2. CASE t \in F
    BY <1>1, <1>3, <1>6, <2>2 DEF Early
  <2> QED
    BY <1>3, <2>1, <2>2
<1>7. ASSUME NEW t \in V, NEW c \in w, c.op \in TxDef[t].ins PROVE FALSE
  <2>1. t \in T
    BY <1>1, <1>3, <1>7 DEF Left
  <2>2. ByChain(c.op, T, n) /\ c \notin U
    BY <1>7, <2>1 DEF Once
  <2>3. ByBlock(c.op, F, n)
    BY <1>1, <1>7, <2>2 DEF Left
  <2> QED
    BY <1>2, <2>2, <2>3, NewIsNew
<1>8. \A r \in P \cup B : r.op[1] = "tx" /\ r.op[2] \in V
  BY <1>3 DEF Once
<1>9. V \subseteq TxIds
  BY <1>3 DEF Once
<1> QED
  BY <1>3, <1>5, <1>6, <1>7, <1>8, <1>9 DEF Once

LEMMA FitsOn ==
  ASSUME NEW U, NEW P, NEW T, NEW n \in Nat, Once(U, P, T, n), NEW F, NEW new, NEW w, Stage(U, T, n, F, new, w),
         NEW t, Fits(U, t, n), TxDef[t].ins \subseteq {c.op : c \in w}
  PROVE  Fits(w, t, n + 1)
<1>1. Early(F, T, n) /\ Left(U, F, n, w) /\ F \cap T = {}
  BY DEF Stage, Early
<1>2. PICK ins : ins = TxDef[t].ins
  OBVIOUS
<1>3. t \in TxIds /\ \A op \in ins : (\E c \in U : c.op = op) /\ (\E c \in w : c.op = op)
  BY <1>2 DEF Fits
<1>4. \A op \in ins : ByChain(op, T, n)
  BY <1>3 DEF Once
<1>5. ASSUME NEW c \in w, c.op \in ins PROVE c \in U
  <2>1. ~ByBlock(c.op, F, n)
    BY <1>1, <1>4, <1>5, NewIsNew
  <2> QED
    BY <1>1, <1>5, <2>1 DEF Left
<1>6. ASSUME NEW c \in U, c.op \in ins PROVE c \in w
  <2>1. PICK d \in w : d.op = c.op
    BY <1>3, <1>6
  <2>2. \A u \in F : c.op \notin TxDef[u].ins
    BY <1>1, <2>1 DEF Left
  <2> QED
    BY <1>1, <1>6, <2>2 DEF Left
<1>7. SpentOf(w, t) = SpentOf(U, t)
  BY <1>2, <1>5, <1>6 DEF SpentOf
<1>8. ASSUME NEW c \in SpentOf(U, t) PROVE Mature(c, n + 1) /\ ~Locked(t, c, n + 1)
  <2>1. c.h \in Nat /\ TxDef[t].wait \in Nat /\ TxDef[t].lock \in Nat /\ Maturity \in Nat
    BY <1>3, <1>8, RulesAssumption DEF Once, SpentOf
  <2>2. Mature(c, n) /\ ~Locked(t, c, n)
    BY <1>8 DEF Fits, Ripe
  <2>4. Mature(c, n + 1)
    BY ONLY <2>1, <2>2, n \in Nat DEF Mature
  <2>5. ~Locked(t, c, n + 1)
    BY ONLY <2>1, <2>2, n \in Nat DEF Locked
  <2> QED
    BY <2>4, <2>5
<1>9. Ripe(w, t, n + 1)
  BY <1>7, <1>8 DEF Ripe
<1>10. SumOut(TxDef[t].outs) <= ValueOf(SpentOf(w, t)) /\ Lawful(t)
  BY <1>7 DEF Fits
<1> QED
  BY <1>3, <1>9, <1>10 DEF Fits

LEMMA AppendRange ==
  ASSUME NEW S, NEW a \in Seq(S), NEW x \in S
  PROVE  /\ Append(a, x) \in Seq(S) /\ Range(Append(a, x)) = Range(a) \cup {x}
         /\ IsInjective(a) /\ x \notin Range(a) => IsInjective(Append(a, x))
<1>1. PICK n, d : n = Len(a) /\ d = Append(a, x)
  OBVIOUS
<1>2. /\ DOMAIN a = 1 .. n /\ n \in Nat /\ d \in Seq(S) /\ DOMAIN d = 1 .. n + 1 /\ d[n + 1] = x
      /\ \A i \in 1 .. n : d[i] = a[i]
  BY <1>1
<1>3. 1 .. n + 1 = (1 .. n) \cup {n + 1} /\ n + 1 \notin 1 .. n
  BY <1>2
<1>4. Range(d) = Range(a) \cup {x}
  <2>1. Range(d) = {d[i] : i \in 1 .. n} \cup {d[n + 1]}
    BY <1>2, <1>3 DEF Range
  <2>2. {d[i] : i \in 1 .. n} = {a[i] : i \in 1 .. n}
    BY <1>2
  <2> QED
    BY <1>2, <2>1, <2>2 DEF Range
<1>5. ASSUME IsInjective(a), x \notin Range(a) PROVE IsInjective(d)
  <2>1. SUFFICES ASSUME NEW i \in 1 .. n + 1, NEW j \in 1 .. n + 1, d[i] = d[j] PROVE i = j
    BY <1>2 DEF IsInjective
  <2>2. \A k \in 1 .. n : a[k] # x
    BY <1>2, <1>5 DEF Range
  <2>3. \A k, l \in 1 .. n : a[k] = a[l] => k = l
    BY <1>2, <1>5 DEF IsInjective
  <2> QED
    BY ONLY <1>2, <1>3, <2>1, <2>2, <2>3
<1> QED
  BY <1>1, <1>2, <1>4, <1>5

OnlyAt(q, some, v, k) ==
    v[k] \in Seq(TxIds) /\ Range(v[k]) = First(q, k) \cap some /\ (IsInjective(q) => IsInjective(v[k]))

LEMMA OnlyIn ==
  ASSUME NEW q \in Seq(TxIds), NEW some
  PROVE  /\ Only(q, some) \in Seq(TxIds) /\ Range(Only(q, some)) = Range(q) \cap some
         /\ IsInjective(q) => IsInjective(Only(q, some))
<1>1. PICK n : n = Len(q)
  OBVIOUS
<1>2. DOMAIN q = 1 .. n /\ n \in Nat /\ \A i \in 1 .. n : q[i] \in TxIds
  BY <1>1
<1>3. Only(q, some) = FoldOf("only", some, <<>>, q)
  BY OnlyFold DEF Only
<1>4. PICK v : Runs("only", some, <<>>, q, n, v) /\ FoldOf("only", some, <<>>, q) = v[n]
  BY <1>2, FoldRuns
<1>5. v[0] = <<>> /\ \A k \in 1 .. n : v[k] = IF q[k] \in some THEN Append(v[k - 1], q[k]) ELSE v[k - 1]
  <2>1. v[0] = <<>> /\ \A k \in 1 .. n : v[k] = Step("only", some, v[k - 1], q[k])
    BY <1>4 DEF Runs
  <2>2. \A a, x : Step("only", some, a, x) = IF x \in some THEN Append(a, x) ELSE a
    BY DEF Step
  <2> QED
    BY <2>1, <2>2
<1> DEFINE Bad == {k \in 0 .. n : ~OnlyAt(q, some, v, k)}
<1>6. ASSUME Bad # {} PROVE FALSE
  <2>1. Bad \subseteq Nat
    BY <1>2
  <2>2. PICK k \in Bad : \A y \in Bad : ~(y < k)
    <3> HIDE DEF Bad
    <3> QED
      BY <1>6, <2>1, LeastNat
  <2>3. k \in 0 .. n /\ ~OnlyAt(q, some, v, k)
    BY <2>2
  <2>4. k # 0
    <3>1. <<>> \in Seq(TxIds) /\ Range(<<>>) = {} /\ IsInjective(<<>>)
      BY DEF Range, IsInjective
    <3>2. First(q, 0) = {}
      BY DEF First
    <3> QED
      BY ONLY <1>5, <2>3, <3>1, <3>2 DEF OnlyAt
  <2>5. k \in 1 .. n /\ k - 1 \in 0 .. n /\ k - 1 < k
    BY <1>2, <2>3, <2>4
  <2>6. OnlyAt(q, some, v, k - 1)
    BY <2>2, <2>5
  <2> HIDE DEF Bad
  <2>7. PICK a, x : a = v[k - 1] /\ x = q[k]
    OBVIOUS
  <2>8. a \in Seq(TxIds) /\ Range(a) = First(q, k - 1) \cap some /\ (IsInjective(q) => IsInjective(a)) /\ x \in TxIds
    BY <1>2, <2>5, <2>6, <2>7 DEF OnlyAt
  <2>9. First(q, k) = First(q, k - 1) \cup {x}
    <3>1. 1 .. k = (1 .. k - 1) \cup {k}
      BY <2>5
    <3> QED
      BY <2>7, <3>1 DEF First
  <2>10. IsInjective(q) => x \notin First(q, k - 1)
    <3>1. ASSUME IsInjective(q) PROVE x \notin First(q, k - 1)
      <4>1. \A i \in 1 .. k - 1 : q[i] # q[k]
        BY <1>2, <2>5, <3>1 DEF IsInjective
      <4> QED
        BY <2>7, <4>1 DEF First
    <3> QED
      BY <3>1
  <2>11. CASE x \in some
    <3>1. v[k] = Append(a, x)
      BY <1>5, <2>5, <2>7, <2>11
    <3>2. /\ v[k] \in Seq(TxIds) /\ Range(v[k]) = Range(a) \cup {x}
          /\ IsInjective(a) /\ x \notin Range(a) => IsInjective(v[k])
      BY <2>8, <3>1, AppendRange
    <3> QED
      BY <2>3, <2>8, <2>9, <2>10, <2>11, <3>2 DEF OnlyAt
  <2>12. CASE x \notin some
    <3>1. v[k] = a
      BY <1>5, <2>5, <2>7, <2>12
    <3> QED
      BY <2>3, <2>8, <2>9, <2>12, <3>1 DEF OnlyAt
  <2> QED
    BY <2>11, <2>12
<1>7. OnlyAt(q, some, v, n)
  <2>1. n \notin Bad /\ n \in 0 .. n
    BY <1>2, <1>6
  <2> QED
    BY <2>1
<1>8. First(q, n) = Range(q)
  BY <1>2 DEF First, Range
<1> QED
  BY <1>3, <1>4, <1>7, <1>8 DEF OnlyAt

\* The states that differ in their mempool only.
LEMMA PooledLess ==
  ASSUME NEW U, NEW R, NEW Z, NEW n, Pooled(U, R, Z, n), NEW Q, Q \subseteq R, NEW Y, \A t \in Q : TxDef[t].ins \subseteq Y
  PROVE  Pooled(U, Q, Y, n)
  BY DEF Pooled

LEMMA SpentByAll ==
  ASSUME NEW q, NEW t \in Range(q)
  PROVE  TxDef[t].ins \subseteq SpentBy(q)
  BY DEF SpentBy, Range

\* What a block leaves of the mempool fits on what it leaves of the coins.
LEMMA PooledOn ==
  ASSUME NEW U, NEW P, NEW T, NEW n \in Nat, Once(U, P, T, n), NEW F, NEW new, NEW w, Stage(U, T, n, F, new, w),
         NEW R, NEW Z, Pooled(U, R, Z, n), NEW Q, Q \subseteq R, NEW Y,
         \A t \in Q : TxDef[t].ins \subseteq Y /\ TxDef[t].ins \subseteq {c.op : c \in w}
  PROVE  Pooled(w, Q, Y, n + 1)
<1>1. \A t, u \in Q : t # u => TxDef[t].ins \cap TxDef[u].ins = {}
  BY DEF Pooled
<1>2. ASSUME NEW t \in Q PROVE Fits(w, t, n + 1)
  <2>1. Fits(U, t, n)
    BY <1>2 DEF Pooled
  <2>2. TxDef[t].ins \subseteq {c.op : c \in w}
    BY <1>2
  <2> QED
    BY <2>1, <2>2, FitsOn
<1> QED
  BY <1>1, <1>2 DEF Pooled

-----------------------------------------------------------------------------
(* States: what every operation on them keeps. *)

Heights(q) == \A i \in 1 .. Len(q) : Block(q[i]) /\ q[i].h = i - 1
StateOk(s) ==
    /\ StateShape(s) /\ Listed(s.chain) /\ Heights(s.chain) /\ s.mempool \in Seq(TxIds)
    /\ Supplied(s) /\ Current(s)
\* r is s with another mempool.
Beside(s, r) == StateOk(r) /\ r.chain = s.chain

\* Only what the mempool holds and reserves, and what was rejected, differs.
LEMMA BesideOn ==
  ASSUME NEW s, StateOk(s), NEW r, StateShape(r), r.chain = s.chain, r.utxo = s.utxo, r.claims = s.claims,
         r.pegouts = s.pegouts, r.mempool \in Seq(TxIds), IsInjective(r.mempool),
         Pooled(s.utxo, Range(r.mempool), r.spent, Len(s.chain))
  PROVE  Beside(s, r)
<1>1. /\ StateShape(s) /\ Listed(s.chain) /\ Heights(s.chain) /\ Supplied(s)
      /\ Once(s.utxo, s.pegouts, Included(s.chain), Len(s.chain))
  BY DEF StateOk, Current
<1>2. Supplied(r)
  BY <1>1 DEF Supplied
<1>3. Current(r)
  BY <1>1 DEF Current
<1> QED
  BY <1>1, <1>2, <1>3 DEF Beside, StateOk

LEMMA MayEnterMature ==
  ASSUME NEW s, NEW t, MayEnter(s, t), NEW c \in UNION {CoinAt(s.utxo, op) : op \in TxDef[t].ins}, c.h \in Nat,
         NEW n \in Nat, Height(s) = n - 1
  PROVE  Mature(c, n)
<1>1. c.cb => Height(s) + 1 - c.h >= Maturity
  BY Zenon DEF MayEnter
<1>2. Height(s) + 1 - c.h = n - c.h
  OBVIOUS
<1>3. c.cb => n - c.h >= Maturity
  BY <1>1, <1>2, Zenon
<1> QED
  BY <1>3, Zenon DEF Mature

\* What enters the mempool fits on the coins and takes what nobody reserved.
LEMMA MayEnterFits ==
  ASSUME NEW s, StateOk(s), NEW t \in TxIds, MayEnter(s, t)
  PROVE  Fits(s.utxo, t, Len(s.chain)) /\ TxDef[t].ins \cap s.spent = {} /\ t \notin Range(s.mempool)
<1>1. PICK n, U, ins : n = Len(s.chain) /\ U = s.utxo /\ ins = TxDef[t].ins
  OBVIOUS
<1>2. n \in Nat /\ Height(s) + 1 = n /\ Height(s) = n - 1
  BY <1>1, ListedIs DEF StateOk, Height
<1>3. PICK C : C = UNION {CoinAt(U, op) : op \in ins}
  OBVIOUS
<1>4. C = SpentOf(U, t)
  BY <1>1, <1>3 DEF CoinAt, SpentOf
<1>5. /\ ~Contains(s.mempool, t) /\ ins \cap s.spent = {} /\ \A op \in ins : \E c \in U : c.op = op
      /\ SumOut(TxDef[t].outs) <= ValueOf(C)
  BY <1>1, <1>3 DEF MayEnter
<1>6. \A c \in C : ~Locked(t, c, n)
  BY <1>1, <1>2, <1>3 DEF MayEnter
<1>7. \A c \in C : Mature(c, n)
  <2>1. SUFFICES ASSUME NEW c \in C PROVE Mature(c, n)
    OBVIOUS
  <2>2. c \in UNION {CoinAt(s.utxo, op) : op \in TxDef[t].ins}
    BY <1>1, <1>3
  <2>3. c.h \in Nat
    BY <1>1, <1>4 DEF StateOk, Current, Once, SpentOf
  <2> QED
    BY <1>2, <2>2, <2>3, MayEnterMature
<1>8. Lawful(t)
  BY DEF MayEnter, Lawful
<1>9. t \notin Range(s.mempool)
  <2>1. s.mempool \in Seq(TxIds)
    BY DEF StateOk
  <2> QED
    BY <1>5, <2>1 DEF Contains, Range
<1>10. Ripe(U, t, n)
  BY <1>4, <1>6, <1>7 DEF Ripe
<1>11. ins \subseteq {c.op : c \in U}
  BY <1>5
<1>12. Fits(U, t, n)
  BY <1>1, <1>4, <1>5, <1>8, <1>10, <1>11 DEF Fits
<1> QED
  BY <1>1, <1>5, <1>9, <1>12

LEMMA SubmittedOk ==
  ASSUME NEW s, StateOk(s), NEW t \in TxIds, MayEnter(s, t)
  PROVE  Beside(s, Submitted(s, t))
<1>1. PICK r, m, z : r = Submitted(s, t) /\ m = Append(s.mempool, t) /\ z = s.spent \cup TxDef[t].ins
  OBVIOUS
<1>2. r = [s EXCEPT !.mempool = m, !.spent = z]
  BY <1>1 DEF Submitted
<1>3. StateShape(s) /\ s.mempool \in Seq(TxIds)
  BY DEF StateOk
<1>4. /\ DOMAIN r = DOMAIN s /\ r.chain = s.chain /\ r.utxo = s.utxo /\ r.claims = s.claims
      /\ r.pegouts = s.pegouts /\ r.mempool = m /\ r.spent = z
  BY ONLY <1>2, <1>3 DEF StateShape
<1>5. StateShape(r)
  BY ONLY <1>3, <1>4 DEF StateShape
<1>6. PICK R, Z, U, n, ins : /\ R = Range(s.mempool) /\ Z = s.spent /\ U = s.utxo /\ n = Len(s.chain) /\ ins = TxDef[t].ins
  OBVIOUS
<1>7. Pooled(U, R, Z, n) /\ IsInjective(s.mempool)
  BY <1>6 DEF StateOk, Current
<1>8. Fits(U, t, n) /\ ins \cap Z = {} /\ t \notin R
  BY <1>6, MayEnterFits
<1>9. m \in Seq(TxIds) /\ Range(m) = R \cup {t} /\ IsInjective(m)
  BY <1>1, <1>3, <1>6, <1>7, <1>8, AppendRange
<1>10. Pooled(U, R \cup {t}, Z \cup ins, n)
  <2>1. ASSUME NEW u \in R \cup {t} PROVE Fits(U, u, n) /\ TxDef[u].ins \subseteq Z \cup ins
    BY <1>6, <1>7, <1>8, <2>1 DEF Pooled
  <2>2. \A u \in R : TxDef[u].ins \cap ins = {}
    BY <1>7, <1>8 DEF Pooled
  <2>3. ASSUME NEW u \in R \cup {t}, NEW x \in R \cup {t}, u # x PROVE TxDef[u].ins \cap TxDef[x].ins = {}
    BY <1>6, <1>7, <2>2, <2>3 DEF Pooled
  <2> QED
    BY <2>1, <2>3 DEF Pooled
<1>11. Pooled(s.utxo, Range(r.mempool), r.spent, Len(s.chain))
  BY ONLY <1>1, <1>4, <1>6, <1>9, <1>10
<1> QED
  BY <1>1, <1>4, <1>5, <1>9, <1>11, BesideOn

\* A part of the mempool that reserves what it spends.
LEMMA PooledOnly ==
  ASSUME NEW s, StateOk(s), NEW some, NEW m, m = Only(s.mempool, some)
  PROVE  m \in Seq(TxIds) /\ IsInjective(m) /\ Pooled(s.utxo, Range(m), SpentBy(m), Len(s.chain))
<1>1. /\ s.mempool \in Seq(TxIds) /\ Pooled(s.utxo, Range(s.mempool), s.spent, Len(s.chain)) /\ IsInjective(s.mempool)
  BY DEF StateOk, Current
<1>2. m \in Seq(TxIds) /\ Range(m) = Range(s.mempool) \cap some /\ IsInjective(m)
  BY <1>1, OnlyIn
<1>3. \A t \in Range(m) : TxDef[t].ins \subseteq SpentBy(m)
  BY SpentByAll
<1>4. Range(m) \subseteq Range(s.mempool)
  BY <1>2
<1> QED
  BY <1>1, <1>2, <1>3, <1>4, PooledLess

LEMMA DiscardedOk ==
  ASSUME NEW s, StateOk(s), NEW t
  PROVE  Beside(s, Discarded(s, t))
<1>1. PICK r, m, z : r = Discarded(s, t) /\ m = Only(s.mempool, TxIds \ {t}) /\ z = SpentBy(m)
  OBVIOUS
<1>2. r = [s EXCEPT !.mempool = m, !.spent = z]
  BY <1>1 DEF Discarded
<1>3. StateShape(s)
  BY DEF StateOk
<1>4. /\ DOMAIN r = DOMAIN s /\ r.chain = s.chain /\ r.utxo = s.utxo /\ r.claims = s.claims
      /\ r.pegouts = s.pegouts /\ r.mempool = m /\ r.spent = z
  BY ONLY <1>2, <1>3 DEF StateShape
<1>5. StateShape(r)
  BY ONLY <1>3, <1>4 DEF StateShape
<1>6. m \in Seq(TxIds) /\ IsInjective(m) /\ Pooled(s.utxo, Range(m), SpentBy(m), Len(s.chain))
  BY <1>1, PooledOnly
<1>7. Pooled(s.utxo, Range(r.mempool), r.spent, Len(s.chain))
  BY ONLY <1>1, <1>4, <1>6
<1> QED
  BY <1>1, <1>4, <1>5, <1>6, <1>7, BesideOn

LEMMA EvictedOk ==
  ASSUME NEW s, StateOk(s), NEW t
  PROVE  Beside(s, Evicted(s, t))
<1>1. PICK r, d, z : r = Evicted(s, t) /\ d = Discarded(s, t) /\ z = d.rejected \cup {t}
  OBVIOUS
<1>2. r = [d EXCEPT !.rejected = z]
  BY <1>1 DEF Evicted
<1>3. StateOk(d) /\ d.chain = s.chain
  BY <1>1, DiscardedOk DEF Beside
<1>4. StateShape(d) /\ d.mempool \in Seq(TxIds) /\ Current(d)
  BY <1>3 DEF StateOk
<1>5. /\ DOMAIN r = DOMAIN d /\ r.chain = d.chain /\ r.utxo = d.utxo /\ r.claims = d.claims
      /\ r.pegouts = d.pegouts /\ r.mempool = d.mempool /\ r.spent = d.spent
  BY ONLY <1>2, <1>4 DEF StateShape
<1>6. StateShape(r)
  BY ONLY <1>4, <1>5 DEF StateShape
<1>7. IsInjective(r.mempool) /\ Pooled(d.utxo, Range(r.mempool), r.spent, Len(d.chain))
  BY ONLY <1>4, <1>5 DEF Current
<1>8. Beside(d, r)
  BY <1>3, <1>4, <1>5, <1>6, <1>7, BesideOn
<1> QED
  BY <1>1, <1>3, <1>8 DEF Beside

LEMMA WalkedOk ==
  ASSUME NEW s, StateOk(s), NEW asked
  PROVE  Beside(s, Walked(s, asked))
<1>1. PICK kept, q, n : kept = Kept(s, asked) /\ q = s.mempool /\ n = Len(q)
  OBVIOUS
<1>2. DOMAIN q = 1 .. n /\ n \in Nat
  <2>1. q \in Seq(TxIds)
    BY <1>1 DEF StateOk
  <2> QED
    BY <1>1, <2>1
<1>3. Walked(s, asked) = FoldOf("walk", kept, s, q)
  BY <1>1, WalkFold DEF Walked
<1>4. PICK v : Runs("walk", kept, s, q, n, v) /\ FoldOf("walk", kept, s, q) = v[n]
  BY <1>2, FoldRuns
<1>5. v[0] = s /\ \A k \in 1 .. n : v[k] = v[k - 1] \/ v[k] = Evicted(v[k - 1], q[k])
  <2>1. v[0] = s /\ \A k \in 1 .. n : v[k] = Step("walk", kept, v[k - 1], q[k])
    BY <1>4 DEF Runs
  <2>2. \A a, x : Step("walk", kept, a, x) = a \/ Step("walk", kept, a, x) = Evicted(a, x)
    BY DEF Step
  <2> QED
    BY <2>1, <2>2
<1> DEFINE T == {k \in 0 .. n : ~Beside(s, v[k])}
<1>6. ASSUME T # {} PROVE FALSE
  <2>1. T \subseteq Nat
    BY <1>2
  <2>2. PICK k \in T : \A y \in T : ~(y < k)
    <3> HIDE DEF T
    <3> QED
      BY <1>6, <2>1, LeastNat
  <2>3. k \in 0 .. n /\ ~Beside(s, v[k])
    BY <2>2
  <2>4. k # 0
    BY <1>5, <2>3 DEF Beside
  <2>5. k \in 1 .. n /\ k - 1 \in 0 .. n /\ k - 1 < k
    BY <1>2, <2>3, <2>4
  <2>6. Beside(s, v[k - 1])
    BY <2>2, <2>5
  <2> HIDE DEF T
  <2>7. Beside(v[k - 1], Evicted(v[k - 1], q[k]))
    BY <2>6, EvictedOk DEF Beside
  <2>8. v[k] = v[k - 1] \/ v[k] = Evicted(v[k - 1], q[k])
    BY <1>5, <2>5
  <2> QED
    BY <2>3, <2>6, <2>7, <2>8 DEF Beside
<1>7. Beside(s, v[n])
  <2>1. n \notin T /\ n \in 0 .. n
    BY <1>2, <1>6
  <2> QED
    BY <2>1
<1> QED
  BY <1>3, <1>4, <1>7

\* A valid block leaves every transaction included once, and a mempool that fits.
LEMMA AppliedCurrent ==
  ASSUME NEW s, NEW b, StateOk(s), Block(b), b.h = Len(s.chain), BlockBalanced(s, b)
  PROVE  Current(Applied(s, b))
<1>1. PICK a, n, U, P, T, F, w, B, m :
        /\ a = Applied(s, b) /\ n = Len(s.chain) /\ U = s.utxo /\ P = s.pegouts /\ T = Included(s.chain)
        /\ F = Range(b.txs) /\ w = CoinsAfter(s, b) /\ B = BurnsOf(b) /\ m = PoolLeft(s, b)
  OBVIOUS
<1>2. StateShape(s) /\ Listed(s.chain) /\ s.mempool \in Seq(TxIds) /\ Current(s)
  BY DEF StateOk
<1>3. n \in Nat /\ Once(U, P, T, n) /\ Pooled(U, Range(s.mempool), s.spent, n) /\ IsInjective(s.mempool)
  BY <1>1, <1>2, ListedIs DEF Current
<1>4. a.utxo = w /\ a.pegouts = P \cup B /\ a.mempool = m /\ a.spent = SpentBy(m) /\ a.chain = Append(s.chain, b)
  BY <1>1, <1>2, AppliedParts
<1>5. PICK new : Stage(U, T, n, F, new, w)
  <2>1. Resolved(s, b).missing = {} /\ IsInjective(b.txs)
    BY ResolvedIs DEF BlockBalanced, Sane
  <2>2. Once(s.utxo, P, T, n) /\ b.h = n
    BY <1>1, <1>3
  <2>3. \E new : Stage(s.utxo, T, n, Range(b.txs), new, CoinsAfter(s, b))
    BY <1>3, <2>1, <2>2, BlockStage
  <2> QED
    BY <1>1, <2>3
<1>6. b.txs \in Seq(TxIds)
  BY DEF Block
<1>7. F \subseteq TxIds
  BY <1>1, <1>6 DEF Range
<1>8. \A r \in B : r.op[1] = "tx" /\ r.op[2] \in F
  BY <1>1 DEF BurnsOf, Burnt, Range
<1>9. Once(w, P \cup B, T \cup F, n + 1)
  BY <1>3, <1>5, <1>7, <1>8, OnceOn
<1>10. Len(a.chain) = n + 1 /\ a.chain[n + 1] = b /\ \A i \in 1 .. n : a.chain[i] = s.chain[i]
  BY <1>1, <1>2, <1>4, ListedAppend
<1>11. Included(a.chain) = T \cup F
  <2>1. PICK p, q : p = a.chain /\ q = s.chain
    OBVIOUS
  <2>2. Len(p) = n + 1 /\ p[n + 1] = b /\ (\A i \in 1 .. n : p[i] = q[i]) /\ Len(q) = n
    BY <1>1, <1>10, <2>1
  <2>3. 1 .. n + 1 = (1 .. n) \cup {n + 1}
    BY <1>3
  <2>4. {Range(p[i].txs) : i \in 1 .. n + 1} = {Range(q[i].txs) : i \in 1 .. n} \cup {F}
    BY ONLY <1>1, <2>2, <2>3
  <2>5. PICK X, Y : X = {Range(p[i].txs) : i \in 1 .. n + 1} /\ Y = {Range(q[i].txs) : i \in 1 .. n}
    OBVIOUS
  <2>6. UNION X = (UNION Y) \cup F
    <3>1. X = Y \cup {F}
      BY <2>4, <2>5
    <3> QED
      BY ONLY <3>1
  <2>7. Included(a.chain) = UNION X /\ T = UNION Y
    BY ONLY <1>1, <2>1, <2>2, <2>5 DEF Included
  <2> QED
    BY <2>6, <2>7
<1>12. PICK some : m = Only(s.mempool, some) /\ some = {t \in TxIds : TxDef[t].ins \subseteq {c.op : c \in w}}
  BY <1>1 DEF PoolLeft
<1>13. Range(m) = Range(s.mempool) \cap some /\ IsInjective(m)
  BY <1>2, <1>3, <1>12, OnlyIn
<1>14. \A t \in Range(m) : TxDef[t].ins \subseteq SpentBy(m) /\ TxDef[t].ins \subseteq {c.op : c \in w}
  BY <1>12, <1>13, SpentByAll
<1>15. Pooled(w, Range(m), SpentBy(m), n + 1)
  <2>1. Range(m) \subseteq Range(s.mempool)
    BY <1>13
  <2> QED
    BY <1>3, <1>5, <1>14, <2>1, PooledOn
<1> QED
  BY ONLY <1>1, <1>4, <1>9, <1>10, <1>11, <1>13, <1>15 DEF Current

LEMMA AppliedOk ==
  ASSUME NEW s, NEW b, StateOk(s), Block(b), b.h = Len(s.chain), BlockBalanced(s, b)
  PROVE  StateOk(Applied(s, b)) /\ Applied(s, b).chain = Append(s.chain, b)
<1>1. StateShape(s) /\ Listed(s.chain) /\ Heights(s.chain) /\ s.mempool \in Seq(TxIds) /\ Supplied(s)
  BY DEF StateOk
<1>2. PICK a, q, n : a = Applied(s, b) /\ q = s.chain /\ n = Len(q)
  OBVIOUS
<1>3. StateShape(a) /\ a.chain = Append(q, b) /\ a.mempool = PoolLeft(s, b)
  BY <1>1, <1>2, AppliedParts
<1>4. Supplied(a) /\ Current(a)
  BY <1>1, <1>2, AppliedSupplied, AppliedCurrent
<1>5. a.mempool \in Seq(TxIds)
  BY <1>1, <1>3, OnlyIn DEF PoolLeft
<1>6. /\ Listed(a.chain) /\ Len(a.chain) = n + 1 /\ a.chain[n + 1] = b /\ \A i \in 1 .. n : a.chain[i] = q[i]
      /\ n \in Nat
  BY <1>1, <1>2, <1>3, ListedIs, ListedAppend
<1>7. Heights(a.chain)
  <2>1. SUFFICES ASSUME NEW i \in 1 .. n + 1 PROVE Block(a.chain[i]) /\ a.chain[i].h = i - 1
    BY <1>6 DEF Heights
  <2>2. CASE i = n + 1
    BY <1>2, <1>6, <2>2
  <2>3. CASE i # n + 1
    <3>1. i \in 1 .. n
      BY <1>6, <2>3
    <3>2. Block(q[i]) /\ q[i].h = i - 1
      BY <1>1, <1>2, <3>1 DEF Heights
    <3> QED
      BY <1>6, <3>1, <3>2
  <2> QED
    BY <2>2, <2>3
<1> QED
  BY <1>2, <1>3, <1>4, <1>5, <1>6, <1>7 DEF StateOk

LEMMA EmptyOk == StateOk(Empty) /\ Empty.chain = <<>> /\ Len(Empty.chain) = 0
<1>1. /\ Empty.chain = <<>> /\ Empty.utxo = {} /\ Empty.claims = {} /\ Empty.pegouts = {} /\ Empty.mempool = <<>>
      /\ StateShape(Empty)
  BY DEF Empty, StateShape
<1>2. Len(Empty.chain) = 0 /\ <<>> \in Seq({}) /\ <<>> \in Seq(TxIds)
  BY <1>1
<1>3. Listed(Empty.chain) /\ Heights(Empty.chain) /\ Empty.mempool \in Seq(TxIds)
  BY <1>1, <1>2 DEF Listed, Heights
<1>4. Priced({}) /\ ValueOf({}) = 0
  BY ValueOfNone
<1>5. Recorded({}, 0)
  BY <1>4 DEF Recorded
<1>6. Supplied(Empty)
  <2>1. Backing(0) = 0
    BY DEF Backing
  <2>2. 0 + 0 <= 0 + 0
    OBVIOUS
  <2> QED
    BY ONLY <1>1, <1>2, <1>4, <1>5, <2>1, <2>2 DEF Supplied
<1>7. Current(Empty)
  <2>1. Included(<<>>) = {}
    BY DEF Included
  <2>2. Range(<<>>) = {} /\ IsInjective(<<>>)
    BY DEF Range, IsInjective
  <2>3. Once({}, {}, {}, 0)
    BY DEF Once
  <2>4. Pooled({}, {}, Empty.spent, 0)
    BY DEF Pooled
  <2> QED
    BY ONLY <1>1, <1>2, <2>1, <2>2, <2>3, <2>4 DEF Current
<1> QED
  BY <1>1, <1>2, <1>3, <1>6, <1>7 DEF StateOk

\* The genesis is balanced: it mints what the pegs say and nothing else.
LEMMA GenesisOuts == SumOut(CoinbaseOuts(Genesis)) = SumFunction(Pegs)
<1>1. PICK K, x, z, o : /\ K = [v : Nat, kind : {"pay"}]
                     /\ x = [i \in DOMAIN Pegs |-> [v |-> Pegs[i], kind |-> "pay"]]
                     /\ z = [i \in {} |-> [v |-> <<>>[i].v, kind |-> "pay"]]
                     /\ o = CoinbaseOuts(Genesis)
  OBVIOUS
<1>2. Genesis.pegs = Pegs /\ Genesis.fee = 0 /\ Genesis.claims = <<>> /\ DOMAIN <<>> = {}
  BY DEF Genesis
<1>3. o = x \o <<>> \o z
  BY <1>1, <1>2 DEF CoinbaseOuts
<1>4. Pegs \in Seq(Nat) /\ DOMAIN Pegs = 1 .. Len(Pegs) /\ Len(Pegs) \in Nat /\ \A i \in DOMAIN Pegs : Pegs[i] \in Nat
  BY RulesAssumption
<1>5. x \in Seq(K) /\ Len(x) = Len(Pegs)
  <2>1. x \in [1 .. Len(Pegs) -> K]
    BY <1>1, <1>4
  <2> QED
    BY <1>4, <2>1, SeqDef
<1>6. z = <<>>
  BY <1>1
<1>7. x \o <<>> \o <<>> = x
  BY <1>5
<1>8. o = x /\ DOMAIN o = DOMAIN Pegs /\ \A i \in DOMAIN Pegs : o[i].v = Pegs[i]
  BY <1>1, <1>3, <1>6, <1>7
<1>9. PICK w : w = [i \in DOMAIN o |-> o[i].v]
  OBVIOUS
<1>10. Alike(w, Pegs, DOMAIN Pegs) /\ IsFiniteSet(DOMAIN Pegs)
  <2>1. \A i \in DOMAIN Pegs : w[i] = Pegs[i]
    BY ONLY <1>8, <1>9
  <2>2. IsFiniteSet(1 .. Len(Pegs))
    BY <1>4, FS_Interval
  <2> QED
    BY ONLY <1>4, <2>1, <2>2 DEF Alike
<1>11. Total(w, DOMAIN Pegs) = Total(Pegs, DOMAIN Pegs)
  BY <1>10, TotalAlike
<1>12. SumOut(o) = Total(w, DOMAIN o) /\ SumFunction(Pegs) = Total(Pegs, DOMAIN Pegs)
  BY <1>9 DEF SumOut, SumFunction, Total
<1> QED
  BY ONLY <1>1, <1>8, <1>11, <1>12

LEMMA GenesisBlock == Block(Genesis) /\ Genesis.h = 0
<1>1. PICK g : g = Genesis
  OBVIOUS
<1>2. g = [h |-> 0, prev |-> <<>>, txs |-> <<>>, fee |-> 0, claims |-> <<>>, pegs |-> Pegs, sealed |-> TRUE]
  BY <1>1 DEF Genesis
<1>3. g.h = 0 /\ g.txs = <<>> /\ g.fee = 0 /\ g.claims = <<>> /\ g.pegs = Pegs /\ g.prev = <<>>
  BY ONLY <1>2
<1>4. g = [h |-> g.h, prev |-> g.prev, txs |-> g.txs, fee |-> g.fee, claims |-> g.claims,
            pegs |-> g.pegs, sealed |-> g.sealed]
  <2>1. g.sealed = TRUE
    BY ONLY <1>2
  <2> QED
    BY ONLY <1>2, <1>3, <2>1
<1>5. Claims(<<>>)
  BY DEF Claims
<1>6. <<>> \in Seq(TxIds) /\ Pegs \in Seq(Nat)
  BY RulesAssumption
<1> QED
  BY ONLY <1>1, <1>3, <1>4, <1>5, <1>6 DEF Block

LEMMA GenesisBalanced == BlockBalanced(Empty, Genesis)
<1>1. Genesis.h = 0 /\ Genesis.txs = <<>> /\ Genesis.claims = <<>>
  BY DEF Genesis
<1>2. PICK q : q = Genesis.txs
  OBVIOUS
<1>3. DOMAIN q = 1 .. 0
  BY <1>1, <1>2
<1>4. PICK v : /\ Runs("resolve", <<Empty, Genesis.h>>, Fresh(Genesis), q, 0, v)
               /\ FoldOf("resolve", <<Empty, Genesis.h>>, Fresh(Genesis), q) = v[0]
  BY <1>3, FoldRuns
<1>5. ResolveSpending(Empty, Genesis) = Fresh(Genesis)
  BY <1>2, <1>4, ResolvedIs DEF Resolved, Runs
<1>6. Sane(Fresh(Genesis)) /\ Fresh(Genesis).fees = 0
  BY DEF Sane, Fresh
<1>7. ClaimsOk(Empty, Genesis) /\ IsInjective(Genesis.txs)
  BY <1>1 DEF ClaimsOk, IsInjective
<1>8. ClaimSum(Genesis) = 0
  <2>1. PICK f : f = [i \in DOMAIN Genesis.claims |-> Genesis.claims[i].v]
    OBVIOUS
  <2>2. DOMAIN f = {}
    BY <1>1, <2>1
  <2>3. ClaimSum(Genesis) = Total(f, {})
    BY <2>1, <2>2 DEF ClaimSum, SumFunction, Total
  <2> QED
    BY <2>3, TotalEmpty
<1>9. SumOut(CoinbaseOuts(Genesis)) <= SumFunction(Pegs) + 0 + 0
  BY GenesisOuts, PegsNatural
<1> QED
  BY ONLY <1>1, <1>5, <1>6, <1>7, <1>8, <1>9 DEF BlockBalanced

LEMMA GenesisApplied == StateOk(Applied(Empty, Genesis)) /\ Applied(Empty, Genesis).chain = <<Genesis>>
<1>1. Applied(Empty, Genesis).chain = Append(Empty.chain, Genesis) /\ StateOk(Applied(Empty, Genesis))
  BY EmptyOk, GenesisBlock, GenesisBalanced, AppliedOk
<1> QED
  BY <1>1, EmptyOk

\* The block a producer makes.
LEMMA FeeNatural ==
  ASSUME NEW s, Priced(s.utxo), NEW t \in TxIds
  PROVE  Fee(s, t) \in Nat
<1>1. PICK found, out : found = UNION {CoinAt(s.utxo, op) : op \in TxDef[t].ins} /\ out = SumOut(TxDef[t].outs)
  OBVIOUS
<1>2. found \subseteq s.utxo
  BY <1>1 DEF CoinAt
<1>3. ValueOf(found) \in Nat
  BY <1>2, ValueOfIs
<1>4. out \in Nat
  BY <1>1, TxValue
<1>5. Fee(s, t) = IF (\A op \in TxDef[t].ins : CoinAt(found, op) # {}) /\ ValueOf(found) >= out
                  THEN ValueOf(found) - out ELSE 0
  BY <1>1 DEF Fee
<1>6. (ValueOf(found) >= out => ValueOf(found) - out \in Nat) /\ 0 \in Nat
  BY <1>3, <1>4
<1> QED
  BY ONLY <1>5, <1>6

FeesOf(s, q) == [i \in DOMAIN q |-> Fee(s, q[i])]

LEMMA FeesNatural ==
  ASSUME NEW s, Priced(s.utxo), NEW q \in Seq(TxIds)
  PROVE  LET f == FeesOf(s, q)
         IN  /\ DOMAIN f = DOMAIN q /\ (\A i \in DOMAIN q : f[i] = Fee(s, q[i]))
             /\ IsFiniteSet(DOMAIN f) /\ Natural(f, DOMAIN f)
<1>1. PICK f : f = FeesOf(s, q)
  OBVIOUS
<1>2. DOMAIN q = 1 .. Len(q) /\ Len(q) \in Nat /\ \A i \in DOMAIN q : q[i] \in TxIds
  OBVIOUS
<1>3. DOMAIN f = DOMAIN q /\ \A i \in DOMAIN q : f[i] = Fee(s, q[i])
  BY <1>1 DEF FeesOf
<1>4. \A t \in TxIds : Fee(s, t) \in Nat
  BY FeeNatural
<1>5. IsFiniteSet(1 .. Len(q))
  BY <1>2, FS_Interval
<1> QED
  BY ONLY <1>1, <1>2, <1>3, <1>4, <1>5 DEF Natural

LEMMA NextBlockIs ==
  ASSUME NEW s, StateOk(s), NEW q \in Seq(TxIds), NEW asked, Claims(asked)
  PROVE  LET b == Sealed(NextBlock(s, q, asked))
         IN  /\ Block(b) /\ b.h = Len(s.chain) /\ b.txs = q /\ b.fee = SumFunction(FeesOf(s, q)) /\ b.claims = asked
             /\ b.pegs = <<>> /\ b.sealed
<1>1. PICK f, h, p : f = FeesOf(s, q) /\ h = Height(s) + 1 /\ p = Hash(Last(s.chain))
  OBVIOUS
<1>2. q \in Seq(TxIds) /\ Priced(s.utxo) /\ Listed(s.chain)
  BY DEF StateOk, Supplied
<1>4. IsFiniteSet(DOMAIN f) /\ Natural(f, DOMAIN f)
  BY <1>1, <1>2, FeesNatural
<1>5. PICK fee : fee = SumFunction(f) /\ fee \in Nat
  <2>1. Total(f, DOMAIN f) \in Nat
    BY <1>4, TotalNatural
  <2> QED
    BY <2>1 DEF SumFunction, Total
<1>6. h = Len(s.chain) /\ h \in Nat
  BY <1>1, <1>2, ListedIs DEF Height
<1>7. PICK m, b : m = NextBlock(s, q, asked) /\ b = Sealed(m)
  OBVIOUS
<1>8. m = [h |-> h, prev |-> p, txs |-> q, fee |-> fee, claims |-> asked, pegs |-> <<>>, sealed |-> FALSE]
  BY <1>1, <1>5, <1>7 DEF NextBlock, FeesOf
<1>9. b = [h |-> h, prev |-> p, txs |-> q, fee |-> fee, claims |-> asked, pegs |-> <<>>, sealed |-> TRUE]
  <2>1. b = [m EXCEPT !.sealed = TRUE]
    BY <1>7 DEF Sealed
  <2> QED
    BY ONLY <1>8, <2>1
<1>10. b.h = h /\ b.prev = p /\ b.txs = q /\ b.fee = fee /\ b.claims = asked /\ b.pegs = <<>> /\ b.sealed = TRUE
  BY ONLY <1>9
<1>11. b = [h |-> b.h, prev |-> b.prev, txs |-> b.txs, fee |-> b.fee, claims |-> b.claims, pegs |-> b.pegs, sealed |-> b.sealed]
  BY ONLY <1>9, <1>10
<1>12. Block(b)
  <2>1. <<>> \in Seq(Nat)
    OBVIOUS
  <2> QED
    BY ONLY <1>2, <1>5, <1>6, <1>10, <1>11, <2>1, Claims(asked) DEF Block
<1> QED
  BY ONLY <1>1, <1>5, <1>6, <1>7, <1>10, <1>12

-----------------------------------------------------------------------------
(* What the index names, and what a start makes of it. *)

\* The entry names, in the file d, the block of its height in the chain q.
GoodEntry(e, d, q) ==
    /\ e.offset \in Nat /\ e.height \in Nat /\ e.offset + 3 <= Len(d) /\ e.height + 1 <= Len(q)
    /\ d[e.offset + 3].b = <<q[e.height + 1]>>
GoodIndex(ix, d, q) == Listed(ix) /\ \A i \in 1 .. Len(ix) : GoodEntry(ix[i], d, q)

LEMMA ReadBlockIs ==
  ASSUME NEW e, NEW q, GoodEntry(e, dat, q), ReadBlock(e) # <<>>
  PROVE  ReadBlock(e) = <<q[e.height + 1]>>
<1>1. ReadBlock(e) = dat[e.offset + 3].b
  BY DEF ReadBlock
<1> QED
  BY <1>1 DEF GoodEntry

\* The state r has the first n blocks of the chain q.
Restored(ix, q, n, r) ==
    /\ StateOk(r) /\ Len(r.chain) = n /\ n <= Len(q)
    /\ \A i \in 1 .. n : r.chain[i] = q[i] /\ ix[i].height = i - 1

LEMMA RestoredOn ==
  ASSUME NEW ix, NEW q, Heights(q), Listed(q), NEW n \in Nat, NEW a, Restored(ix, q, n, a), NEW e, e = ix[n + 1],
         e.height = n, GoodEntry(e, dat, q), BlockBalanced(a, q[n + 1])
  PROVE  Restored(ix, q, n + 1, Applied(a, q[n + 1]))
<1>1. PICK c, r : c = q[n + 1] /\ r = Applied(a, c)
  OBVIOUS
<1>2. StateOk(a) /\ Len(a.chain) = n /\ \A i \in 1 .. n : a.chain[i] = q[i] /\ ix[i].height = i - 1
  BY DEF Restored
<1>3. n + 1 <= Len(q) /\ Len(q) \in Nat
  BY ListedIs DEF GoodEntry
<1>4. Block(c) /\ c.h = n
  <2>1. n + 1 \in 1 .. Len(q)
    BY <1>3
  <2>2. Block(q[n + 1]) /\ q[n + 1].h = (n + 1) - 1
    BY <2>1 DEF Heights
  <2> QED
    BY <1>1, <2>2
<1>5. StateOk(r) /\ r.chain = Append(a.chain, c)
  BY <1>1, <1>2, <1>4, AppliedOk
<1>6. Listed(a.chain)
  BY <1>2 DEF StateOk
<1>7. Len(r.chain) = n + 1 /\ r.chain[n + 1] = c /\ \A i \in 1 .. n : r.chain[i] = a.chain[i]
  BY <1>2, <1>5, <1>6, ListedAppend
<1>8. \A i \in 1 .. n + 1 : r.chain[i] = q[i] /\ ix[i].height = i - 1
  <2>1. \A i \in 1 .. n + 1 : i \in 1 .. n \/ i = n + 1
    OBVIOUS
  <2>2. ix[n + 1].height = (n + 1) - 1
    OBVIOUS
  <2> QED
    BY ONLY <1>1, <1>2, <1>7, <2>1, <2>2
<1> QED
  BY <1>1, <1>3, <1>5, <1>7, <1>8 DEF Restored

LEMMA ReplayEntryOn ==
  ASSUME NEW ix, NEW q, Heights(q), Listed(q), NEW n \in Nat, NEW a, Restored(ix, q, n, a),
         GoodEntry(ix[n + 1], dat, q), ReplayEntry(<<a>>, ix[n + 1]) # <<>>
  PROVE  /\ Restored(ix, q, n + 1, Applied(a, q[n + 1]))
         /\ ReplayEntry(<<a>>, ix[n + 1]) = <<Applied(a, q[n + 1])>>
<1>1. PICK e, got : e = ix[n + 1] /\ got = ReadBlock(e)
  OBVIOUS
<1>2. ReplayEntry(<<a>>, e) = (IF <<a>> = <<>> \/ got = <<>> THEN <<>>
        ELSE IF Follows(a, e.height, got[1]) /\ Judge(a, got[1]) /\ Hash(got[1]) = e.hash
             THEN <<Applied(a, got[1])>> ELSE <<>>)
  <2>1. <<a>>[1] = a
    OBVIOUS
  <2> QED
    BY <1>1, <2>1 DEF ReplayEntry
<1>3. /\ got # <<>> /\ Follows(a, e.height, got[1]) /\ Judge(a, got[1])
      /\ ReplayEntry(<<a>>, e) = <<Applied(a, got[1])>>
  BY <1>1, <1>2
<1>4. got = <<q[e.height + 1]>>
  BY <1>1, <1>3, ReadBlockIs
<1>5. Len(a.chain) = n
  BY DEF Restored
<1>6. e.height = n
  <2>1. e.height = Height(a) + 1
    BY <1>3 DEF Follows
  <2> QED
    BY <1>5, <2>1 DEF Height
<1>7. got[1] = q[n + 1]
  BY <1>4, <1>6
<1>8. BlockBalanced(a, q[n + 1])
  BY <1>3, <1>7, JudgeBalances
<1>9. Restored(ix, q, n + 1, Applied(a, q[n + 1]))
  BY <1>1, <1>6, <1>8, RestoredOn
<1> QED
  BY <1>1, <1>3, <1>7, <1>9

\* What has been replayed after k entries of the tail: nothing, or that many blocks.
Replaying(ix, q, v, k) == v[k] = <<>> \/ \E r : v[k] = <<r>> /\ Restored(ix, q, k + 1, r)

LEMMA ReplayRestores ==
  ASSUME NEW ix, NEW q, Heights(q), Listed(q), GoodIndex(ix, dat, q), Replay(ix) # <<>>
  PROVE  \E r : Replay(ix) = <<r>> /\ Restored(ix, q, Len(ix), r)
<1>1. Listed(ix) /\ \A i \in 1 .. Len(ix) : GoodEntry(ix[i], dat, q)
  BY DEF GoodIndex
<1>2. PICK e, got, m : e = Head(ix) /\ got = ReadBlock(Head(ix)) /\ m = Len(ix)
  OBVIOUS
<1>3. Replay(ix) = (IF ix = <<>> \/ e.height # 0 THEN <<>>
                    ELSE IF got = <<>> THEN <<>>
                    ELSE IF GenesisOk(got[1]) /\ Hash(got[1]) = e.hash
                         THEN FoldLeft(ReplayEntry, <<Applied(Empty, got[1])>>, Tail(ix)) ELSE <<>>)
  BY <1>2 DEF Replay
<1>4. /\ ix # <<>> /\ e.height = 0 /\ got # <<>> /\ GenesisOk(got[1])
      /\ Replay(ix) = FoldLeft(ReplayEntry, <<Applied(Empty, got[1])>>, Tail(ix))
  BY <1>3
<1>5. PICK S : ix \in Seq(S)
  BY <1>1 DEF Listed
<1>6. /\ m \in Nat /\ m # 0 /\ e = ix[1] /\ Len(Tail(ix)) = m - 1 /\ DOMAIN Tail(ix) = 1 .. m - 1
      /\ \A k \in 1 .. m - 1 : Tail(ix)[k] = ix[k + 1]
  BY ONLY <1>2, <1>4, <1>5
<1>7. PICK t, n : t = Tail(ix) /\ n = m - 1
  OBVIOUS
<1>8. n \in Nat /\ DOMAIN t = 1 .. n /\ \A k \in 1 .. n : t[k] = ix[k + 1]
  BY ONLY <1>6, <1>7
<1>9. GoodEntry(e, dat, q)
  <2>1. 1 \in 1 .. Len(ix)
    BY <1>2, <1>6
  <2> QED
    BY <1>1, <1>6, <2>1
<1>10. got[1] = q[1]
  <2>1. got = <<q[e.height + 1]>>
    BY <1>2, <1>4, <1>9, ReadBlockIs
  <2> QED
    BY <1>4, <2>1
<1>11. Restored(ix, q, 1, Applied(Empty, q[1]))
  <2>1. BlockBalanced(Empty, q[1])
    BY <1>4, <1>10, JudgeBalances DEF GenesisOk
  <2>2. Restored(ix, q, 0, Empty)
    <3>1. Len(q) \in Nat
      BY ListedIs
    <3> QED
      BY <3>1, EmptyOk DEF Restored
  <2>3. e = ix[0 + 1] /\ e.height = 0 /\ BlockBalanced(Empty, q[0 + 1]) /\ 0 \in Nat
    BY <1>4, <1>6, <2>1
  <2>4. Restored(ix, q, 0 + 1, Applied(Empty, q[0 + 1]))
    BY <1>9, <2>2, <2>3, RestoredOn
  <2> QED
    BY <2>4
<1>12. PICK base : base = <<Applied(Empty, q[1])>>
  OBVIOUS
<1>13. Replay(ix) = FoldOf("replay", 0, base, t)
  BY <1>4, <1>7, <1>10, <1>12, ReplayFold
<1>14. PICK v : Runs("replay", 0, base, t, n, v) /\ FoldOf("replay", 0, base, t) = v[n]
  BY <1>8, FoldRuns
<1>15. v[0] = base /\ \A k \in 1 .. n : v[k] = ReplayEntry(v[k - 1], t[k])
  <2>1. v[0] = base /\ \A k \in 1 .. n : v[k] = Step("replay", 0, v[k - 1], t[k])
    BY <1>14 DEF Runs
  <2>2. \A a, x : Step("replay", 0, a, x) = ReplayEntry(a, x)
    BY DEF Step
  <2> QED
    BY <2>1, <2>2
<1> DEFINE T == {k \in 0 .. n : ~Replaying(ix, q, v, k)}
<1>16. ASSUME T # {} PROVE FALSE
  <2>1. T \subseteq Nat
    BY <1>8
  <2>2. PICK k \in T : \A y \in T : ~(y < k)
    <3> HIDE DEF T
    <3> QED
      BY <1>16, <2>1, LeastNat
  <2>3. k \in 0 .. n /\ ~Replaying(ix, q, v, k)
    BY <2>2
  <2>4. k # 0
    <3>1. Replaying(ix, q, v, 0)
      BY <1>11, <1>12, <1>15 DEF Replaying
    <3> QED
      BY <2>3, <3>1
  <2>5. k \in 1 .. n /\ k - 1 \in 0 .. n /\ k - 1 < k /\ k \in Nat /\ (k - 1) + 1 = k
    BY <1>8, <2>3, <2>4
  <2>6. Replaying(ix, q, v, k - 1)
    BY <2>2, <2>5
  <2> HIDE DEF T
  <2>7. v[k] = ReplayEntry(v[k - 1], ix[k + 1])
    BY <1>8, <1>15, <2>5
  <2>8. v[k] # <<>>
    BY <2>3 DEF Replaying
  <2>9. v[k - 1] # <<>>
    <3>1. ReplayEntry(<<>>, ix[k + 1]) = <<>>
      BY DEF ReplayEntry
    <3> QED
      BY <2>7, <2>8, <3>1
  <2>10. PICK a : v[k - 1] = <<a>> /\ Restored(ix, q, k, a)
    BY <2>5, <2>6, <2>9 DEF Replaying
  <2>11. GoodEntry(ix[k + 1], dat, q)
    <3>1. k + 1 \in 1 .. Len(ix)
      BY <1>2, <1>6, <1>7, <2>5
    <3> QED
      BY <1>1, <3>1
  <2>12. Restored(ix, q, k + 1, Applied(a, q[k + 1])) /\ v[k] = <<Applied(a, q[k + 1])>>
    BY <2>5, <2>7, <2>8, <2>10, <2>11, ReplayEntryOn
  <2> QED
    BY <2>3, <2>12 DEF Replaying
<1>17. Replaying(ix, q, v, n)
  <2>1. n \notin T /\ n \in 0 .. n
    BY <1>8, <1>16
  <2> QED
    BY <2>1
<1> HIDE DEF T
<1>18. v[n] # <<>> /\ n + 1 = Len(ix) /\ v[n] = Replay(ix)
  BY <1>2, <1>6, <1>7, <1>13, <1>14
<1> QED
  BY <1>17, <1>18 DEF Replaying

-----------------------------------------------------------------------------
(* Writing a block down. *)

\* The elements of x are in y from the n-th on.
Follow(y, n, x) == \A i \in 1 .. Len(x) : y[n + i] = x[i]

LEMMA ListedConcat ==
  ASSUME NEW d, NEW x, Listed(d), Listed(x)
  PROVE  /\ Listed(d \o x) /\ Len(d \o x) = Len(d) + Len(x)
         /\ \A i \in 1 .. Len(d) : (d \o x)[i] = d[i]
         /\ Follow(d \o x, Len(d), x)
<1>1. PICK S, R : d \in Seq(S) /\ x \in Seq(R)
  BY DEF Listed
<1>2. PICK K : K = S \cup R
  OBVIOUS
<1>3. d \in Seq(K) /\ x \in Seq(K)
  <2>1. S \subseteq K /\ R \subseteq K
    BY <1>2
  <2> QED
    BY <1>1, <2>1
<1>4. /\ d \o x \in Seq(K) /\ Len(d \o x) = Len(d) + Len(x)
      /\ \A i \in 1 .. Len(d) : (d \o x)[i] = d[i]
      /\ \A i \in 1 .. Len(x) : (d \o x)[Len(d) + i] = x[i]
  BY ONLY <1>3
<1> QED
  BY <1>4 DEF Listed, Follow

LEMMA GoodOn ==
  ASSUME NEW e, NEW d, NEW x, NEW q, NEW b, Listed(d), Listed(x), Listed(q), GoodEntry(e, d, q)
  PROVE  GoodEntry(e, d \o x, Append(q, b))
<1>1. PICK y, p : y = d \o x /\ p = Append(q, b)
  OBVIOUS
<1>2. /\ e.offset \in Nat /\ e.height \in Nat /\ e.offset + 3 <= Len(d) /\ e.height + 1 <= Len(q)
      /\ d[e.offset + 3].b = <<q[e.height + 1]>>
  BY DEF GoodEntry
<1>3. Len(y) = Len(d) + Len(x) /\ \A i \in 1 .. Len(d) : y[i] = d[i]
  BY <1>1, ListedConcat
<1>4. Len(p) = Len(q) + 1 /\ \A i \in 1 .. Len(q) : p[i] = q[i]
  BY <1>1, ListedAppend
<1>5. Len(d) \in Nat /\ Len(x) \in Nat /\ Len(q) \in Nat
  BY ListedIs
<1>6. /\ e.offset + 3 \in 1 .. Len(d) /\ e.height + 1 \in 1 .. Len(q)
      /\ e.offset + 3 <= Len(y) /\ e.height + 1 <= Len(p)
  <2>1. e.offset \in Nat /\ e.height \in Nat /\ e.offset + 3 <= Len(d) /\ e.height + 1 <= Len(q)
    BY <1>2
  <2>2. Len(y) = Len(d) + Len(x) /\ Len(p) = Len(q) + 1
    BY <1>3, <1>4
  <2>3. PICK i, j, ld, lx, lq : i = e.offset /\ j = e.height /\ ld = Len(d) /\ lx = Len(x) /\ lq = Len(q)
    OBVIOUS
  <2>4. /\ i \in Nat /\ j \in Nat /\ ld \in Nat /\ lx \in Nat /\ lq \in Nat /\ i + 3 <= ld /\ j + 1 <= lq
    BY <1>5, <2>1, <2>3
  <2>5. i + 3 \in 1 .. ld /\ j + 1 \in 1 .. lq /\ i + 3 <= ld + lx /\ j + 1 <= lq + 1
    BY ONLY <2>4
  <2> QED
    BY <2>2, <2>3, <2>5
<1>7. y[e.offset + 3].b = <<p[e.height + 1]>>
  BY ONLY <1>2, <1>3, <1>4, <1>6
<1> QED
  BY ONLY <1>1, <1>2, <1>6, <1>7 DEF GoodEntry

LEMMA GoodIndexOn ==
  ASSUME NEW ix, NEW d, NEW x, NEW q, NEW b, Listed(d), Listed(x), Listed(q), GoodIndex(ix, d, q)
  PROVE  GoodIndex(ix, d \o x, Append(q, b))
  BY GoodOn DEF GoodIndex

LEMMA RecordIs ==
  ASSUME NEW b
  PROVE  /\ Listed(Record(b)) /\ Len(Record(b)) = 3 /\ Record(b)[3].b = <<b>>
         /\ \A n \in 0 .. 2 : Listed(SubSeq(Record(b), 1, n))
<1>1. PICK x, y, z : /\ x = [k |-> "height", h |-> b.h, b |-> <<>>] /\ y = [k |-> "size", h |-> 1, b |-> <<>>]
                     /\ z = [k |-> "bytes", h |-> 0, b |-> <<b>>]
  OBVIOUS
<1>2. PICK r, S : r = Record(b) /\ S = {x, y, z}
  OBVIOUS
<1>3. r = <<x, y, z>>
  BY <1>1, <1>2 DEF Record
<1>4. r \in Seq(S) /\ Len(r) = 3 /\ r[3] = z
  BY ONLY <1>2, <1>3
<1>5. \A n \in 0 .. 2 : SubSeq(r, 1, n) \in Seq(S)
  BY ONLY <1>4
<1>6. r[3].b = <<b>>
  BY <1>1, <1>4
<1> QED
  BY <1>2, <1>4, <1>5, <1>6 DEF Listed

LEMMA EntryGood ==
  ASSUME NEW d, NEW q, NEW b, Listed(d), Listed(q), NEW e, e.offset = Len(d), e.height = Len(q)
  PROVE  GoodEntry(e, d \o Record(b), Append(q, b))
<1>1. PICK rec, y, p : rec = Record(b) /\ y = d \o rec /\ p = Append(q, b)
  OBVIOUS
<1>2. Listed(rec) /\ Len(rec) = 3 /\ rec[3].b = <<b>>
  BY <1>1, RecordIs
<1>3. Len(d) \in Nat /\ Len(q) \in Nat
  BY ListedIs
<1>4. Len(y) = Len(d) + Len(rec) /\ Follow(y, Len(d), rec)
  BY <1>1, <1>2, ListedConcat
<1>5. Len(y) = Len(d) + 3 /\ y[Len(d) + 3] = rec[3]
  <2>1. 3 \in 1 .. Len(rec)
    BY <1>2
  <2> QED
    BY ONLY <1>2, <1>4, <2>1 DEF Follow
<1>6. Len(p) = Len(q) + 1 /\ p[Len(q) + 1] = b
  BY <1>1, ListedAppend
<1>7. e.offset + 3 <= Len(y) /\ e.height + 1 <= Len(p) /\ e.offset \in Nat /\ e.height \in Nat
  BY ONLY <1>3, <1>5, <1>6, e.offset = Len(d), e.height = Len(q)
<1>8. y[e.offset + 3].b = <<p[e.height + 1]>>
  BY ONLY <1>2, <1>5, <1>6, e.offset = Len(d), e.height = Len(q)
<1> QED
  BY ONLY <1>1, <1>7, <1>8 DEF GoodEntry

LEMMA PushedGood ==
  ASSUME NEW ix, NEW q, NEW b, Listed(dat), Listed(q), GoodIndex(ix, dat, q), b.h = Len(q)
  PROVE  GoodIndex(Append(ix, Entry(b)), dat \o Record(b), Append(q, b))
<1>1. PICK e, y, p, jx, n : /\ e = Entry(b) /\ y = dat \o Record(b) /\ p = Append(q, b) /\ jx = Append(ix, Entry(b))
                            /\ n = Len(ix)
  OBVIOUS
<1>2. Listed(ix) /\ \A i \in 1 .. n : GoodEntry(ix[i], dat, q)
  BY <1>1 DEF GoodIndex
<1>3. Listed(jx) /\ Len(jx) = n + 1 /\ jx[n + 1] = e /\ (\A i \in 1 .. n : jx[i] = ix[i]) /\ n \in Nat
  BY <1>1, <1>2, ListedAppend, ListedIs
<1>4. \A i \in 1 .. n : GoodEntry(ix[i], y, p)
  BY <1>1, <1>2, GoodOn, RecordIs
<1>5. GoodEntry(e, y, p)
  <2>1. e.offset = Len(dat) /\ e.height = Len(q)
    BY <1>1 DEF Entry
  <2> QED
    BY <1>1, <2>1, EntryGood
<1>6. \A i \in 1 .. n + 1 : GoodEntry(jx[i], y, p)
  <2>1. \A i \in 1 .. n + 1 : i \in 1 .. n \/ i = n + 1
    BY <1>3
  <2> QED
    BY ONLY <1>3, <1>4, <1>5, <2>1
<1> QED
  BY ONLY <1>1, <1>3, <1>6 DEF GoodIndex

\* Every way a write can end.
WriteEnds(w, b, ix) ==
    \/ \E x : Listed(x) /\ w.dat = dat \o x /\ w.index = ix /\ w.json = json
    \/ /\ w.dat = dat \o Record(b) /\ w.index = Append(ix, Entry(b))
       /\ \/ w.json = json
          \/ w.json = [st |-> "torn", blocks |-> <<>>]
          \/ w.json = [st |-> "ok", blocks |-> Append(ix, Entry(b))]

LEMMA WritesEnd ==
  ASSUME NEW b, NEW ix, NEW w \in Writes(b, ix)
  PROVE  WriteEnds(w, b, ix)
<1>1. PICK rec, pushed, full, torn : /\ rec = Record(b) /\ pushed = Append(ix, Entry(b))
                                     /\ full = [st |-> "ok", blocks |-> pushed] /\ torn = [st |-> "torn", blocks |-> <<>>]
  OBVIOUS
<1> DEFINE A == {[dat |-> dat \o rec, index |-> pushed, json |-> full, ok |-> TRUE, alive |-> TRUE]}
           B == {[dat |-> dat \o SubSeq(rec, 1, n), index |-> ix, json |-> json, ok |-> FALSE, alive |-> a] :
                    n \in 0 .. 2, a \in BOOLEAN}
           C == {[dat |-> dat \o rec, index |-> pushed, json |-> j, ok |-> FALSE, alive |-> a] :
                    j \in {json, torn}, a \in BOOLEAN}
           D == {[dat |-> dat \o rec, index |-> pushed, json |-> full, ok |-> FALSE, alive |-> FALSE]}
<1>6. Writes(b, ix) = A \cup (IF faults = MaxFaults THEN {} ELSE B \cup C \cup D)
  BY <1>1 DEF Writes
<1>7. w \in A \/ w \in B \/ w \in C \/ w \in D
  <2> HIDE DEF A, B, C, D
  <2> QED
    BY <1>6
<1>2. \A n \in 0 .. 2 : Listed(SubSeq(rec, 1, n))
  BY <1>1, RecordIs
<1>3. CASE w \in A \/ w \in D
  <2>1. w.dat = dat \o rec /\ w.index = pushed /\ w.json = full
    BY ONLY <1>3
  <2> QED
    BY ONLY <1>1, <2>1 DEF WriteEnds
<1>4. CASE w \in B
  <2>1. PICK n \in 0 .. 2, a \in BOOLEAN :
          w = [dat |-> dat \o SubSeq(rec, 1, n), index |-> ix, json |-> json, ok |-> FALSE, alive |-> a]
    BY ONLY <1>4
  <2>2. w.dat = dat \o SubSeq(rec, 1, n) /\ w.index = ix /\ w.json = json
    BY ONLY <2>1
  <2> QED
    BY ONLY <1>2, <2>1, <2>2 DEF WriteEnds
<1>5. CASE w \in C
  <2>1. PICK j \in {json, torn}, a \in BOOLEAN :
          w = [dat |-> dat \o rec, index |-> pushed, json |-> j, ok |-> FALSE, alive |-> a]
    BY ONLY <1>5
  <2>2. w.dat = dat \o rec /\ w.index = pushed /\ (w.json = json \/ w.json = torn)
    BY ONLY <2>1
  <2> QED
    BY ONLY <1>1, <2>2 DEF WriteEnds
<1> HIDE DEF A, B, C, D
<1> QED
  BY ONLY <1>3, <1>4, <1>5, <1>7

LEMMA WritesGood ==
  ASSUME NEW b, NEW ix, NEW w \in Writes(b, ix), NEW q, Listed(dat), Listed(q), GoodIndex(ix, dat, q),
         json.st = "ok" => GoodIndex(json.blocks, dat, q), b.h = Len(q)
  PROVE  /\ Listed(w.dat) /\ GoodIndex(w.index, w.dat, Append(q, b))
         /\ w.json.st = "ok" => GoodIndex(w.json.blocks, w.dat, Append(q, b))
<1>1. WriteEnds(w, b, ix)
  BY WritesEnd
<1>2. ASSUME NEW x, Listed(x)
      PROVE  /\ Listed(dat \o x) /\ GoodIndex(ix, dat \o x, Append(q, b))
             /\ json.st = "ok" => GoodIndex(json.blocks, dat \o x, Append(q, b))
  BY <1>2, ListedConcat, GoodIndexOn
<1>3. CASE \E x : Listed(x) /\ w.dat = dat \o x /\ w.index = ix /\ w.json = json
  BY <1>2, <1>3
<1>4. CASE /\ w.dat = dat \o Record(b) /\ w.index = Append(ix, Entry(b))
           /\ \/ w.json = json
              \/ w.json = [st |-> "torn", blocks |-> <<>>]
              \/ w.json = [st |-> "ok", blocks |-> Append(ix, Entry(b))]
  <2>1. Listed(Record(b))
    BY RecordIs
  <2>2. GoodIndex(Append(ix, Entry(b)), dat \o Record(b), Append(q, b))
    BY PushedGood
  <2>3. [st |-> "torn", blocks |-> <<>>].st # "ok"
    OBVIOUS
  <2>4. [st |-> "ok", blocks |-> Append(ix, Entry(b))].blocks = Append(ix, Entry(b))
    OBVIOUS
  <2> QED
    BY <1>2, <1>4, <2>1, <2>2, <2>3, <2>4
<1> QED
  BY <1>1, <1>3, <1>4 DEF WriteEnds

-----------------------------------------------------------------------------
(* The store. *)

StoreInv ==
    /\ StateOk(state) /\ Listed(dat) /\ GoodIndex(index, dat, state.chain)
    /\ json.st = "ok" => GoodIndex(json.blocks, dat, state.chain)

LEMMA WriteDownOk ==
  ASSUME StoreInv, NEW s, NEW b, StateOk(s), s.chain = Append(state.chain, b), b.h = Len(state.chain), WriteDown(s, b)
  PROVE  StoreInv'
<1>1. PICK w \in Writes(b, index) : dat' = w.dat /\ index' = w.index /\ json' = w.json /\ state' = s
  BY DEF WriteDown
<1>2. PICK q : q = state.chain
  OBVIOUS
<1>3. Listed(q) /\ Listed(dat) /\ GoodIndex(index, dat, q) /\ (json.st = "ok" => GoodIndex(json.blocks, dat, q))
  BY <1>2 DEF StoreInv, StateOk
<1>4. /\ Listed(w.dat) /\ GoodIndex(w.index, w.dat, Append(q, b))
      /\ w.json.st = "ok" => GoodIndex(w.json.blocks, w.dat, Append(q, b))
  BY <1>2, <1>3, WritesGood
<1> QED
  BY ONLY <1>1, <1>2, <1>4, StateOk(s), s.chain = Append(state.chain, b) DEF StoreInv

LEMMA GoodEmpty ==
  ASSUME NEW d, NEW q
  PROVE  GoodIndex(<<>>, d, q)
<1>1. <<>> \in Seq({}) /\ Len(<<>>) = 0
  OBVIOUS
<1> QED
  BY <1>1 DEF GoodIndex, Listed

LEMMA StoreInitOk ==
  ASSUME StoreInit
  PROVE  StoreInv
<1>1. state = Empty /\ index = <<>> /\ dat = <<>> /\ json.st = "none"
  BY DEF StoreInit
<1>2. Listed(<<>>)
  <2>1. <<>> \in Seq({})
    OBVIOUS
  <2> QED
    BY <2>1 DEF Listed
<1> QED
  BY <1>1, <1>2, EmptyOk, GoodEmpty DEF StoreInv

LEMMA OpenNewOk ==
  ASSUME StoreInv, OpenNew
  PROVE  StoreInv'
<1>1. PICK w \in Writes(Genesis, <<>>) : /\ dat' = w.dat /\ json' = w.json /\ (index' = w.index \/ index' = <<>>)
                                         /\ state' = Applied(Empty, Genesis)
  BY DEF OpenNew
<1>2. PICK q : q = <<>>
  OBVIOUS
<1>3. Listed(q) /\ Listed(dat) /\ GoodIndex(<<>>, dat, q) /\ json.st # "ok" /\ Genesis.h = Len(q)
  <2>1. q \in Seq({}) /\ Len(q) = 0
    BY <1>2
  <2>2. json.st # "ok"
    BY DEF OpenNew
  <2> QED
    BY <2>1, <2>2, GoodEmpty, GenesisBlock DEF StoreInv, Listed
<1>4. /\ Listed(w.dat) /\ GoodIndex(w.index, w.dat, Append(q, Genesis))
      /\ w.json.st = "ok" => GoodIndex(w.json.blocks, w.dat, Append(q, Genesis))
  BY <1>3, WritesGood
<1>5. Append(q, Genesis) = <<Genesis>>
  BY <1>2
<1>6. StateOk(state') /\ state'.chain = <<Genesis>>
  BY <1>1, GenesisApplied
<1>7. GoodIndex(<<>>, w.dat, <<Genesis>>)
  BY GoodEmpty
<1> QED
  BY ONLY <1>1, <1>4, <1>5, <1>6, <1>7 DEF StoreInv

LEMMA RestoredGood ==
  ASSUME NEW ix, NEW d, NEW q, GoodIndex(ix, d, q), NEW r, Restored(ix, q, Len(ix), r)
  PROVE  GoodIndex(ix, d, r.chain)
<1>1. PICK n, p : n = Len(ix) /\ p = r.chain
  OBVIOUS
<1>2. Listed(ix) /\ \A i \in 1 .. n : GoodEntry(ix[i], d, q)
  BY <1>1 DEF GoodIndex
<1>3. n \in Nat
  BY <1>1, <1>2, ListedIs
<1>4. Len(p) = n /\ \A i \in 1 .. n : p[i] = q[i] /\ ix[i].height = i - 1
  BY <1>1 DEF Restored
<1>5. ASSUME NEW i \in 1 .. n PROVE GoodEntry(ix[i], d, p)
  <2>1. PICK e : e = ix[i]
    OBVIOUS
  <2>2. /\ e.offset \in Nat /\ e.height \in Nat /\ e.offset + 3 <= Len(d)
        /\ d[e.offset + 3].b = <<q[e.height + 1]>>
    BY <1>2, <2>1 DEF GoodEntry
  <2>3. e.height = i - 1 /\ p[i] = q[i]
    BY <1>4, <2>1
  <2>4. e.height + 1 = i /\ i <= n
    BY <1>3, <2>3
  <2> QED
    BY ONLY <1>4, <2>1, <2>2, <2>3, <2>4 DEF GoodEntry
<1> QED
  BY <1>1, <1>2, <1>5 DEF GoodIndex

LEMMA OpenReplayOk ==
  ASSUME StoreInv, OpenReplay
  PROVE  StoreInv'
<1>1. json.st = "ok" /\ Replay(json.blocks) # <<>> /\ state' = Replay(json.blocks)[1] /\ index' = json.blocks
  BY DEF OpenReplay
<1>2. dat' = dat /\ json' = json
  BY DEF OpenReplay
<1>3. PICK ix, q : ix = json.blocks /\ q = state.chain
  OBVIOUS
<1>4. Heights(q) /\ Listed(q) /\ GoodIndex(ix, dat, q) /\ Listed(dat)
  BY <1>1, <1>3 DEF StoreInv, StateOk
<1>5. PICK r : Replay(ix) = <<r>> /\ Restored(ix, q, Len(ix), r)
  BY <1>1, <1>3, <1>4, ReplayRestores
<1>6. GoodIndex(ix, dat, r.chain)
  BY <1>4, <1>5, RestoredGood
<1>7. state' = r
  BY <1>1, <1>3, <1>5
<1>8. StateOk(r)
  BY <1>5 DEF Restored
<1> QED
  BY ONLY <1>1, <1>2, <1>3, <1>4, <1>6, <1>7, <1>8 DEF StoreInv

LEMMA BesideKeeps ==
  ASSUME StoreInv, Beside(state, state'), UNCHANGED <<index, dat, json>>
  PROVE  StoreInv'
  BY DEF StoreInv, Beside

LEMMA ClaimsTyped ==
  ASSUME NEW asked \in ClaimLists \cup ClaimRequests
  PROVE  Claims(asked)
  BY StoreAssumption DEF Claims

LEMMA ForeignBlock ==
  ASSUME StateOk(state), NEW b \in Foreign, Follows(state, b.h, b)
  PROVE  Block(b) /\ b.h = Len(state.chain)
<1>1. PICK p : p = Hash(Last(state.chain))
  OBVIOUS
<1>2. PICK d \in {1, 2}, txs \in BlockTxs, fee \in BlockFees, asked \in ClaimLists, seal \in BOOLEAN :
        b = [h |-> Height(state) + d, prev |-> p, txs |-> txs, fee |-> fee, claims |-> asked, pegs |-> <<>>, sealed |-> seal]
  BY <1>1 DEF Foreign
<1>3. PICK h : h = Height(state) + d
  OBVIOUS
<1>4. b = [h |-> h, prev |-> p, txs |-> txs, fee |-> fee, claims |-> asked, pegs |-> <<>>, sealed |-> seal]
  BY <1>2, <1>3
<1>5. b.h = h /\ b.prev = p /\ b.txs = txs /\ b.fee = fee /\ b.claims = asked /\ b.pegs = <<>> /\ b.sealed = seal
  BY ONLY <1>4
<1>6. b = [h |-> b.h, prev |-> b.prev, txs |-> b.txs, fee |-> b.fee, claims |-> b.claims, pegs |-> b.pegs, sealed |-> b.sealed]
  BY ONLY <1>4, <1>5
<1>7. Len(state.chain) \in Nat
  BY ListedIs DEF StateOk
<1>8. b.h = Len(state.chain)
  <2>1. b.h = Height(state) + 1
    BY DEF Follows
  <2> QED
    BY <1>7, <2>1 DEF Height
<1>9. txs \in Seq(TxIds) /\ fee \in Nat /\ Claims(asked) /\ <<>> \in Seq(Nat)
  BY <1>2, StoreAssumption, ClaimsTyped
<1> QED
  BY ONLY <1>5, <1>6, <1>7, <1>8, <1>9 DEF Block

LEMMA AddBlockOk ==
  ASSUME StoreInv, NEW b \in Foreign, AddBlock(b)
  PROVE  StoreInv'
<1>1. Follows(state, b.h, b) /\ Judge(state, b) /\ WriteDown(Applied(state, b), b)
  BY DEF AddBlock
<1>2. StateOk(state)
  BY DEF StoreInv
<1>3. Block(b) /\ b.h = Len(state.chain)
  BY <1>1, <1>2, ForeignBlock
<1>4. BlockBalanced(state, b)
  BY <1>1, JudgeBalances
<1>5. StateOk(Applied(state, b)) /\ Applied(state, b).chain = Append(state.chain, b)
  BY <1>2, <1>3, <1>4, AppliedOk
<1> QED
  BY <1>1, <1>3, <1>5, WriteDownOk

\* A block made of the mempool of a state beside this one, judged and written down.
LEMMA ProducedOk ==
  ASSUME StoreInv, NEW asked \in ClaimRequests, NEW s, Beside(state, s), NEW b, b = Sealed(NextBlock(s, s.mempool, asked)),
         Judge(s, b), WriteDown(Applied(s, b), b)
  PROVE  StoreInv'
<1>1. StateOk(s) /\ s.chain = state.chain
  BY DEF Beside
<1>2. Block(b) /\ b.h = Len(s.chain)
  <2>1. s.mempool \in Seq(TxIds) /\ Claims(asked)
    BY <1>1, ClaimsTyped DEF StateOk
  <2> QED
    BY <1>1, <2>1, NextBlockIs
<1>3. BlockBalanced(s, b)
  BY JudgeBalances
<1>4. StateOk(Applied(s, b)) /\ Applied(s, b).chain = Append(s.chain, b)
  BY <1>1, <1>2, <1>3, AppliedOk
<1> QED
  BY <1>1, <1>2, <1>4, WriteDownOk

LEMMA ProduceAtOnceOk ==
  ASSUME StoreInv, NEW asked \in ClaimRequests, NEW clock \in BOOLEAN, ProduceAtOnce(asked, clock)
  PROVE  StoreInv'
<1>1. PICK b : b = Sealed(NextBlock(state, state.mempool, asked)) /\ Judge(state, b) /\ WriteDown(Applied(state, b), b)
  BY DEF ProduceAtOnce
<1>2. Beside(state, state)
  BY DEF StoreInv, Beside
<1> QED
  BY <1>1, <1>2, ProducedOk

LEMMA ProduceEvictingOk ==
  ASSUME StoreInv, NEW asked \in ClaimRequests, NEW clock \in BOOLEAN, ProduceEvicting(asked, clock)
  PROVE  StoreInv'
<1>1. PICK s, b : s = Walked(state, asked) /\ b = Sealed(NextBlock(s, s.mempool, asked))
  OBVIOUS
<1>2. clock
  BY DEF ProduceEvicting, HeaderRejected
<1>3. \/ Judge(s, b) /\ WriteDown(Applied(s, b), b)
      \/ state' = s /\ UNCHANGED <<index, dat, json>>
  BY <1>1, <1>2 DEF ProduceEvicting
<1>4. Beside(state, s)
  BY <1>1, WalkedOk DEF StoreInv
<1>5. CASE Judge(s, b) /\ WriteDown(Applied(s, b), b)
  BY <1>1, <1>4, <1>5, ProducedOk
<1>6. CASE state' = s /\ UNCHANGED <<index, dat, json>>
  BY <1>4, <1>6, BesideKeeps
<1> QED
  BY ONLY <1>3, <1>5, <1>6

LEMMA StoreStep ==
  ASSUME StoreInv, [StoreNext]_storeVars
  PROVE  StoreInv'
<1>1. CASE OpenNew
  BY <1>1, OpenNewOk
<1>2. CASE OpenReplay
  BY <1>2, OpenReplayOk
<1>3. CASE Die
  BY <1>3 DEF Die, StoreInv
<1>4. ASSUME NEW t \in TxIds, Submit(t) PROVE StoreInv'
  <2>1. MayEnter(state, t) /\ state' = Submitted(state, t) /\ UNCHANGED <<index, dat, json>>
    BY <1>4 DEF Submit
  <2>2. Beside(state, state')
    BY <2>1, SubmittedOk DEF StoreInv
  <2> QED
    BY <2>1, <2>2, BesideKeeps
<1>5. ASSUME NEW t \in TxIds, Discard(t) PROVE StoreInv'
  <2>1. state' = Discarded(state, t) /\ UNCHANGED <<index, dat, json>>
    BY <1>5 DEF Discard
  <2>2. Beside(state, state')
    BY <2>1, DiscardedOk DEF StoreInv
  <2> QED
    BY <2>1, <2>2, BesideKeeps
<1>6. ASSUME NEW b \in Foreign, AddBlock(b) PROVE StoreInv'
  BY <1>6, AddBlockOk
<1>7. ASSUME NEW asked \in ClaimRequests, NEW clock \in BOOLEAN, ProduceAtOnce(asked, clock) PROVE StoreInv'
  BY <1>7, ProduceAtOnceOk
<1>8. ASSUME NEW asked \in ClaimRequests, NEW clock \in BOOLEAN, ProduceEvicting(asked, clock) PROVE StoreInv'
  BY <1>8, ProduceEvictingOk
<1>9. CASE UNCHANGED storeVars
  BY <1>9 DEF storeVars, StoreInv
<1> QED
  BY <1>1, <1>2, <1>3, <1>4, <1>5, <1>6, <1>7, <1>8, <1>9 DEF StoreNext

\* In every reachable state of the store the chain in memory has its blocks at
\* their heights, its coins are covered, no transaction is in it twice and the
\* mempool fits on its coins; and each entry of the index, in memory
\* and on disk, names in blocks.dat the block of its height in that chain (chain.rs
\* over blockfile.rs), whatever writes failed and whenever the process died.
THEOREM StoreInvHolds == StoreSpec => []StoreInv
<1>1. StoreInit => StoreInv
  BY StoreInitOk
<1>2. StoreInv /\ [StoreNext]_storeVars => StoreInv'
  BY StoreStep
<1> QED
  BY <1>1, <1>2, PTL DEF StoreSpec

LEMMA RestoredPrefix ==
  ASSUME NEW ix, NEW q, Listed(q), NEW n \in Nat, NEW r, Restored(ix, q, n, r)
  PROVE  IsPrefix(r.chain, q)
<1>1. PICK p : p = r.chain
  OBVIOUS
<1>2. Len(p) = n /\ n <= Len(q) /\ (\A i \in 1 .. n : p[i] = q[i]) /\ Listed(p)
  BY <1>1 DEF Restored, StateOk
<1>3. PICK S, R : p \in Seq(S) /\ q \in Seq(R)
  BY <1>2 DEF Listed
<1>4. SubSeq(p, 1, n) = [i \in 1 .. n |-> p[i]] /\ SubSeq(q, 1, n) = [i \in 1 .. n |-> q[i]]
  BY <1>2, <1>3
<1>5. SubSeq(p, 1, n) = SubSeq(q, 1, n)
  BY <1>2, <1>4
<1> QED
  BY <1>1, <1>2, <1>5 DEF IsPrefix

\* A start never replays anything but a beginning of the chain the process
\* had: read_block and the height and hash checks of open_with see to that
\* for any file that failed writes can leave.
THEOREM ReplayIsPrefixHolds == StoreSpec => []ReplayIsPrefix
<1>1. ASSUME StoreInv PROVE ReplayIsPrefix
  <2>1. ASSUME json.st = "ok", Replay(json.blocks) # <<>>
        PROVE  IsPrefix(Replay(json.blocks)[1].chain, state.chain)
    <3>1. PICK ix, q : ix = json.blocks /\ q = state.chain
      OBVIOUS
    <3>2. Heights(q) /\ Listed(q) /\ GoodIndex(ix, dat, q)
      BY <1>1, <2>1, <3>1 DEF StoreInv, StateOk
    <3>3. PICK r : Replay(ix) = <<r>> /\ Restored(ix, q, Len(ix), r)
      BY <2>1, <3>1, <3>2, ReplayRestores
    <3>4. Len(ix) \in Nat
      BY <3>2, ListedIs DEF GoodIndex
    <3>5. IsPrefix(r.chain, q)
      BY <3>2, <3>3, <3>4, RestoredPrefix
    <3> QED
      BY <3>1, <3>3, <3>5
  <2> QED
    BY <2>1 DEF ReplayIsPrefix
<1>2. StoreInv => ReplayIsPrefix
  BY <1>1
<1> QED
  BY <1>2, StoreInvHolds, PTL

\* The coins and the burns never exceed what the genesis made and the claims
\* brought in, each parent outpoint once, whatever blocks are produced or
\* taken and whatever a start replays (validate_block, apply_block).
THEOREM SupplyBackedHolds == StoreSpec => []SupplyBacked
<1>1. ASSUME StoreInv PROVE SupplyBacked
  <2>1. PICK s, C, n : s = state /\ C = state.claims /\ n = Len(state.chain)
    OBVIOUS
  <2>2. Supplied(s) /\ Listed(s.chain)
    BY <1>1, <2>1 DEF StoreInv, StateOk
  <2>3. Recorded(C, n) /\ ValueOf(s.utxo) + ValueOf(s.pegouts) <= Backing(n) + ValueOf(C)
    BY <2>1, <2>2 DEF Supplied
  <2>4. SumFunction(PaidFor(C)) = ValueOf(C)
    BY <2>3, ClaimedIs
  <2>5. ASSUME state.chain # <<>>
        PROVE  ValueOf(state.utxo) + ValueOf(state.pegouts) <= SumFunction(Pegs) + SumFunction(PaidFor(state.claims))
    <3>1. n # 0
      <4>1. PICK S : s.chain \in Seq(S)
        BY <2>2 DEF Listed
      <4> QED
        BY <2>1, <2>5, <4>1
    <3> QED
      BY ONLY <2>1, <2>3, <2>4, <3>1 DEF Backing
  <2> QED
    BY <2>5 DEF SupplyBacked, PaidFor
<1>2. StoreInv => SupplyBacked
  BY <1>1
<1> QED
  BY <1>2, StoreInvHolds, PTL

-----------------------------------------------------------------------------
(* The mempool makes a block. *)

\* What has been spent belongs to the transactions so far.
SpentIn(Z, F) == \A op \in Z : \E t \in F : op \in TxDef[t].ins
Quiet(acc) == ~acc.deficit /\ ~acc.premature /\ ~acc.seqlock

\* A transaction that fits spends coins of the chain and none of the block's.
LEMMA TakenIs ==
  ASSUME NEW s, NEW P, NEW T, NEW n \in Nat, Once(s.utxo, P, T, n), NEW acc, NEW F, MadeBy(acc.created, F, n), F \cap T = {},
         NEW t, Fits(s.utxo, t, n), acc.spent \cap TxDef[t].ins = {}
  PROVE  Taken(s, acc, t) = SpentOf(s.utxo, t) /\ Lost(s, acc, t) = {}
<1>1. PICK U, ins, C, w : U = s.utxo /\ ins = TxDef[t].ins /\ C = acc.created /\ w = Insert(s.utxo, acc.created)
  OBVIOUS
<1>2. \A op \in ins : \E c \in U : c.op = op
  BY <1>1 DEF Fits
<1>3. ASSUME NEW d \in C, d.op \in ins PROVE FALSE
  <2>1. PICK c \in U : c.op = d.op
    BY <1>2, <1>3
  <2>2. ByChain(d.op, T, n)
    BY <1>1, <2>1 DEF Once
  <2>3. ByBlock(d.op, F, n)
    BY <1>1, <1>3 DEF MadeBy
  <2> QED
    BY <2>2, <2>3, NewIsNew
<1>4. \A c : c \in w /\ c.op \in ins <=> c \in U /\ c.op \in ins
  BY <1>1, <1>3 DEF Insert
<1>5. Taken(s, acc, t) = {c \in w : c.op \in ins}
  BY <1>1 DEF Taken, CoinAt
<1>6. Taken(s, acc, t) = SpentOf(U, t)
  BY <1>1, <1>4, <1>5 DEF SpentOf
<1>7. \A op \in ins : op \notin acc.spent /\ CoinAt(SpentOf(U, t), op) # {}
  BY <1>1, <1>2 DEF CoinAt, SpentOf
<1> QED
  BY <1>1, <1>6, <1>7 DEF Lost

\* What it pays is what the producer counted.
LEMMA FitsPays ==
  ASSUME NEW s, NEW n, NEW t, Fits(s.utxo, t, n)
  PROVE  Fee(s, t) = ValueOf(SpentOf(s.utxo, t)) - SumOut(TxDef[t].outs)
<1>1. PICK U, ins, found : U = s.utxo /\ ins = TxDef[t].ins /\ found = UNION {CoinAt(s.utxo, op) : op \in TxDef[t].ins}
  OBVIOUS
<1>2. found = SpentOf(U, t)
  BY <1>1 DEF CoinAt, SpentOf
<1>3. \A op \in ins : CoinAt(found, op) # {}
  <2>1. \A op \in ins : \E c \in U : c.op = op
    BY <1>1 DEF Fits
  <2> QED
    BY <1>1, <1>2, <2>1 DEF CoinAt, SpentOf
<1>4. PICK in, out : in = ValueOf(found) /\ out = SumOut(TxDef[t].outs)
  OBVIOUS
<1>5. Fee(s, t) = IF (\A op \in ins : CoinAt(found, op) # {}) /\ in >= out THEN in - out ELSE 0
  BY <1>1, <1>4 DEF Fee
<1>6. in >= out
  BY <1>1, <1>2, <1>4 DEF Fits
<1> QED
  BY ONLY <1>1, <1>2, <1>3, <1>4, <1>5, <1>6

LEMMA ResolveFlags ==
  ASSUME NEW s, NEW h, NEW acc, NEW t
  PROVE  /\ ResolveTx(s, h, acc, t).deficit =
              (acc.deficit \/ (Lost(s, acc, t) = {} /\ ValueOf(Taken(s, acc, t)) < SumOut(TxDef[t].outs)))
         /\ ResolveTx(s, h, acc, t).premature =
              (acc.premature \/ \E c \in Taken(s, acc, t) : c.cb /\ h - c.h < Maturity)
         /\ ResolveTx(s, h, acc, t).seqlock =
              (acc.seqlock \/ \E c \in Taken(s, acc, t) : TxDef[t].wait > 0 /\ h < c.h + TxDef[t].wait)
  BY Zenon DEF ResolveTx, Taken, Lost

LEMMA QuietOn ==
  ASSUME NEW s, NEW P, NEW T, NEW n \in Nat, Once(s.utxo, P, T, n), Priced(s.utxo), NEW acc, Quiet(acc),
         NEW t, Fits(s.utxo, t, n), Timely(s.utxo, t, n), Taken(s, acc, t) = SpentOf(s.utxo, t)
  PROVE  Quiet(ResolveTx(s, n, acc, t))
<1>1. PICK r, C, out : r = ResolveTx(s, n, acc, t) /\ C = SpentOf(s.utxo, t) /\ out = SumOut(TxDef[t].outs)
  OBVIOUS
<1>2. t \in TxIds /\ out <= ValueOf(C) /\ C \subseteq s.utxo
  BY <1>1 DEF Fits, SpentOf
<1>3. out \in Nat /\ ValueOf(C) \in Nat
  BY <1>1, <1>2, TxValue, ValueOfIs
<1>4. ~(ValueOf(C) < out)
  BY ONLY <1>2, <1>3
<1>5. ASSUME NEW c \in C PROVE ~(c.cb /\ n - c.h < Maturity)
  <2>1. Mature(c, n) /\ c.h \in Nat /\ Maturity \in Nat
    BY <1>1, <1>2, <1>5, RulesAssumption DEF Fits, Ripe, Once
  <2>2. n - c.h >= Maturity => ~(n - c.h < Maturity)
    BY ONLY <2>1, n \in Nat
  <2> QED
    BY ONLY <2>1, <2>2, Zenon DEF Mature
<1>6. \A c \in C : ~(n < c.h + TxDef[t].wait)
  BY <1>1 DEF Timely
<1>7. ~acc.deficit /\ ~acc.premature /\ ~acc.seqlock
  BY Zenon DEF Quiet
<1>8. ~r.deficit
  BY <1>1, <1>4, <1>7, ResolveFlags, Zenon
<1>9. ~r.premature
  <2>1. Taken(s, acc, t) = C
    BY <1>1
  <2>2. ~(\E c \in Taken(s, acc, t) : c.cb /\ n - c.h < Maturity)
    BY ONLY <1>5, <2>1, Zenon
  <2>3. r.premature = (acc.premature \/ \E c \in Taken(s, acc, t) : c.cb /\ n - c.h < Maturity)
    BY ONLY <1>1, ResolveFlags, Zenon
  <2> QED
    BY ONLY <1>7, <2>2, <2>3, Zenon
<1>10. ~r.seqlock
  <2>1. Taken(s, acc, t) = C
    BY <1>1
  <2>2. ~(\E c \in Taken(s, acc, t) : TxDef[t].wait > 0 /\ n < c.h + TxDef[t].wait)
    BY ONLY <1>6, <2>1, Zenon
  <2>3. r.seqlock = (acc.seqlock \/ \E c \in Taken(s, acc, t) : TxDef[t].wait > 0 /\ n < c.h + TxDef[t].wait)
    BY ONLY <1>1, ResolveFlags, Zenon
  <2> QED
    BY ONLY <1>7, <2>2, <2>3, Zenon
<1> QED
  BY <1>1, <1>8, <1>9, <1>10, Zenon DEF Quiet

\* After k transactions that fit and do not touch each other's coins.
Clean(n, q, f, acc, k) ==
    /\ acc.missing = {} /\ Quiet(acc) /\ MadeBy(acc.created, First(q, k), n) /\ SpentIn(acc.spent, First(q, k))
    /\ acc.fees = Total(f, 1 .. k)

LEMMA CleanOn ==
  ASSUME NEW s, NEW P, NEW T, NEW n \in Nat, Once(s.utxo, P, T, n), Priced(s.utxo), NEW q, NEW f, NEW acc, NEW k \in Nat \ {0},
         Clean(n, q, f, acc, k - 1), First(q, k - 1) \cap T = {}, NEW t, t = q[k], Fits(s.utxo, t, n), Timely(s.utxo, t, n),
         \A u \in First(q, k - 1) : TxDef[u].ins \cap TxDef[t].ins = {}, Natural(f, 1 .. k), f[k] = Fee(s, t)
  PROVE  Clean(n, q, f, ResolveTx(s, n, acc, t), k)
<1>1. PICK r, F, G, ins, M : /\ r = ResolveTx(s, n, acc, t) /\ F = First(q, k - 1) /\ G = First(q, k) /\ ins = TxDef[t].ins
                             /\ M = CoinsOf(<<"tx", t>>, TxDef[t].outs, n)
  OBVIOUS
<1>2. /\ acc.missing = {} /\ Quiet(acc) /\ MadeBy(acc.created, F, n) /\ SpentIn(acc.spent, F)
      /\ acc.fees = Total(f, 1 .. k - 1)
  BY <1>1 DEF Clean
<1>3. G = F \cup {t}
  <2>1. 1 .. k = (1 .. k - 1) \cup {k}
    OBVIOUS
  <2> QED
    BY <1>1, <2>1 DEF First
<1>4. acc.spent \cap ins = {}
  BY <1>1, <1>2 DEF SpentIn
<1>5. Taken(s, acc, t) = SpentOf(s.utxo, t) /\ Lost(s, acc, t) = {}
  <2>1. acc.spent \cap TxDef[t].ins = {} /\ F \cap T = {} /\ MadeBy(acc.created, F, n)
    BY <1>1, <1>2, <1>4
  <2> QED
    BY ONLY <2>1, Once(s.utxo, P, T, n), n \in Nat, Fits(s.utxo, t, n), TakenIs
<1>6. /\ r.spent = acc.spent \cup ins /\ r.created = Insert(acc.created, M)
      /\ r.fees = acc.fees + Paid(s, acc, t) /\ r.missing = acc.missing \cup Lost(s, acc, t)
  BY <1>1, ResolveIsStep
<1>7. r.missing = {}
  BY <1>2, <1>5, <1>6
<1>8. Quiet(r)
  BY <1>1, <1>2, <1>5, QuietOn
<1>9. MadeBy(r.created, G, n)
  <2>1. \A c \in M : ByBlock(c.op, G, n)
    BY <1>1, <1>3, TxCoins DEF ByBlock
  <2>2. \A op : ByBlock(op, F, n) => ByBlock(op, G, n)
    BY <1>3 DEF ByBlock
  <2> QED
    BY <1>2, <1>6, <2>1, <2>2 DEF MadeBy, Insert
<1>10. SpentIn(r.spent, G)
  BY <1>1, <1>2, <1>3, <1>6 DEF SpentIn
<1>11. Paid(s, acc, t) = f[k]
  <2>1. PICK in, out : in = ValueOf(SpentOf(s.utxo, t)) /\ out = SumOut(TxDef[t].outs)
    OBVIOUS
  <2>2. Paid(s, acc, t) = IF in >= out THEN in - out ELSE 0
    BY <1>5, <2>1 DEF Paid
  <2>3. in >= out
    BY <2>1 DEF Fits
  <2>4. Fee(s, t) = in - out
    BY <2>1, FitsPays
  <2> QED
    BY ONLY <2>2, <2>3, <2>4, f[k] = Fee(s, t)
<1>12. Total(f, 1 .. k) = f[k] + Total(f, 1 .. k - 1) /\ f[k] \in Nat /\ Total(f, 1 .. k - 1) \in Nat
  <2>1. IsFiniteSet(1 .. k) /\ k \in 1 .. k /\ (1 .. k) \ {k} = 1 .. k - 1 /\ 1 .. k - 1 \subseteq 1 .. k
    BY FS_Interval
  <2>2. Whole(f, 1 .. k) /\ Total(f, 1 .. k - 1) \in Nat
    BY <2>1, TotalNatural
  <2>3. Total(f, 1 .. k) = f[k] + Total(f, (1 .. k) \ {k})
    BY <2>1, <2>2, TotalRemove
  <2>4. f[k] \in Nat
    BY <2>1 DEF Natural
  <2> QED
    BY ONLY <2>1, <2>2, <2>3, <2>4
<1>13. r.fees = Total(f, 1 .. k)
  BY ONLY <1>2, <1>6, <1>11, <1>12
<1> QED
  BY <1>1, <1>7, <1>8, <1>9, <1>10, <1>13 DEF Clean

\* A mempool, or a part of it: each fits, no two spend a coin in common, none is in the chain.
LEMMA PooledFresh ==
  ASSUME NEW U, NEW P, NEW T, NEW n, Once(U, P, T, n), NEW R, NEW Z, Pooled(U, R, Z, n)
  PROVE  R \cap T = {}
<1>1. ASSUME NEW t \in R, t \in T PROVE FALSE
  <2>1. Fits(U, t, n)
    BY <1>1 DEF Pooled
  <2>2. t \in TxIds /\ TxDef[t].ins \subseteq {c.op : c \in U}
    BY <2>1 DEF Fits
  <2>3. PICK op : op \in TxDef[t].ins
    BY <2>2, RulesAssumption
  <2>4. PICK c \in U : c.op = op
    BY <2>2, <2>3
  <2> QED
    BY <1>1, <2>3, <2>4 DEF Once
<1> QED
  BY <1>1

LEMMA PoolClean ==
  ASSUME NEW s, NEW P, NEW T, NEW h \in Nat, Once(s.utxo, P, T, h), Priced(s.utxo), NEW q \in Seq(TxIds), IsInjective(q),
         NEW Z, Pooled(s.utxo, Range(q), Z, h), \A t \in Range(q) : Timely(s.utxo, t, h), NEW b, b.h = h, b.txs = q
  PROVE  Clean(h, q, FeesOf(s, q), Resolved(s, b), Len(q))
<1>1. PICK f, n, R : f = FeesOf(s, q) /\ n = Len(q) /\ R = Range(q)
  OBVIOUS
<1>2. DOMAIN q = 1 .. n /\ n \in Nat /\ \A i \in 1 .. n : q[i] \in TxIds /\ q[i] \in R
  BY <1>1 DEF Range
<1>3. \A i, j \in 1 .. n : q[i] = q[j] => i = j
  BY <1>2 DEF IsInjective
<1>4. Natural(f, 1 .. n) /\ \A i \in 1 .. n : f[i] = Fee(s, q[i])
  BY <1>1, <1>2, FeesNatural
<1>5. R \cap T = {}
  BY <1>1, PooledFresh
<1>6. \A t \in R : Fits(s.utxo, t, h) /\ Timely(s.utxo, t, h)
  BY <1>1 DEF Pooled
<1>7. \A t, u \in R : t # u => TxDef[t].ins \cap TxDef[u].ins = {}
  BY <1>1 DEF Pooled
<1>8. PICK v : Runs("resolve", <<s, b.h>>, Fresh(b), q, n, v) /\ Resolved(s, b) = v[n]
  BY <1>2, FoldRuns DEF Resolved
<1>9. v[0] = Fresh(b)
  BY <1>8 DEF Runs
<1>10. \A k \in 1 .. n : v[k] = ResolveTx(s, h, v[k - 1], q[k])
  <2>1. \A k \in 1 .. n : v[k] = Step("resolve", <<s, b.h>>, v[k - 1], q[k])
    BY <1>8 DEF Runs
  <2>2. \A a, x : Step("resolve", <<s, b.h>>, a, x) = ResolveTx(s, h, a, x)
    BY DEF Step
  <2> QED
    BY <2>1, <2>2
<1> DEFINE Bad == {k \in 0 .. n : ~Clean(h, q, f, v[k], k)}
<1>11. ASSUME Bad # {} PROVE FALSE
  <2>1. Bad \subseteq Nat
    BY <1>2
  <2>2. PICK k \in Bad : \A y \in Bad : ~(y < k)
    <3> HIDE DEF Bad
    <3> QED
      BY <1>11, <2>1, LeastNat
  <2>3. k \in 0 .. n /\ ~Clean(h, q, f, v[k], k)
    BY <2>2
  <2>4. k # 0
    <3>1. First(q, 0) = {} /\ 1 .. 0 = {}
      BY DEF First
    <3>2. /\ Fresh(b).created = Minted(b) /\ Fresh(b).spent = {} /\ Fresh(b).missing = {} /\ Fresh(b).fees = 0
      BY DEF Fresh
    <3>3. Quiet(Fresh(b))
      BY DEF Quiet, Fresh
    <3>4. MadeBy(Minted(b), {}, h)
      BY MintedCoins DEF MadeBy, ByBlock
    <3>5. SpentIn({}, {}) /\ Total(f, {}) = 0
      BY TotalEmpty DEF SpentIn
    <3>6. Clean(h, q, f, v[0], 0)
      BY ONLY <1>9, <3>1, <3>2, <3>3, <3>4, <3>5 DEF Clean
    <3> QED
      BY <2>3, <3>6
  <2>5. k \in Nat \ {0} /\ k \in 1 .. n /\ k - 1 \in 0 .. n /\ k - 1 < k
    BY <1>2, <2>3, <2>4
  <2>6. Clean(h, q, f, v[k - 1], k - 1)
    BY <2>2, <2>5
  <2> HIDE DEF Bad
  <2>7. PICK t, F, acc : t = q[k] /\ F = First(q, k - 1) /\ acc = v[k - 1]
    OBVIOUS
  <2>8. t \in R /\ F \subseteq R /\ t \notin F
    <3>1. \A i \in 1 .. k - 1 : i \in 1 .. n /\ q[i] # q[k]
      BY <1>2, <1>3, <2>5
    <3> QED
      BY <1>2, <2>5, <2>7, <3>1 DEF First
  <2>9. F \cap T = {} /\ Fits(s.utxo, t, h) /\ Timely(s.utxo, t, h) /\ \A u \in F : TxDef[u].ins \cap TxDef[t].ins = {}
    BY <1>5, <1>6, <1>7, <2>8
  <2>10. Natural(f, 1 .. k) /\ f[k] = Fee(s, t)
    BY <1>2, <1>4, <2>5, <2>7 DEF Natural
  <2>11. Clean(h, q, f, acc, k - 1)
    BY <2>6, <2>7
  <2>12. Clean(h, q, f, ResolveTx(s, h, acc, t), k)
    BY <2>5, <2>7, <2>9, <2>10, <2>11, CleanOn
  <2>13. v[k] = ResolveTx(s, h, acc, t)
    BY <1>10, <2>5, <2>7
  <2> QED
    BY <2>3, <2>12, <2>13
<1>12. Clean(h, q, f, v[n], n)
  <2>1. n \notin Bad /\ n \in 0 .. n
    BY <1>2, <1>11
  <2> QED
    BY <2>1
<1> HIDE DEF Bad
<1> QED
  BY <1>1, <1>8, <1>12

\* The coinbase of a block without claims pays the fees.
LEMMA FeeCoinbase ==
  ASSUME NEW b, b.fee \in Nat, b.pegs = <<>>, b.claims = <<>>
  PROVE  SumOut(CoinbaseOuts(b)) = b.fee
<1>1. PICK fee, r, y, o : /\ fee = b.fee /\ r = [v |-> fee, kind |-> "pay"]
                          /\ y = (IF fee = 0 THEN <<>> ELSE <<r>>) /\ o = CoinbaseOuts(b)
  OBVIOUS
<1>2. PICK x, z : /\ x = [i \in {} |-> [v |-> <<>>[i], kind |-> "pay"]]
                  /\ z = [i \in {} |-> [v |-> <<>>[i].v, kind |-> "pay"]]
  OBVIOUS
<1>3. DOMAIN <<>> = {}
  OBVIOUS
<1>4. o = x \o y \o z
  BY <1>1, <1>2, <1>3 DEF CoinbaseOuts
<1>5. x = <<>> /\ z = <<>>
  BY <1>2
<1>6. o = y
  <2>1. <<>> \o <<>> \o <<>> = <<>> /\ <<>> \o <<r>> \o <<>> = <<r>>
    OBVIOUS
  <2> QED
    BY <1>1, <1>4, <1>5, <2>1
<1>7. PICK w : w = [i \in DOMAIN o |-> o[i].v]
  OBVIOUS
<1>8. SumOut(o) = Total(w, DOMAIN o)
  BY <1>7 DEF SumOut, SumFunction, Total
<1>9. CASE fee = 0
  <2>1. DOMAIN o = {}
    <3>1. o = <<>>
      BY <1>1, <1>6, <1>9
    <3> QED
      BY ONLY <1>3, <3>1
  <2> QED
    BY <1>1, <1>8, <1>9, <2>1, TotalEmpty
<1>10. CASE fee # 0
  <2>1. o = <<r>>
    BY <1>1, <1>6, <1>10
  <2>2. DOMAIN o = {1} /\ o[1] = r
    BY <2>1
  <2>3. w[1] = fee /\ w[1] \in Int
    <3>1. w[1] = r.v /\ r.v = fee
      BY ONLY <1>1, <1>7, <2>2
    <3> QED
      BY <1>1, <3>1
  <2>4. Total(w, {1}) = w[1]
    BY ONLY <2>3, TotalOne
  <2> QED
    BY ONLY <1>1, <1>8, <2>2, <2>3, <2>4
<1> QED
  BY <1>9, <1>10

LEMMA NoClaims ==
  ASSUME NEW b, b.claims = <<>>
  PROVE  SumFunction([i \in DOMAIN b.claims |-> b.claims[i].v]) = 0
<1>1. PICK f : f = [i \in DOMAIN b.claims |-> b.claims[i].v]
  OBVIOUS
<1>2. DOMAIN f = {}
  BY <1>1
<1>3. SumFunction(f) = Total(f, {})
  BY <1>2 DEF SumFunction, Total
<1> QED
  BY <1>1, <1>3, TotalEmpty

\* What the rules say of burns, and of locks, holds of a mempool.
LEMMA PoolLawful ==
  ASSUME NEW s, NEW P, P = s.pegouts, NEW T, NEW h \in Nat, Once(s.utxo, P, T, h), NEW q \in Seq(TxIds),
         NEW Z, Pooled(s.utxo, Range(q), Z, h), \A t \in Range(q) : Timely(s.utxo, t, h), NEW b, b.h = h, b.txs = q
  PROVE  PegoutsOk(s, b) /\ Final(b)
<1>1. PICK R : R = Range(q)
  OBVIOUS
<1>2. \A i \in DOMAIN q : q[i] \in R
  BY <1>1 DEF Range
<1>3. R \cap T = {}
  BY <1>1, PooledFresh
<1>4. \A t \in R : Fits(s.utxo, t, h) /\ Lawful(t)
  BY <1>1 DEF Pooled, Fits
<1>5. \A i \in DOMAIN q : \A j \in DOMAIN TxDef[q[i]].outs : TxDef[q[i]].outs[j].kind # "malformed"
  BY <1>2, <1>4 DEF Lawful
<1>6. ASSUME NEW p \in BurnsOf(b) PROVE p.v >= PegoutMin /\ \A r \in s.pegouts : r.op # p.op
  <2>1. PICK i \in DOMAIN q : p \in Burnt(q[i], h)
    BY <1>6 DEF BurnsOf
  <2>2. PICK t, outs : t = q[i] /\ outs = TxDef[t].outs
    OBVIOUS
  <2>3. PICK j \in {m \in DOMAIN outs : outs[m].kind = "burn"} : p = [op |-> <<"tx", t, j>>, v |-> outs[j].v, h |-> h]
    BY <2>1, <2>2 DEF Burnt
  <2>4. p.v = outs[j].v /\ p.op[2] = t
    BY <2>3
  <2>5. t \in R /\ Lawful(t)
    BY <1>2, <1>4, <2>1, <2>2
  <2>6. outs[j].v >= PegoutMin
    BY <2>2, <2>3, <2>5 DEF Lawful
  <2>7. \A r \in P : r.op[2] \in T
    BY DEF Once
  <2> QED
    BY <1>3, <2>4, <2>5, <2>6, <2>7
<1>7. PegoutsOk(s, b)
  BY <1>5, <1>6 DEF PegoutsOk
<1>8. \A t \in R : FinalAt(t, h)
  BY <1>1 DEF Timely
<1>9. Final(b)
  BY <1>2, <1>8 DEF Final
<1> QED
  BY <1>7, <1>9

\* What a lock still holds of the transactions submit lets in unjudged.
HeldByLock(s, t) ==
    \/ ~FinalAt(t, Height(s) + 1)
    \/ \E c \in s.utxo : c.op \in TxDef[t].ins /\ Height(s) + 1 < c.h + TxDef[t].wait
EarlyOf(s) == {t \in TxIds : Unjudged(t) /\ HeldByLock(s, t)}

\* A transaction of the mempool that is not among them is held by no lock.
LEMMA PoolTimely ==
  ASSUME NEW s, NEW n \in Nat, Height(s) + 1 = n, NEW P, NEW T, Once(s.utxo, P, T, n),
         NEW t, Fits(s.utxo, t, n), t \notin EarlyOf(s)
  PROVE  Timely(s.utxo, t, n)
<1>1. t \in TxIds /\ TxDef[t].ins \subseteq {c.op : c \in s.utxo} /\ Ripe(s.utxo, t, n)
  BY DEF Fits
<1>2. CASE Unjudged(t)
  <2>1. ~HeldByLock(s, t)
    BY <1>1, <1>2 DEF EarlyOf
  <2>2. FinalAt(t, n) /\ \A c \in s.utxo : c.op \in TxDef[t].ins => ~(n < c.h + TxDef[t].wait)
    BY <2>1 DEF HeldByLock
  <2> QED
    BY <2>2 DEF Timely, SpentOf
<1>3. CASE ~Unjudged(t)
  <2>1. PICK op : op \in TxDef[t].ins
    BY <1>1, RulesAssumption
  <2>2. PICK c \in s.utxo : c.op = op
    BY <1>1, <2>1
  <2>3. ~(n < c.h + TxDef[t].wait) /\ ~(n <= TxDef[t].lock)
    BY <1>1, <1>3, <2>1, <2>2 DEF Ripe, SpentOf, Locked
  <2>4. TxDef[t].lock \in Nat /\ TxDef[t].until \in Nat
    BY <1>1, RulesAssumption
  <2>5. ~(TxDef[t].until > 0)
    BY <1>3 DEF Unjudged
  <2>6. FinalAt(t, n)
    BY <2>3, <2>4, <2>5 DEF FinalAt
  <2>7. \A d \in SpentOf(s.utxo, t) : ~(n < d.h + TxDef[t].wait)
    BY <1>1, <1>3 DEF Ripe, Locked
  <2> QED
    BY <2>6, <2>7 DEF Timely
<1> QED
  BY <1>2, <1>3

\* The mempool without those and what only a further rule refuses, as far as it fits.
LEMMA PoolMakesBlock ==
  ASSUME NEW s, StateOk(s), NEW q, q = Only(s.mempool, TxIds \ (RuleRefused \cup EarlyOf(s))),
         SumFunction([i \in DOMAIN q |-> TxDef[q[i]].w]) <= MaxWeight,
         4 * SumFunction([i \in DOMAIN q |-> TxDef[q[i]].ops]) <= MaxSigops, NEW b, b = Sealed(NextBlock(s, q, <<>>))
  PROVE  Judge(s, b)
<1>1. PICK U, P, T, n, Z, f : /\ U = s.utxo /\ P = s.pegouts /\ T = Included(s.chain) /\ n = Len(s.chain) /\ Z = SpentBy(q)
                              /\ f = FeesOf(s, q)
  OBVIOUS
<1>2. n \in Nat /\ Once(U, P, T, n) /\ Priced(U) /\ s.mempool \in Seq(TxIds)
  BY <1>1, ListedIs DEF StateOk, Current, Supplied
<1>3. q \in Seq(TxIds) /\ IsInjective(q) /\ Pooled(U, Range(q), Z, n)
  BY <1>1, PooledOnly
<1>0. Range(q) = Range(s.mempool) \cap (TxIds \ (RuleRefused \cup EarlyOf(s)))
  BY <1>2, OnlyIn
<1>20. \A t \in Range(q) : Timely(U, t, n)
  <2>1. Height(s) + 1 = n
    BY <1>1, <1>2 DEF Height
  <2>2. \A t \in Range(q) : Fits(s.utxo, t, n) /\ t \notin EarlyOf(s)
    BY <1>0, <1>1, <1>3 DEF Pooled
  <2>3. Once(s.utxo, P, T, n) /\ U = s.utxo
    BY <1>1, <1>2
  <2> QED
    BY <1>2, <2>1, <2>2, <2>3, PoolTimely
<1>4. Claims(<<>>)
  BY DEF Claims
<1>5. /\ Block(b) /\ b.h = n /\ b.txs = q /\ b.fee = SumFunction(f) /\ b.claims = <<>> /\ b.pegs = <<>> /\ b.sealed
  BY <1>1, <1>3, <1>4, NextBlockIs
<1>6. PICK sp : sp = ResolveSpending(s, b)
  OBVIOUS
<1>7. Clean(n, q, f, sp, Len(q))
  <2>1. /\ Once(s.utxo, P, T, n) /\ Priced(s.utxo) /\ Pooled(s.utxo, Range(q), Z, n) /\ b.h = n /\ b.txs = q
        /\ \A t \in Range(q) : Timely(s.utxo, t, n)
    BY <1>1, <1>2, <1>3, <1>5, <1>20
  <2>2. Clean(n, q, FeesOf(s, q), Resolved(s, b), Len(q))
    BY <1>2, <1>3, <2>1, PoolClean
  <2> QED
    BY <1>1, <1>6, <2>2, ResolvedIs
<1>8. sp.missing = {} /\ Quiet(sp) /\ sp.fees = Total(f, 1 .. Len(q))
  BY <1>7 DEF Clean
<1>9. b.fee = sp.fees /\ b.fee \in Nat
  <2>1. DOMAIN f = 1 .. Len(q)
    BY <1>1, <1>3 DEF FeesOf
  <2>2. SumFunction(f) = Total(f, DOMAIN f)
    BY DEF SumFunction, Total
  <2> QED
    BY <1>5, <1>8, <2>1, <2>2 DEF Block
<1>10. SumOut(CoinbaseOuts(b)) = b.fee
  BY <1>5, <1>9, FeeCoinbase
<1>11. PICK paid, sub : paid = SumFunction([i \in DOMAIN b.claims |-> b.claims[i].v])
                        /\ sub = (IF b.h = 0 THEN SumFunction(Pegs) ELSE 0)
  OBVIOUS
<1>12. paid = 0 /\ sub \in Nat
  BY <1>5, <1>11, NoClaims, PegsNatural
<1>13. SumOut(CoinbaseOuts(b)) <= sub + sp.fees + paid
  BY ONLY <1>9, <1>10, <1>12
<1>14. PegoutsOk(s, b) /\ Final(b)
  <2>1. /\ P = s.pegouts /\ Once(s.utxo, P, T, n) /\ Pooled(s.utxo, Range(q), Z, n) /\ b.h = n /\ b.txs = q
        /\ \A t \in Range(q) : Timely(s.utxo, t, n)
    BY <1>1, <1>2, <1>3, <1>5, <1>20
  <2> QED
    BY ONLY <1>2, <1>3, <2>1, PoolLawful
<1>15. ClaimsOk(s, b) /\ \A i \in DOMAIN b.claims : b.claims[i].v > 0
  <2>1. DOMAIN b.claims = {}
    <3>1. b.claims = <<>>
      BY <1>5
    <3>2. DOMAIN <<>> = {}
      OBVIOUS
    <3> QED
      BY ONLY <3>1, <3>2
  <2> QED
    BY ONLY <2>1 DEF ClaimsOk
<1>16. \A i \in DOMAIN b.txs : b.txs[i] \notin RuleRefused
  <2>1. \A i \in DOMAIN q : q[i] \in Range(q)
    BY DEF Range
  <2> QED
    BY <1>0, <1>5, <2>1
<1>17. ~sp.seqlock /\ ~sp.premature /\ ~sp.deficit
  BY <1>8, Zenon DEF Quiet
<1>18. ContextOk(s, b)
  BY ONLY <1>6, <1>8, <1>11, <1>13, <1>14, <1>15, <1>16, <1>17 DEF ContextOk
<1>19. StructureOk(b)
  BY <1>3, <1>5 DEF StructureOk
<1> QED
  BY <1>18, <1>19 DEF Judge

\* In every reachable state of a running store the mempool makes a valid next
\* block as far as weight and signature operations allow, less what only a further
\* rule refuses and what a lock still holds of a transaction whose locks submit did
\* not judge, whatever blocks, deaths and starts came between (submit, apply_block,
\* validate_block).
THEOREM MempoolMakesBlockHolds == StoreSpec => []MempoolMakesBlock
<1>1. ASSUME StoreInv PROVE MempoolMakesBlock
  <2>1. StateOk(state)
    BY <1>1 DEF StoreInv
  <2>2. PICK q : q = Only(state.mempool, TxIds \ (RuleRefused \cup EarlyOf(state)))
    OBVIOUS
  <2>3. SumFunction([i \in DOMAIN q |-> TxDef[q[i]].w]) <= MaxWeight
        /\ 4 * SumFunction([i \in DOMAIN q |-> TxDef[q[i]].ops]) <= MaxSigops
            => Judge(state, Sealed(NextBlock(state, q, <<>>)))
    BY <2>1, <2>2, PoolMakesBlock
  <2> QED
    BY <2>2, <2>3, Zenon DEF MempoolMakesBlock, EarlyOf, HeldByLock
<1>2. StoreInv => MempoolMakesBlock
  BY <1>1
<1> QED
  BY <1>2, StoreInvHolds, PTL
=============================================================================
