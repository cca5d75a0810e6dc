------------------------------- MODULE PegIn -------------------------------
(***************************************************************************)
(* Peg-ins: what a parent transaction has to look like, the scan of the    *)
(* parent's blocks by each signer's node, the claims a node asks its round *)
(* for, the check every other signer makes of a block's claims, and the    *)
(* locks that keep an unclaimed peg-in out of the peg wallet's payments.   *)
(* The co-signing round is CosignRound's subject and is two steps here: a  *)
(* block is proposed, and another signer's check seals it or refuses it.   *)
(***************************************************************************)
EXTENDS Integers, Sequences, FiniteSets, SequencesExt, FiniteSetsExt

CONSTANTS
    Nodes,
    WalletNodes,        \* the nodes given a peg wallet
    ChainId, Challenge, \* the chain's id and the script its peg pays
    PegConfirmations,
    From,               \* the parent height a first scan begins at
    RawLimit,           \* the longest script a marker carries raw
    Txs,                \* parent transactions
    Outputs,            \* [Txs -> Seq([spk, value])]
    Funded,             \* the transactions the peg wallet itself paid for
    MaxParent,          \* bound: the parent's height
    MaxEvents           \* bound: payments, reorganisations, failures and restarts

ASSUME PegInAssumption ==
    /\ WalletNodes \subseteq Nodes /\ Funded \subseteq Txs /\ IsFiniteSet(Txs)
    /\ \A tx \in Txs : Len(Outputs[tx]) \in Nat /\ DOMAIN Outputs[tx] = 1 .. Len(Outputs[tx])
    /\ PegConfirmations \in Nat \ {0} /\ From \in Nat \ {0} /\ RawLimit \in Nat
    /\ MaxParent \in Nat /\ MaxEvents \in Nat

VARIABLES
    parent,     \* the parent's best chain: a sequence of sets of transactions
    spent,      \* parent outpoints the peg wallet has spent
    claims,     \* the parent outpoints the sidechain has claimed
    pegins,     \* [Nodes -> [scanned, pegins]], PeginState
    file,       \* [Nodes -> what pegins.json says: a state, or nothing readable]
    wanted,     \* [Nodes -> the round's claims_wanted]
    locked,     \* [Nodes -> outpoints the node's wallet has locked]
    due,        \* the nodes whose parent tick has yet to ask for coins
    coins,      \* [Nodes -> what listunspent last answered]
    pending,    \* the proposal under way: <<>> or <<[by, coinbase]>>
    reorged,    \* whether the parent ever replaced a block
    events      \* payments, reorganisations, failures and restarts so far

vars == <<parent, spent, claims, pegins, file, wanted, locked, due, coins, pending,
          reorged, events>>

(***************************************************************************)
(* Markers.  A data output's payload is what its bytes say.                *)
(***************************************************************************)
Data(payload) == <<"data", payload>>
OpReturnData(spk) == IF spk[1] = "data" THEN {spk[2]} ELSE {}
IsP2tr(spk) == spk[1] = "tr"

PegMarkerData(chain, script) ==
    [tag |-> "pegin", chain |-> chain, script |-> script,
     form |-> IF Len(script) <= RawLimit THEN "raw" ELSE "hex"]

ParsePegMarker(spk, chain) ==
    {d.script : d \in {e \in OpReturnData(spk) : e.tag = "pegin" /\ e.chain = chain}}

ClaimMarker(op) == Data([tag |-> "claim", op |-> op])

ParseClaimText(spk) == {d.op : d \in {e \in OpReturnData(spk) : e.tag = "claim"}}

\* Each marker claims for the output before it, which must pay somebody something.
ParseClaims(coinbase) ==
    LET at == {i \in DOMAIN coinbase : ParseClaimText(coinbase[i].spk) # {}}
        bad == {i \in at : \/ i = 1
                           \/ coinbase[i - 1].spk[1] = "data" \/ coinbase[i - 1].value = 0}
    IN  [claims |-> {[op |-> CHOOSE op \in ParseClaimText(coinbase[i].spk) : TRUE,
                      payout |-> coinbase[i - 1]] : i \in at \ bad},
         errors |-> bad]

(***************************************************************************)
(* The peg-in of a parent transaction, and the scan that finds it.         *)
(***************************************************************************)
Marked == [tx \in Txs |->
    LET at == {i \in DOMAIN Outputs[tx] : ParsePegMarker(Outputs[tx][i].spk, ChainId) # {}}
    IN  IF at = {} THEN {} ELSE ParsePegMarker(Outputs[tx][Min(at)].spk, ChainId)]

Paying == [tx \in Txs |-> {i \in DOMAIN Outputs[tx] : Outputs[tx][i].spk = Challenge}]

\* getaddressinfo and gettransaction, as the peg wallet answers them.
AddressView(spk) == [owned |-> spk[2] \in {"peg", "mine", "change"}, change |-> spk[2] = "change"]
FundedTransaction(tx) == tx \in Funded

\* The taproot output that is the peg: the announced script wherever it sits, else one
\* the wallet owns and did not make as change, else (no wallet to ask) the first.
PegOutput == [tx \in Txs |-> [wallet \in BOOLEAN |->
    LET taproots == {i \in DOMAIN Outputs[tx] : IsP2tr(Outputs[tx][i].spk)}
        owned == {i \in taproots : LET v == AddressView(Outputs[tx][i].spk)
                                   IN  v.owned /\ ~v.change}
        from == CASE Paying[tx] # {} -> Paying[tx]
                  [] Paying[tx] = {} /\ wallet -> IF FundedTransaction(tx) THEN {} ELSE owned
                  [] OTHER -> taproots
    IN  IF from = {} THEN {} ELSE {Min(from)}]]

PeginAt(tx, height, wallet) ==
    {[tx |-> tx, vout |-> i, amount |-> Outputs[tx][i].value, script |-> s, height |-> height] :
        i \in PegOutput[tx][wallet], s \in Marked[tx]}

BlockCount == Len(parent)
BlockAt(h) == parent[h]
HeightOf(tx) == {h \in DOMAIN parent : tx \in BlockAt(h)}

ScanPegins(from, to, wallet) ==
    UNION {UNION {PeginAt(tx, h, wallet) : tx \in BlockAt(h)} : h \in from .. to}

\* gettxout: no answer for an output that is spent or on no block.
TxOut(op) ==
    {[confirmations |-> BlockCount + 1 - h, value |-> Outputs[op[1]][op[2]].value,
      spk |-> Outputs[op[1]][op[2]].spk] : h \in IF op \in spent THEN {} ELSE HeightOf(op[1])}

(***************************************************************************)
(* What the sidechain has claimed.                                         *)
(***************************************************************************)
Claimed(op) == op \in claims
ClaimedTx(tx) == \E op \in claims : op[1] = tx
OutPoint(p) == <<p.tx, p.vout>>

NewPegins(found, known) ==
    {p \in found : ~(\E k \in known : k.tx = p.tx) /\ ~ClaimedTx(p.tx)}

ClaimableByTransaction(found, tip) ==
    {[op |-> OutPoint(p), amount |-> p.amount, script |-> p.script] :
        p \in {q \in found : tip + 1 >= q.height + PegConfirmations /\ ~ClaimedTx(q.tx)}}

OutpointsToLock(found) == {OutPoint(p) : p \in {q \in found : ~ClaimedTx(q.tx)}}

(***************************************************************************)
(* A signer's node: its record of peg-ins, kept in pegins.json.            *)
(***************************************************************************)
EmptyState == [scanned |-> 0, pegins |-> {}]

ReadJson(text) == IF text = {} THEN EmptyState ELSE CHOOSE s \in text : TRUE

Loaded(s) == IF s.pegins = {} /\ s.scanned = 0 THEN [s EXCEPT !.scanned = From - 1] ELSE s

Scanned(s, tip, wallet) ==
    [scanned |-> tip,
     pegins |-> s.pegins \cup NewPegins(ScanPegins(s.scanned + 1, tip, wallet), s.pegins)]

\* What may happen only finitely often is counted.
Counts(happens) ==
    IF happens THEN events < MaxEvents /\ events' = events + 1 ELSE UNCHANGED events

WriteJson(n, s) == file' = [file EXCEPT ![n] = {s}]

\* lockunspent of what is not claimed, and its release of what is.
LockOutputs(n, lock, unlock) == locked' = [locked EXCEPT ![n] = (@ \cup lock) \ unlock]

Init ==
    /\ parent = <<>> /\ spent = {} /\ claims = {} /\ pending = <<>>
    /\ file = [n \in Nodes |-> {}]
    /\ pegins = [n \in Nodes |-> Loaded(EmptyState)]
    /\ wanted = [n \in Nodes |-> {}] /\ locked = [n \in Nodes |-> {}]
    /\ coins = [n \in Nodes |-> {}] /\ due = {}
    /\ reorged = FALSE /\ events = 0

\* peg_tick: scan what is new and write it down, work out the claims, lock the peg-ins
\* not claimed yet and unlock the others.  A scan that fails leaves the record as it is,
\* and a write that fails is only logged.
PegTick(n, scans, writes) ==
    LET tip == BlockCount
        s == IF scans /\ tip > pegins[n].scanned
             THEN Scanned(pegins[n], tip, n \in WalletNodes) ELSE pegins[n]
        lock == OutpointsToLock(s.pegins)
    IN  /\ n \notin due /\ Counts(~scans \/ ~writes)
        /\ UNCHANGED <<parent, spent, claims, coins, pending, reorged>>
        /\ pegins' = [pegins EXCEPT ![n] = s]
        /\ IF writes /\ s # pegins[n] THEN WriteJson(n, s) ELSE UNCHANGED file
        /\ wanted' = [wanted EXCEPT ![n] = ClaimableByTransaction(s.pegins, tip)]
        /\ IF n \in WalletNodes
           THEN /\ LockOutputs(n, lock, {OutPoint(p) : p \in s.pegins} \ lock)
                /\ due' = due \cup {n}
           ELSE UNCHANGED <<locked, due>>

\* peg_coins, in the same parent tick: what the wallet lists of the peg's own outputs.
PegCoins(n) ==
    /\ n \in due /\ due' = due \ {n}
    /\ coins' = [coins EXCEPT ![n] =
           UNION {{<<tx, i>> : i \in Paying[tx]} : tx \in {t \in Txs : HeightOf(t) # {}}}
           \ (spent \cup locked[n])]
    /\ UNCHANGED <<parent, spent, claims, pegins, file, wanted, locked, pending, reorged,
                   events>>

\* A burn is paid with a coin the node proposed: PegoutRound's subject.
PayOut(n, op) ==
    /\ n \notin due /\ op \in coins[n] \ spent
    /\ HeightOf(op[1]) # {}
    /\ spent' = spent \cup {op} /\ Counts(TRUE)
    /\ UNCHANGED <<parent, claims, pegins, file, wanted, locked, due, coins, pending, reorged>>

(***************************************************************************)
(* The claims of a block: asked for by its proposer, checked by the rest.  *)
(***************************************************************************)
\* Each claim's payout, and its marker after it.
Coinbase(list) ==
    [i \in 1 .. 2 * Len(list) |->
        LET c == list[(i + 1) \div 2]
        IN  IF i % 2 = 1 THEN [spk |-> <<"script", c.script>>, value |-> c.amount]
            ELSE [spk |-> ClaimMarker(c.op), value |-> 0]]

\* A block without claims changes nothing here.
Propose(n) ==
    LET want == {c \in wanted[n] : ~Claimed(c.op)}
    IN  /\ pending = <<>> /\ want # {}
        /\ \E list \in SetToSeqs(want) : pending' = <<[by |-> n, coinbase |-> Coinbase(list)]>>
        /\ UNCHANGED <<parent, spent, claims, pegins, file, wanted, locked, due, coins, reorged, events>>

MutDeep(o) == o.confirmations + 1 >= PegConfirmations    \* Mutated: one block too few
Deep(o) == o.confirmations >= PegConfirmations

\* ParentClaims::check of one claim: unspent on the parent, deep enough, paying the peg what
\* the claim pays out, beside a marker that names whom the claim pays.
ClaimOk(c) ==
    \E o \in TxOut(c.op) :
        /\ Deep(o) /\ o.value = c.payout.value /\ o.spk = Challenge
        /\ \E s \in Marked[c.op[1]] : c.payout.spk = <<"script", s>>

CheckClaims(coinbase) ==
    LET p == ParseClaims(coinbase) IN p.errors = {} /\ \A c \in p.claims : ClaimOk(c)

Seal(m) ==
    /\ pending # <<>> /\ m # pending[1].by
    /\ CheckClaims(pending[1].coinbase)
    /\ claims' = claims \cup {c.op : c \in ParseClaims(pending[1].coinbase).claims}
    /\ wanted' = [wanted EXCEPT ![pending[1].by] = {}]
    /\ pending' = <<>>
    /\ UNCHANGED <<parent, spent, pegins, file, locked, due, coins, reorged, events>>

\* The check fails, or the signer's own parent does not answer.
Refuse(m) ==
    /\ pending # <<>> /\ m # pending[1].by
    /\ Counts(CheckClaims(pending[1].coinbase))
    /\ pending' = <<>>
    /\ UNCHANGED <<parent, spent, claims, pegins, file, wanted, locked, due, coins, reorged>>

(***************************************************************************)
(* The parent, and restarts.                                             *)
(***************************************************************************)
Unmined == {tx \in Txs : HeightOf(tx) = {}}

Mine(S) ==
    /\ BlockCount < MaxParent /\ S \subseteq Unmined
    /\ parent' = Append(parent, S)
    /\ UNCHANGED <<spent, claims, pegins, file, wanted, locked, due, coins, pending, reorged, events>>

\* The last d blocks give way to d + 1, fewer than the peg waits for.  What the wallet spent
\* stays spent.
Reorg(d, new) ==
    LET back == SubSeq(parent, 1, BlockCount - d)
        gone == UNION {BlockAt(h) : h \in BlockCount - d + 1 .. BlockCount}
    IN  /\ d <= BlockCount /\ BlockCount < MaxParent
        /\ \A i \in DOMAIN new : new[i] \cap UNION Range(back) = {}
        /\ \A i, j \in DOMAIN new : i # j => new[i] \cap new[j] = {}
        /\ {op[1] : op \in spent} \cap gone \subseteq UNION Range(new)
        /\ new[1] # BlockAt(BlockCount - d + 1)
        /\ parent' = back \o new /\ reorged' = TRUE /\ Counts(TRUE)
        /\ UNCHANGED <<spent, claims, pegins, file, wanted, locked, due, coins, pending>>

\* The node stops, perhaps while it writes pegins.json, and starts again.
Restart(n, torn) ==
    /\ Counts(TRUE)
    /\ file' = IF torn THEN [file EXCEPT ![n] = {}] ELSE file
    /\ pegins' = [pegins EXCEPT ![n] = Loaded(ReadJson(file'[n]))]
    /\ wanted' = [wanted EXCEPT ![n] = {}] /\ coins' = [coins EXCEPT ![n] = {}]
    /\ due' = due \ {n}
    /\ pending' = IF pending # <<>> /\ pending[1].by = n THEN <<>> ELSE pending
    /\ UNCHANGED <<parent, spent, claims, locked, reorged>>

\* The parent node of a signer starts again: its wallet's locks are memory.  Its cookie is a
\* new one, which the call it refuses reads again, so that no call is lost for it.
ParentRestart(n) ==
    /\ Counts(TRUE)
    /\ locked' = [locked EXCEPT ![n] = {}]
    /\ UNCHANGED <<parent, spent, claims, pegins, file, wanted, due, coins, pending, reorged>>

Next ==
    \/ \E S \in SUBSET Txs : Mine(S)
    \/ \E d \in 1 .. PegConfirmations - 1 : \E new \in [1 .. d + 1 -> SUBSET Txs] : Reorg(d, new)
    \/ \E n \in Nodes :
         \/ \E scans, writes \in BOOLEAN : PegTick(n, scans, writes)
         \/ PegCoins(n)
         \/ \E op \in UNION Range(coins) : PayOut(n, op)
         \/ Propose(n) \/ Seal(n) \/ Refuse(n)
         \/ \E torn \in BOOLEAN : Restart(n, torn)
         \/ ParentRestart(n)

(***************************************************************************)
(* Fairness: blocks keep coming on the parent, every node polls it, finds  *)
(* it answering again and again, the signers answer proposals, one that is *)
(* refused lapses, and the turn to propose goes round the ring.            *)
(***************************************************************************)
Fairness ==
    /\ WF_vars(\E S \in SUBSET Txs : Mine(S))
    /\ \A n \in Nodes : /\ WF_vars(PegTick(n, TRUE, TRUE) \/ PegCoins(n))
                        /\ SF_vars(Propose(n))
    /\ WF_vars(\E n \in Nodes : Seal(n) \/ (Refuse(n) /\ ~CheckClaims(pending[1].coinbase)))

Spec == Init /\ [][Next]_vars /\ Fairness

-----------------------------------------------------------------------------
\* The record a peg-in makes when it is mined where it now is.
Pegin(tx) == UNION {PeginAt(tx, h, FALSE) : h \in HeightOf(tx)}

\* What a claim minted is on the parent: the transaction stands on the best chain whatever
\* reorganisation shallower than pegConfirmations happened since, no other output of it is
\* claimed, and the one claimed pays the peg.
ClaimsStayBacked ==
    \A op \in claims :
        /\ HeightOf(op[1]) # {} /\ op[2] \in Paying[op[1]]
        /\ \A other \in claims : other[1] = op[1] => other = op

\* The node has recorded, and never drops, a peg-in that no check will pass, so that no
\* block it proposes will be sealed again: its transaction was mined elsewhere or not at
\* all after a reorganisation, it was spent unclaimed, or it does not pay the peg (a marker
\* beside somebody's taproot output, which a node without a wallet takes for one).  Or a
\* reorganisation put a peg-in in a block the node had scanned, and it will never see it.
Disturbed(n) ==
    \/ \E p \in pegins[n].pegins : ~ClaimedTx(p.tx) /\ \/ p.height \notin HeightOf(p.tx)
                                                       \/ OutPoint(p) \in spent
                                                       \/ p.vout \notin Paying[p.tx]
    \/ reorged /\ \E h \in From .. pegins[n].scanned : h \in DOMAIN parent /\ \E tx \in BlockAt(h) :
           /\ PeginAt(tx, h, n \in WalletNodes) # {}
           /\ ~ClaimedTx(tx) /\ ~(\E p \in pegins[n].pegins : p.tx = tx)

\* A peg-in that the parent's last block will find deep enough.
InTime(tx) ==
    \E p \in Pegin(tx) : p.vout \in Paying[tx] /\ p.height + PegConfirmations <= MaxParent + 1


=============================================================================
