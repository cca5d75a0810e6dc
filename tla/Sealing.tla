------------------------------ MODULE Sealing ------------------------------
(***************************************************************************)
(* How K of N signers speak with one voice: the federation's taproot       *)
(* challenge and the verifier of its only leaf (sidestr-core/src/          *)
(* federation.rs, sighash.rs), the block, its template and the solution in *)
(* its coinbase (block.rs, state.rs), the rules on one block (rules.rs)    *)
(* and the signing of a peg-out transaction (sidestr-round/src/pegout.rs). *)
(* Functions only: the rounds call them.                                   *)
(*                                                                         *)
(* A hash or a point is the tuple of what it is made from, a signature the *)
(* tuple of its key and its message, and it verifies for these alone.      *)
(* Where only the length of a string decides, the length is kept in full.  *)
(***************************************************************************)
EXTENDS Headers

CONSTANT MaxNonce       \* the last nonce tried: 2^32 - 1

ASSUME NonceAssumption == MaxNonce \in Nat

MaxSigners == 16
MaxWitnessItems == 256
IsIn(x, s) == \E i \in DOMAIN s : s[i] = x

-----------------------------------------------------------------------------
(* Scripts and keys. *)

\* <pk_1> CHECKSIG <pk_2> CHECKSIGADD ... <pk_n> CHECKSIGADD <k> NUMEQUAL
LeafScript(signers, k) ==
    IF Len(signers) \notin 1 .. MaxSigners \/ k \notin 1 .. Len(signers) THEN Nil
    ELSE [i \in DOMAIN signers |-> <<IF i = 1 THEN "checksig" ELSE "checksigadd", signers[i]>>]
         \o <<<<"num", k>>, <<"numequal", 0>>>>

\* The keys and the threshold of a leaf of exactly that form.
ParseMultiA(s) ==
    LET n == Len(s) - 2
    IN  IF /\ n \in 1 .. MaxSigners
           /\ \A i \in 1 .. n : s[i][1] = IF i = 1 THEN "checksig" ELSE "checksigadd"
           /\ s[n + 1][1] = "num" /\ s[n + 1][2] \in 1 .. n /\ s[n + 2][1] = "numequal"
        THEN <<[signers |-> [i \in 1 .. n |-> s[i][2]], threshold |-> s[n + 1][2]]>>
        ELSE Nil

LeafHash(version, script) == <<"leaf", version, script>>
NumsKey(chain) == <<"nums", chain>>
TapTweak(internal, root) == <<"tweak", internal, root>>
ParityOf(key) == 0
ChallengeFor(key) == <<"p2tr", key>>
IsP2tr(spk) == spk[1] = "p2tr"

Federation(chain, signers, k) ==
    LET script == LeafScript(signers, k)
        leaf == LeafHash("tapscript", script)
        key == TapTweak(NumsKey(chain), leaf)
    IN  IF script = Nil \/ ~IsInjective(signers) THEN Nil
        ELSE <<[signers |-> signers, threshold |-> k, script |-> script, leaf |-> leaf,
                challenge |-> ChallengeFor(key),
                control |-> [parity |-> ParityOf(key), version |-> "tapscript",
                             internal |-> NumsKey(chain), path |-> <<>>]]>>

\* A document names both signers and threshold, or neither; a challenge it
\* states is the one they derive.
ForDocument(doc) ==
    IF doc.signers = Nil \/ doc.threshold = Nil THEN Nil
    ELSE LET fed == Federation(doc.id, doc.signers, doc.threshold[1])
         IN  IF fed = Nil \/ doc.challenge \notin {Nil, fed[1].challenge}
             THEN Nil ELSE fed

-----------------------------------------------------------------------------
(* Witnesses: each item is its length and what its bytes are. *)

Item(len, is) == [len |-> len, is |-> is]
NoItem == Item(0, <<"none">>)
SigItem(key, msg, type) ==
    Item(IF type = 0 THEN 64 ELSE 65, <<"sig", key, msg, type>>)
ScriptItem(script) == Item(34 * (Len(script) - 2) + 2, <<"script", script>>)
ControlItem(control) == Item(33 + 32 * Len(control.path), <<"control", control>>)
IsAnnex(item) == item.is[1] = "annex"

HasAnnex(w) == Len(w) >= 2 /\ IsAnnex(Last(w))
AnnexOf(w) == IF HasAnnex(w) THEN Last(w).is ELSE Nil
WithoutAnnex(w) == IF HasAnnex(w) THEN Front(w) ELSE w

\* A number with the width of its encoding; only the shortest is read.
CompactSize(n) == [n |-> n, width |-> IF n <= 252 THEN 1 ELSE IF n <= 65535 THEN 3 ELSE 5]
ReadCompact(size) == IF size = CompactSize(size.n) THEN <<size.n>> ELSE Nil
SizeOf(item) == CompactSize(item.len).width + item.len
WitnessSize(w) == CompactSize(Len(w)).width + FoldLeft(LAMBDA n, it : n + SizeOf(it), 0, w)

EncodeWitness(w) ==
    [count |-> CompactSize(Len(w)),
     items |-> [i \in DOMAIN w |-> [size |-> CompactSize(w[i].len), body |-> w[i]]]]

DecodeWitness(e) ==
    IF /\ ReadCompact(e.count) = <<Len(e.items)>>
       /\ Len(e.items) <= MaxWitnessItems
       /\ \A i \in DOMAIN e.items : ReadCompact(e.items[i].size) = <<e.items[i].body.len>>
    THEN <<[i \in DOMAIN e.items |-> e.items[i].body]>>
    ELSE Nil

-----------------------------------------------------------------------------
(* What a signature signs.  A transaction is [ins, outs, ssig, wit]. *)

Anyone(type) == type \div 128 = 1
OutputType(type) == type % 4
TapTypes == {0, 1, 2, 3, 129, 130, 131}

\* The digest of BIP 341 for an input (leaf is Nil on the key path).
TapSighash(tx, i, prevouts, annex, leaf, type) ==
    [tag |-> "tap", type |-> type, annex |-> annex, leaf |-> leaf,
     at |-> IF Anyone(type) THEN 0 ELSE i,
     ins |-> IF Anyone(type) THEN <<tx.ins[i]>> ELSE tx.ins,
     coins |-> IF Anyone(type) THEN <<prevouts[i]>> ELSE prevouts,
     outs |-> CASE OutputType(type) = 2 -> <<>>
                [] OutputType(type) = 3 -> <<tx.outs[i]>>
                [] OTHER -> tx.outs]

\* The blake2b family's digest: the flag 32 in the type, its own tag.
UnifiedSighash(tx, i, prevouts, type, annex, leaf) ==
    LET plain == type - 32
    IN  IF \/ (type \div 32) % 2 = 0 \/ (type \div 64) % 2 = 1
           \/ plain % 32 \notin 1 .. 3
           \/ Len(prevouts) # Len(tx.ins) \/ i \notin DOMAIN tx.ins
           \/ (plain % 32 = 3 /\ i \notin DOMAIN tx.outs)
        THEN Nil
        ELSE <<[TapSighash(tx, i, prevouts, annex, leaf, plain) EXCEPT
                    !.tag = "unified", !.type = type]>>

\* The digest to verify a signature of this type against, if it has one.
DigestFor(tx, i, prevouts, annex, leaf, type, rules) ==
    CASE rules = "unified" /\ (type \div 32) % 2 = 1 ->
            UnifiedSighash(tx, i, prevouts, type, annex, leaf)
      [] type \notin TapTypes \/ Len(prevouts) # Len(tx.ins) -> Nil
      [] OutputType(type) = 3 /\ i \notin DOMAIN tx.outs -> Nil
      [] OTHER -> <<TapSighash(tx, i, prevouts, annex, leaf, type)>>

\* The type a signature item declares: 64 bytes mean the default, 65 name a
\* type that is not the default.
SigType(item) ==
    CASE item.len = 64 -> <<0>>
      [] item.len = 65 /\ item.is[1] = "sig" /\ item.is[4] # 0 -> <<item.is[4]>>
      [] OTHER -> Nil

SchnorrVerify(digest, item, key) ==
    /\ digest # Nil
    /\ item.is[1] = "sig" /\ item.is[2] = key /\ item.is[3] = digest[1]

VerifyTaprootKeyPath(tx, i, prevouts, rules) ==
    LET w == tx.wit[i]
        items == WithoutAnnex(w)
    IN  /\ i \in DOMAIN prevouts /\ i \in DOMAIN tx.ins
        /\ IsP2tr(prevouts[i]) /\ tx.ssig[i] = Nil
        /\ Len(items) = 1 /\ SigType(items[1]) # Nil
        /\ SchnorrVerify(DigestFor(tx, i, prevouts, AnnexOf(w), Nil,
                                   SigType(items[1])[1], rules),
                         items[1], prevouts[i][2])

\* How a wallet signs the key path for a family's rules.
KeyPathHashType(rules) == IF rules = "unified" THEN 33 ELSE 1
KeyPathSighash(tx, i, prevouts, rules) ==
    IF rules = "unified"
    THEN UnifiedSighash(tx, i, prevouts, KeyPathHashType(rules), Nil, Nil)
    ELSE IF Len(prevouts) # Len(tx.ins) \/ i \notin DOMAIN tx.ins THEN Nil
         ELSE <<TapSighash(tx, i, prevouts, Nil, Nil, KeyPathHashType(rules))>>

-----------------------------------------------------------------------------
(* The verifier of the federation's leaf. *)

MerkleUp(leaf, path) == FoldLeft(LAMBDA h, p : <<"branch", {h, p}>>, leaf, path)

Commits(control, key, leaf) ==
    /\ TapTweak(control.internal, MerkleUp(leaf, control.path)) = key
    /\ ParityOf(key) = control.parity

\* The first key's signature lies on top of the stack, so it comes last.
SlotOf(items, i) == items[Len(items) + 1 - i]

\* A slot is empty or a signature that verifies; anything else refuses the spend.
SlotOk(tx, at, prevouts, annex, leaf, item, key) ==
    \/ item.len = 0
    \/ /\ SigType(item) # Nil
       /\ SchnorrVerify(DigestFor(tx, at, prevouts, annex, leaf, SigType(item)[1], "bip341"),
                        item, key)

\* Who signed the input, or Nil when it does not verify.
VerifyMultiA(tx, at, prevouts) ==
    LET w == tx.wit[at]
        items == WithoutAnnex(w)
        n == Len(items)
        control == items[n].is
        script == items[n - 1].is
        leaf == LeafHash(control[2].version, script[2])
        parsed == ParseMultiA(script[2])
        slots == SubSeq(items, 1, n - 2)
        signed == {i \in 1 .. n - 2 : SlotOf(slots, i).len > 0}
    IN  IF /\ at \in DOMAIN prevouts /\ at \in DOMAIN tx.ins
           /\ IsP2tr(prevouts[at]) /\ tx.ssig[at] = Nil
           /\ n >= 2 /\ control[1] = "control" /\ script[1] = "script"
           /\ Commits(control[2], prevouts[at][2], leaf)
           /\ control[2].version = "tapscript"
           /\ parsed # Nil /\ n - 2 = Len(parsed[1].signers)
           /\ 50 + WitnessSize(w) >= 50 * Cardinality(signed)
           /\ \A i \in 1 .. n - 2 : SlotOk(tx, at, prevouts, AnnexOf(w), leaf,
                                           SlotOf(slots, i), parsed[1].signers[i])
           /\ Cardinality(signed) = parsed[1].threshold
        THEN <<[signers |-> parsed[1].signers, threshold |-> parsed[1].threshold,
                signed |-> signed]>>
        ELSE Nil

-----------------------------------------------------------------------------
(* The height a coinbase states: the minimal little-endian push. *)

HeightBytes(h) ==
    LET width == Cardinality({n \in 0 .. 3 : h >= 256 ^ n})
        le == [i \in 1 .. width |-> (h \div 256 ^ (i - 1)) % 256]
    IN  IF width > 0 /\ le[width] >= 128 THEN Append(le, 0) ELSE le

HeightPush(h) == LET le == HeightBytes(h) IN <<Len(le)>> \o le

CoinbaseHeight(sig) ==
    LET n == sig[1]
    IN  CASE sig = <<>> -> Nil
          [] n = 0 -> <<0>>
          [] n \in 81 .. 96 -> <<n - 80>>
          [] n > 75 \/ Len(sig) < 1 + n -> Nil
          [] n > 1 /\ sig[n + 1] = 0 /\ sig[n] < 128 -> Nil
          [] sig[n + 1] >= 128 \/ n > 5 \/ (n = 5 /\ sig[6] > 0) -> Nil
          [] OTHER -> <<FoldRight(LAMBDA x, h : h * 256 + x, SubSeq(sig, 2, n + 1), 0)>>

\* The kernel's reading, which the block rules compare: no check of the form.
Bip34HeightLenient(sig) ==
    LET n == sig[1]
        h == FoldRight(LAMBDA x, m : m * 256 + x, SubSeq(sig, 2, Min({n, 4}) + 1), 0)
    IN  CASE sig = <<>> -> Nil
          [] n \in 81 .. 96 -> <<n - 80>>
          [] n \notin 1 .. 5 \/ Len(sig) < 1 + n \/ (n = 5 /\ sig[6] > 0) -> Nil
          [] OTHER -> <<h>>

-----------------------------------------------------------------------------
(* The block: [header, cb, txs].  A transaction is [id, wit], and its id   *)
(* does not commit to its witness.  The coinbase is [sig, wit, outs]: sig  *)
(* is the script up to its tag and the tag, [bytes, tag].  An output script *)
(* is <<"commit", c, rest>> when it starts with a witness commitment; rest *)
(* is Nil or one push.                                                     *)

\* The last output that looks like a commitment, or 0.
CommitmentOutput(b) ==
    Max({0} \cup {i \in DOMAIN b.cb.outs : b.cb.outs[i][1] = "commit"})

\* The coinbase's id, then the others'.
MerkleRoot(b) ==
    <<<<b.cb.sig, b.cb.outs>>>> \o [i \in DOMAIN b.txs |-> b.txs[i].id]

\* The same over ids with witnesses, the coinbase's taken as zeros.
WitnessRoot(txs) == <<Zeros>> \o txs
WitnessCommitment(txs) == <<WitnessRoot(txs), Zeros>>

\* What the rules compare: with the reserved value the coinbase states.
WitnessCommitmentHash(b) ==
    <<WitnessRoot(b.txs), IF b.cb.wit = <<>> THEN Zeros ELSE b.cb.wit[1]>>
WitnessCommitmentIn(b) ==
    IF CommitmentOutput(b) = 0 THEN Nil ELSE <<b.cb.outs[CommitmentOutput(b)][2]>>

Stripped(b) ==
    LET i == CommitmentOutput(b)
    IN  IF i = 0 THEN b ELSE [b EXCEPT !.cb.outs[i] = <<"commit", b.cb.outs[i][2], Nil>>]

Rooted(b) == [b EXCEPT !.header.root = MerkleRoot(b)]

\* The unsigned block of a template [height, prev, time, txs, outs, bits, marker].
BuildBlock(f, t) ==
    LET cb == [sig |-> [bytes |-> Append(HeightPush(t.height), t.marker.len), tag |-> t.marker],
               wit |-> <<Zeros>>,
               outs |-> Append(t.outs, <<"commit", WitnessCommitment(t.txs), Nil>>)]
        header == NewHeader(f, t.prev, Zeros, t.time, t.bits, t.height, Len(t.txs) + 1)
    IN  Rooted([header |-> header, cb |-> cb, txs |-> t.txs])

BlockHeight(b) ==
    IF HeaderHeight(b.header) # Nil THEN HeaderHeight(b.header)
    ELSE CoinbaseHeight(b.cb.sig.bytes)

\* The bytes of a block: its header, then its transactions.
EncodeBlock(b) == [header |-> EncodeHeader(b.header), cb |-> b.cb, txs |-> b.txs]
DecodeBlock(f, e) ==
    LET h == DecodeHeader(f, e.header)
    IN  IF h = Nil THEN Nil ELSE <<[header |-> h[1], cb |-> e.cb, txs |-> e.txs]>>

\* The first 72 bytes of the header over the stripped coinbase: neither the
\* target nor the nonce is signed.
BlockData(b) == SignedPrefix(Rooted(Stripped(b)).header)

\* The spend whose witness is the solution.
ToSign(data, challenge, witness) ==
    [ins |-> <<<<"to_spend", data, challenge>>>>, outs |-> <<"op_return">>,
     ssig |-> <<Nil>>, wit |-> <<witness>>]

\* A path is Nil for the key, or a leaf and an annex.
KeyPath == Nil
ScriptPath(leaf, annex) == <<leaf, annex>>
BlockSighashFor(b, challenge, path) ==
    LET tx == ToSign(BlockData(b), challenge, <<>>)
    IN  IF path = KeyPath THEN TapSighash(tx, 1, <<challenge>>, Nil, Nil, 0)
        ELSE TapSighash(tx, 1, <<challenge>>, path[2], path[1], 0)

\* What the signers of a federation authorise, the same before and after sealing.
TemplateId(b, chain, genesis) ==
    LET t == Rooted(Stripped(b))
    IN  IF BlockHeight(b) = Nil THEN Nil
        ELSE <<chain, IF genesis = Nil THEN Zeros ELSE genesis[1], BlockHeight(b)[1],
               b.header.prev, [t EXCEPT !.header.nonce = 0]>>

\* A push of header and witness, with the width of its operation.
PushWidth(len) == IF len <= 75 THEN 1 ELSE IF len <= 255 THEN 2 ELSE 3

WithSolution(b, witness) ==
    LET i == CommitmentOutput(b)
        len == 4 + WitnessSize(witness)
    IN  IF i = 0 \/ len > 65535 THEN Nil
        ELSE <<[b EXCEPT !.cb.outs[i] =
                    <<"commit", b.cb.outs[i][2],
                      <<[width |-> PushWidth(len), len |-> len, header |-> "signet",
                         body |-> EncodeWitness(witness)]>>>>]>>

EncodedSize(e) ==
    e.count.width + FoldLeft(LAMBDA n, it : n + it.size.width + it.body.len, 0, e.items)

SolutionOf(b) ==
    LET i == CommitmentOutput(b)
    IN  IF i = 0 \/ b.cb.outs[i][3] = Nil THEN Nil
        ELSE LET p == b.cb.outs[i][3][1]
             IN  IF /\ p.len <= CASE p.width = 1 -> 75 [] p.width = 2 -> 255 [] OTHER -> 65535
                    /\ p.len > 0 /\ p.header = "signet" /\ p.len = 4 + EncodedSize(p.body)
                 THEN DecodeWitness(p.body) ELSE Nil

\* The solution in place, the root recomputed and the first nonce that meets
\* the target; no block when there is none.
SealBlock(b, witness) ==
    UNION {LET s == Rooted(w)
               found == {n \in 0 .. MaxNonce : Meets([s.header EXCEPT !.nonce = n])}
           IN  IF found = {} THEN {} ELSE {[s EXCEPT !.header.nonce = Min(found)]} :
           w \in Range(WithSolution(b, witness))}

SignBlock(b, challenge, key) ==
    IF challenge # ChallengeFor(key) THEN {}
    ELSE SealBlock(b, <<SigItem(key, BlockSighashFor(b, challenge, KeyPath), 0)>>)

\* How the solution satisfies the challenge: by the key, or by whose signatures.
VerifyBlockSolution(b, challenge) ==
    LET sol == SolutionOf(b)
        tx == ToSign(BlockData(b), challenge, sol[1])
    IN  CASE sol = Nil -> Nil
          [] sol # Nil /\ Len(WithoutAnnex(sol[1])) <= 1 ->
                IF VerifyTaprootKeyPath(tx, 1, <<challenge>>, "bip341")
                THEN <<[path |-> "key", by |-> Nil]>> ELSE Nil
          [] OTHER ->
                LET by == VerifyMultiA(tx, 1, <<challenge>>)
                IN  IF by = Nil THEN Nil ELSE <<[path |-> "script", by |-> by]>>

-----------------------------------------------------------------------------
(* The rules on one block, each phase as the set of those that fail, and   *)
(* the blocks a chain makes.  Spending and amounts are in ChainRules.      *)

CoinbaseScriptLen(b) == Len(b.cb.sig.bytes) + b.cb.sig.tag.len

ValidateBlockStructure(b, challenge) ==
    LET ok == [merkle_root |-> b.header.root = MerkleRoot(b),
               tx_duplicates |-> IsInjective([i \in DOMAIN b.txs |-> b.txs[i].id]),
               coinbase_script |-> CoinbaseScriptLen(b) \in 2 .. 100,
               block_signature |-> VerifyBlockSolution(b, challenge) # Nil,
               txcount |-> b.header.family = "blake2b" => b.header.txcount = Len(b.txs) + 1]
    IN  {r \in DOMAIN ok : ~ok[r]}

Bip34Ok(b, height) == height >= 1 => Bip34HeightLenient(b.cb.sig.bytes) = <<height>>
WitnessCommitmentOk(b) ==
    (b.cb.wit # <<>> \/ \E i \in DOMAIN b.txs : b.txs[i].wit # Nil)
        => WitnessCommitmentIn(b) = <<WitnessCommitmentHash(b)>>

JudgeBlock(headers, height, b, challenge, now) ==
    JudgeHeader(headers, height, b.header, now) \cup ValidateBlockStructure(b, challenge)
        \cup {r \in {"bip34_height"} : ~Bip34Ok(b, height)}
        \cup {r \in {"witness_commitment"} : ~WitnessCommitmentOk(b)}

Marker == [len |-> 7, is |-> "sidestr"]
GenesisMarker(id) == [len |-> 16 + id.len, is |-> <<"sidestr genesis", id>>]

BuildGenesis(f, doc) ==
    BuildBlock(f, [height |-> 0, prev |-> Zeros, time |-> doc.time, txs |-> <<>>,
                   outs |-> doc.pegs, bits |-> ToCompact(doc.limit), marker |-> GenesisMarker(doc.id)])

\* Block 0 is judged like any other, and is the document's.
JudgeGenesis(f, doc, b, challenge) ==
    JudgeBlock(<<>>, 0, b, challenge, Nil) \cup
    {r \in {"genesis_document"} : \/ BlockData(b) # BlockData(BuildGenesis(f, doc))
                                  \/ b.header.bits # ToCompact(doc.limit)}

\* The next block on the headers of a chain, its transactions and payouts given.
BuildNext(f, doc, headers, asked, txs, outs) ==
    BuildBlock(f, [height |-> Len(headers), prev |-> HeaderHash(Last(headers)),
                   time |-> NextTime(asked, Last(headers)), txs |-> txs, outs |-> outs,
                   bits |-> ToCompact(doc.limit), marker |-> Marker])

\* A block from elsewhere: its height read from it, next on the tip, and judged.
AddBlock(headers, b, challenge, now) ==
    LET h == BlockHeight(b)
    IN  IF h # <<Len(headers)>> \/ b.header.prev # HeaderHash(Last(headers)) THEN {"order"}
        ELSE JudgeBlock(headers, h[1], b, challenge, now)
AddBlockBytes(f, headers, e, challenge, now) ==
    LET b == DecodeBlock(f, e)
    IN  IF b = Nil THEN {"encoding"} ELSE AddBlock(headers, b[1], challenge, now)

-----------------------------------------------------------------------------
(* Sealing by the federation: sigs maps keys to signature items. *)

PartialSignature(b, fed, key) ==
    IF ~IsIn(key, fed.signers) THEN Nil
    ELSE <<SigItem(key, BlockSighashFor(b, fed.challenge, ScriptPath(fed.leaf, Nil)), 0)>>

VerifyPartial(b, fed, key, item) ==
    SchnorrVerify(<<BlockSighashFor(b, fed.challenge, ScriptPath(fed.leaf, Nil))>>, item, key)

\* The slots of the first threshold signers that signed, the others empty.
FirstSigners(fed, keys) ==
    LET have == SelectSeq(fed.signers, LAMBDA k : k \in keys)
    IN  Range(SubSeq(have, 1, fed.threshold))

\* Mutated: every signature at hand is put in.
MutAssembleWitness(fed, sigs) ==
    IF Cardinality(DOMAIN sigs \cap Range(fed.signers)) < fed.threshold THEN Nil
    ELSE <<Reverse([i \in DOMAIN fed.signers |->
                        IF fed.signers[i] \in DOMAIN sigs THEN sigs[fed.signers[i]] ELSE NoItem])
           \o <<ScriptItem(fed.script), ControlItem(fed.control)>>>>

AssembleWitness(fed, sigs) ==
    LET chosen == FirstSigners(fed, DOMAIN sigs)
    IN  IF Cardinality(DOMAIN sigs \cap Range(fed.signers)) < fed.threshold THEN Nil
        ELSE <<Reverse([i \in DOMAIN fed.signers |->
                            IF fed.signers[i] \in chosen THEN sigs[fed.signers[i]] ELSE NoItem])
               \o <<ScriptItem(fed.script), ControlItem(fed.control)>>>>

SealFederated(b, fed, sigs) ==
    UNION {SealBlock(b, w) : w \in Range(AssembleWitness(fed, sigs))}

-----------------------------------------------------------------------------
(* A peg-out transaction is signed as a PSBT [tx, coins, sigs]: sigs[i] is *)
(* the set of [key, leaf, item] of input i, one for a key and a leaf.      *)

PrevoutsOf(psbt) == IF IsIn(Nil, psbt.coins) THEN Nil ELSE psbt.coins

LeafDigest(psbt, i, fed) ==
    TapSighash(psbt.tx, i, PrevoutsOf(psbt), Nil, fed.leaf, 0)

SignPegout(psbt, fed, key) ==
    IF ~IsIn(key, fed.signers) \/ PrevoutsOf(psbt) = Nil THEN Nil
    ELSE <<[psbt EXCEPT !.sigs = [i \in DOMAIN @ |->
               {s \in @[i] : s.key # key \/ s.leaf # fed.leaf} \cup
               {[key |-> key, leaf |-> fed.leaf, item |-> SigItem(key, LeafDigest(psbt, i, fed), 0)]}]]>>

\* Per input the signers whose signature verifies; one that does not is an error.
OurSigs(psbt, fed, i) == {s \in psbt.sigs[i] : s.leaf = fed.leaf /\ IsIn(s.key, fed.signers)}
SigVerifies(psbt, fed, i, s) ==
    SchnorrVerify(DigestFor(psbt.tx, i, psbt.coins, Nil, fed.leaf, s.item.is[4], "bip341"),
                  s.item, s.key)
VerifyPegoutSignatures(psbt, fed) ==
    IF /\ PrevoutsOf(psbt) # Nil
       /\ \A i \in DOMAIN psbt.sigs : \A s \in OurSigs(psbt, fed, i) : SigVerifies(psbt, fed, i, s)
    THEN <<[i \in DOMAIN psbt.sigs |-> {s.key : s \in OurSigs(psbt, fed, i)}]>>
    ELSE Nil

\* Psbt::combine: for one transaction, what the other has is added to the map.
CombineTwo(a, b) ==
    IF a = Nil \/ a[1].tx # b.tx THEN Nil
    ELSE <<[a[1] EXCEPT !.sigs = [i \in DOMAIN @ |->
               {s \in @[i] : ~\E o \in b.sigs[i] : o.key = s.key /\ o.leaf = s.leaf}
               \cup b.sigs[i]]]>>
CombinePegouts(psbts) ==
    IF psbts = <<>> THEN Nil ELSE FoldLeft(CombineTwo, <<Head(psbts)>>, Tail(psbts))

PegoutWitness(fed, sigs) ==
    LET chosen == FirstSigners(fed, {s.key : s \in sigs})
    IN  Reverse([i \in DOMAIN fed.signers |->
                    IF fed.signers[i] \in chosen
                    THEN (CHOOSE s \in sigs : s.key = fed.signers[i]).item ELSE NoItem])
        \o <<ScriptItem(fed.script), ControlItem(fed.control)>>

FinalizePegout(psbt, fed) ==
    IF \E i \in DOMAIN psbt.sigs : Cardinality(OurSigs(psbt, fed, i)) < fed.threshold
    THEN Nil
    ELSE <<[psbt.tx EXCEPT !.wit = [i \in DOMAIN psbt.sigs |->
                                        PegoutWitness(fed, OurSigs(psbt, fed, i))]]>>

VerifyPegoutTransaction(tx, prevouts) ==
    IF \E i \in DOMAIN tx.ins : VerifyMultiA(tx, i, prevouts) = Nil THEN Nil
    ELSE [i \in DOMAIN tx.ins |-> VerifyMultiA(tx, i, prevouts)[1]]

=============================================================================
