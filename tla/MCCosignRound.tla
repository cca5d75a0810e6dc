--------------------------- MODULE MCCosignRound ---------------------------
(***************************************************************************)
(* The co-signing round on a small federation, with the functions it seals *)
(* by.  Keys 1 to n are the signers', key 9 is nobody's.                   *)
(***************************************************************************)
EXTENDS CosignRound, Sealing

Key(i) == <<"key", i>>
Keys(n) == [i \in 1 .. n |-> Key(i)]
Fed(n, k) == Federation("chain", Keys(n), k)[1]
Feds == {Fed(n, k) : <<n, k>> \in {p \in (1 .. 3) \X (1 .. 3) : p[2] <= p[1]}}

\* A hash meets the limit for every second nonce, and the target 0 for none.
SmallMeets(h) == h.bits.size > 0 /\ (h.nonce + h.time) % 2 = 0
Limit == <<127, 255, 255, 255, 255>>

\* A block whose coinbase also pays to something like a commitment.
Tx(i) == [id |-> <<"tx", i>>, wit |-> <<"witness", i>>]
Made(f, t, bits) ==
    BuildBlock(f, [prev |-> Zeros, time |-> t, height |-> 300, txs |-> <<Tx(1)>>, bits |-> bits,
                   outs |-> <<<<"pay", 1>>, <<"commit", <<"fake">>, Nil>>>>, marker |-> Marker])
This == Made("stock", 1, ToCompact(Limit))
Other == Made("stock", 2, ToCompact(Limit))
MessageOf(b, fed) == BlockSighashFor(b, fed.challenge, ScriptPath(fed.leaf, Nil))

\* Whoever signed: a threshold of them is enough and needed, and sealing
\* changes nothing that was signed or that identifies the template.
QuorumSeals ==
    \A fed \in Feds : \A S \in SUBSET (Range(fed.signers) \cup {Key(9)}) :
    \A f \in Families : \A bits \in {ToCompact(Limit), ToCompact(<<0>>)} :
        LET block == Made(f, 1, bits)
            sigs == [k \in S |-> SigItem(k, MessageOf(block, fed), 0)]
            blocks == SealFederated(block, fed, sigs)
        IN  /\ \A k \in S \ {Key(9)} : PartialSignature(block, fed, k) = <<sigs[k]>>
            /\ (blocks # {}) <=> /\ Cardinality(S \ {Key(9)}) >= fed.threshold
                                /\ bits = ToCompact(Limit)
            /\ \A b \in blocks :
                  /\ \E v \in Range(VerifyBlockSolution(b, fed.challenge)) :
                        /\ v.path = "script"
                        /\ {Key(i) : i \in v.by[1].signed} \subseteq S
                        /\ Cardinality(v.by[1].signed) = fed.threshold
                  /\ \A k \in S : VerifyPartial(b, fed, k, sigs[k])
                  /\ TemplateId(b, "chain", Nil) = TemplateId(block, "chain", Nil)
                  /\ HeaderHash(b.header) # HeaderHash(block.header) /\ Rooted(b) = b

\* The witnesses that can be put together when only S signed this block.
Pool(fed, S) ==
    {NoItem, SigItem(Key(9), MessageOf(This, fed), 0), Item(63, <<"junk">>)}
    \cup {SigItem(k, MessageOf(This, fed), 0) : k \in S}
    \cup {SigItem(k, MessageOf(Other, fed), 0) : k \in Range(fed.signers)}
Tails(fed) ==
    {<<ScriptItem(s), ControlItem(c)>> \o a :
        s \in {fed.script, LeafScript(fed.signers, 1), LeafScript(<<Key(9)>>, 1)},
        c \in {fed.control, [fed.control EXCEPT !.version = "other"],
               [fed.control EXCEPT !.parity = 1], [fed.control EXCEPT !.internal = Key(9)]},
        a \in {<<>>, <<Item(2, <<"annex", 0>>)>>}}
Witnesses(fed, S) ==
    UNION {{slots \o t : slots \in [1 .. n -> Pool(fed, S)], t \in Tails(fed) \cup {<<>>}} :
           n \in 1 .. Len(fed.signers)}

\* Fewer than the threshold never do it, whatever witness is made of what
\* they signed.
FewerDoNot ==
    \A fed \in {Fed(2, 2), Fed(3, 2)} : \A w \in Witnesses(fed, {Key(2)}) :
        \A b \in SealBlock(This, w) : VerifyBlockSolution(b, fed.challenge) = Nil
EnoughDo ==
    \E w \in Witnesses(Fed(2, 2), {Key(1), Key(2)}) : \E b \in SealBlock(This, w) :
        VerifyBlockSolution(b, Fed(2, 2).challenge) # Nil

\* What is pushed into the coinbase is read back, at every width of a length.
ReadsBack ==
    /\ \A n \in {0, 1} \cup (65 .. 75) \cup (240 .. 260) \cup (65520 .. 65536) :
          LET w == <<Item(n, <<"any">>)>>
              b == WithSolution(This, w)
          IN  IF 4 + WitnessSize(w) > 65535 THEN b = Nil ELSE SolutionOf(b[1]) = <<w>>
    /\ \A h \in {0, 1, 16, 17, 75, 76, 81, 96, 127, 128, 255, 256, 32767, 32768, 65535, 65536,
                 8388607, 8388608, 16777215, 16777216, 2147483647} :
          LET sig == HeightPush(h) \o <<7, 1>>
          IN  CoinbaseHeight(sig) = <<h>> /\ (h > 0 => Bip34HeightLenient(sig) = <<h>>)

\* A chain of one signer, and a wallet's spend under each family's rules.
KeyPathSigns ==
    /\ \A b \in SignBlock(This, ChallengeFor(Key(1)), Key(1)) :
          /\ VerifyBlockSolution(b, ChallengeFor(Key(1))) = <<[path |-> "key", by |-> Nil]>>
          /\ BlockData(b) = BlockData(This)
    /\ SignBlock(This, ChallengeFor(Key(1)), Key(1)) # {} /\ SignBlock(This, ChallengeFor(Key(1)), Key(2)) = {}
    /\ \A rules, under \in {"bip341", "unified"} : \A i \in 1 .. 2 :
          LET coins == <<ChallengeFor(Key(1)), ChallengeFor(Key(2))>>
              tx == [ins |-> <<"a", "b">>, outs |-> <<"o">>, ssig |-> <<Nil, Nil>>]
              item == SigItem(Key(i), KeyPathSighash(tx, i, coins, rules)[1], KeyPathHashType(rules))
              spent == [ins |-> tx.ins, outs |-> tx.outs, ssig |-> tx.ssig,
                        wit |-> [j \in 1 .. 2 |-> <<item>>]]
          IN  /\ VerifyTaprootKeyPath(spent, i, coins, under) <=> (rules = "bip341" \/ under = rules)
              /\ ~VerifyTaprootKeyPath(spent, 3 - i, coins, under)

\* A document that states a challenge states the one its signers derive.
DocumentsDerive ==
    \A k \in 1 .. 3 : \A c \in {Nil, Fed(3, 1).challenge, Fed(3, 2).challenge} :
        LET fed == ForDocument([id |-> "chain", signers |-> Keys(3), threshold |-> <<k>>,
                                challenge |-> c])
        IN  fed = IF c \in {Nil, Fed(3, k).challenge} THEN <<Fed(3, k)>> ELSE Nil

(* Headers of the two families, and the blocks a chain makes of itself. *)

\* A header of each family with any one field different.
Plain(f) == NewHeader(f, Zeros, Zeros, 1, ToCompact(Limit), 2, 3)
Changes ==
    [version |-> {[v2 |-> FALSE, low |-> 3], [v2 |-> TRUE, low |-> 4]}, time |-> {0, 5},
     nonce |-> {1}, nonce2 |-> {1}, nonce3 |-> {1}, extranonce |-> {1}, offset |-> {4},
     txcount |-> {4}, flags |-> {1, 2, 3, 4, 64}, clear |-> {1}, xorkey |-> {1}, height |-> {3}]
SomeHeaders(f) ==
    {Plain(f)} \cup
    UNION {{[Plain(f) EXCEPT ![n] = x] : x \in Changes[n]} : n \in DOMAIN Plain(f) \cap DOMAIN Changes}

\* A header is read back by its own family alone, only when bit 31 says so, and
\* its hash commits to every field.
HeadersReadBack ==
    \A f, g \in Families :
        /\ Bytes(EncodeHeader(Plain(f))) = WireSize(f)
        /\ Bytes(SignedPrefix(Plain(f))) = 72
        /\ \A h \in SomeHeaders(f) :
              /\ DecodeHeader(g, EncodeHeader(h))
                    = IF f = g /\ h.version.v2 = (f = "blake2b") THEN <<h>> ELSE Nil
              /\ \A o \in SomeHeaders(f) : HeaderHash(h) = HeaderHash(o) => h = o

\* A target's compact form is never refused and loses less than its last byte
\* counts; what it stands for is never easier than the limit.
SampleBytes == {0, 1, 127, 128, 255}
Below(s, t) == s = t \/ \E i \in DOMAIN s : s[i] < t[i] /\ \A j \in 1 .. i - 1 : s[j] = t[j]
CompactIsClose ==
    \A t \in [1 .. 5 -> SampleBytes] :
        \E u \in Range(FromCompact(ToCompact(t), 5)) :
            /\ Below(u, t) /\ ToCompact(u) = ToCompact(t)
            /\ \A i \in 1 .. 5 : (\E j \in 1 .. i - 1 : j + 1 < i /\ t[j] # 0) \/ u[i] = t[i]

\* A chain of one signer whose blocks were asked for at the given times, as
\* its signer may ask for any.
Doc(len, f) == [id |-> [len |-> len, is |-> f], time |-> 0, limit |-> Limit, pegs |-> <<<<"pay", 5>>>>]
SealedBy(b) == CHOOSE s \in SignBlock(b, ChallengeFor(Key(1)), Key(1)) : TRUE
AskedAt(f, times) ==
    FoldLeft(LAMBDA hs, t : Append(hs, SealedBy(BuildBlock(f,
                 [height |-> Len(hs), prev |-> HeaderHash(Last(hs)), time |-> t, txs |-> <<>>,
                  outs |-> <<>>, bits |-> ToCompact(Limit), marker |-> Marker])).header),
             <<SealedBy(BuildGenesis(f, Doc(8, f))).header>>, times)
Times == 0 .. TimeSize - 1
Histories(f) ==
    {hs \in {AskedAt(f, ts) : ts \in UNION {[1 .. n -> Times] : n \in 0 .. 3}} :
        \A i \in 2 .. Len(hs) : JudgeHeader(SubSeq(hs, 1, i - 1), i - 1, hs[i], Nil) = {}}

\* Whatever times a chain has seen, the next block it makes passes every rule
\* but these: at the end of time none is later than the median, and a block may
\* be too far ahead of the judge's clock.  The slack counts twice.
NextBlockPasses ==
    \A f \in Families : \A hs \in Histories(f) : \A asked, clock \in Times :
        LET b == SealedBy(BuildNext(f, Doc(8, f), hs, asked, <<>>, <<>>))
            failed == AddBlockBytes(f, hs, EncodeBlock(b), ChallengeFor(Key(1)), <<clock>>)
        IN  /\ \A g \in Families \ {f} :
                  AddBlockBytes(g, hs, EncodeBlock(b), ChallengeFor(Key(1)), Nil) = {"encoding"}
            /\ failed \subseteq {"mtp", "future"}
            /\ "mtp" \in failed => Time(Last(hs)) = TimeSize - 1
            /\ "future" \in failed <=>
                  NextTime(asked, Last(hs)) > Min({clock + TimeSlack, TimeSize - 1}) + TimeSlack

\* The genesis passes unless the chain's name is too long for its coinbase, and
\* a block unless it has more transactions than its header counts.
BuiltBlocksPass ==
    \A f \in Families :
        /\ \A len \in 0 .. 90 :
              JudgeGenesis(f, Doc(len, f), SealedBy(BuildGenesis(f, Doc(len, f))), ChallengeFor(Key(1)))
                = IF len > 82 THEN {"coinbase_script"} ELSE {}
        /\ \A n \in 0 .. MaxTxCount + 1 :
              LET hs == AskedAt(f, <<1>>)
                  b == BuildNext(f, Doc(8, f), hs, 2, [i \in 1 .. n |-> Tx(i)], <<>>)
              IN  AddBlock(hs, SealedBy(b), ChallengeFor(Key(1)), Nil)
                    = IF f = "blake2b" /\ n >= MaxTxCount THEN {"txcount"} ELSE {}

(* One payment of two peg coins, signed as PSBTs that travel apart. *)

Spend(fed, id) ==
    [tx |-> [ins |-> <<<<id, 1>>, <<id, 2>>>>, outs |-> <<"burn", "marker", "change">>,
             ssig |-> <<Nil, Nil>>, wit |-> <<<<>>, <<>>>>],
     coins |-> <<fed.challenge, fed.challenge>>, sigs |-> <<{}, {}>>]
SignedBy(fed, i) == SignPegout(Spend(fed, "this"), fed, Key(i))[1]

\* A signature of signer i over another payment, put into this one.
Stale(fed, i) ==
    [Spend(fed, "this") EXCEPT !.sigs = SignPegout(Spend(fed, "that"), fed, Key(i))[1].sigs]
Orders == UNION {[1 .. n -> 1 .. 3] : n \in 1 .. 4}

\* The copies signers return, combined in any order and with repeats, are
\* finalised exactly when a threshold of signers signed, and the result
\* verifies at every input.  A copy of another transaction does not combine,
\* and a signature over another payment is refused.
QuorumPays ==
    \A k \in 1 .. 3 : \A fed \in {Fed(3, k)} :
        /\ \A o \in Orders : \A p \in Range(CombinePegouts([j \in DOMAIN o |-> SignedBy(fed, o[j])])) :
              /\ VerifyPegoutSignatures(p, fed)
                    = <<[i \in 1 .. 2 |-> {Key(s) : s \in Range(o)}]>>
              /\ (FinalizePegout(p, fed) # Nil) <=> Cardinality(Range(o)) >= k
              /\ \A tx \in Range(FinalizePegout(p, fed)) :
                    \E v \in {VerifyPegoutTransaction(tx, p.coins)} :
                        /\ v # Nil
                        /\ \A i \in 1 .. 2 : v[i].signed \subseteq Range(o)
                                             /\ Cardinality(v[i].signed) = k
        /\ CombinePegouts(<<Spend(fed, "this"), Spend(fed, "that")>>) = Nil
        /\ \A i, j \in 1 .. 3 :
              VerifyPegoutSignatures(CombinePegouts(<<SignedBy(fed, i), Stale(fed, j)>>)[1], fed)
                = Nil

(***************************************************************************)
(* Sealing and verifying agree: seal_federated succeeds exactly for K      *)
(* partial signatures of signers, what it makes verify_block_solution      *)
(* accepts and keeps the sighash and the template id, and no witness made  *)
(* of the signatures of fewer signers is accepted.  The same holds of a    *)
(* peg-out's PSBTs (combine_pegout_psbts, finalize_pegout_psbt).  The      *)
(* solution, the coinbase's height, the document's challenge and a header  *)
(* of either family read back as written, and the block a chain builds on  *)
(* itself (build_next_with) passes the rules it is judged by               *)
(* (validate_header, validate_block_structure) whatever times the chain    *)
(* has seen, but where a 32-bit time or a 16-bit count ends.               *)
(***************************************************************************)
SealsNeedQuorum ==
    Init => /\ QuorumSeals /\ FewerDoNot /\ EnoughDo
            /\ QuorumPays
            /\ ReadsBack /\ KeyPathSigns /\ DocumentsDerive
            /\ HeadersReadBack /\ CompactIsClose /\ NextBlockPasses /\ BuiltBlocksPass
============================================================================
