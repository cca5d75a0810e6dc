------------------------------ MODULE Headers ------------------------------
(***************************************************************************)
(* Block headers of the two families a parent decides between              *)
(* (sidestr-header/src, and the family boundary of sidestr-core/src/       *)
(* block.rs): the stock 80 bytes and Knots' 164-byte second version, their *)
(* codec, their hash, the compact target, and the header phase of the      *)
(* rules (sidestr-core/src/rules.rs) as State::judge runs it.              *)
(*                                                                         *)
(* A hash is the tuple of what it is made from.  A header is a record with *)
(* the field family; its version is bit 31 and the other bits, its time is *)
(* the time on the wire, and its bits are a size and a mantissa.           *)
(***************************************************************************)
EXTENDS Integers, SequencesExt, FiniteSetsExt

CONSTANTS
    TimeSize,       \* times are below this: 2^32
    TimeSlack,      \* max_future_block_time, and what judge adds to the clock: 7200
    MedianSpan,     \* how many headers the median is taken of: 11
    MaxTxCount,     \* the largest count a header holds: 2^16 - 1
    Meets(_)        \* whether a header's hash is at most the target of its bits

ASSUME HeadersAssumption ==
    /\ TimeSize \in Nat \ {0} /\ TimeSlack \in Nat
    /\ MedianSpan \in Nat \ {0} /\ MaxTxCount \in Nat

Nil == <<>>         \* an absent value, and every error
Zeros == <<"zeros">>
Families == {"stock", "blake2b"}
Flag31(h) == h.version.v2

-----------------------------------------------------------------------------
(* The layout: the fields in order, each with its bytes. *)

StockLayout ==
    <<<<"version", 4>>, <<"prev", 32>>, <<"root", 32>>, <<"time", 4>>, <<"bits", 4>>,
      <<"nonce", 4>>>>
V2Layout ==
    StockLayout \o
    <<<<"nonce2", 4>>, <<"nonce3", 4>>, <<"extranonce", 16>>, <<"offset", 4>>, <<"txcount", 2>>,
      <<"flags", 1>>, <<"clear", 1>>, <<"xorkey", 16>>, <<"height", 4>>, <<"mm", 32>>>>
Layout(f) == IF f = "stock" THEN StockLayout ELSE V2Layout
Bytes(wire) == FoldLeft(LAMBDA n, x : n + x.len, 0, wire)
WireSize(f) == IF f = "stock" THEN 80 ELSE 164

EncodeHeader(h) ==
    [i \in DOMAIN Layout(h.family) |->
        [len |-> Layout(h.family)[i][2], is |-> h[Layout(h.family)[i][1]]]]

\* Exactly the family's bytes, and bit 31 of the version as the family has it.
DecodeHeader(f, wire) ==
    LET at(name) == CHOOSE i \in DOMAIN Layout(f) : Layout(f)[i][1] = name
        names == {Layout(f)[i][1] : i \in DOMAIN Layout(f)}
    IN  IF Bytes(wire) # WireSize(f) \/ wire[1].is.v2 # (f = "blake2b") THEN Nil
        ELSE <<[n \in names \cup {"family"} |-> IF n = "family" THEN f ELSE wire[at(n)].is]>>

\* What a block's signature commits to: the first 72 bytes.
SignedPrefix(h) == SubSeq(EncodeHeader(h), 1, 4)

\* The unsigned header of a template.
StockHeader(prev, root, time, bits) ==
    [family |-> "stock", version |-> [v2 |-> FALSE, low |-> 536870912], prev |-> prev,
     root |-> root, time |-> time, bits |-> bits, nonce |-> 0]
V2Header(prev, root, time, bits, height, count) ==
    [family |-> "blake2b", version |-> [v2 |-> TRUE, low |-> 536870912], prev |-> prev,
     root |-> root, time |-> time, bits |-> bits, nonce |-> 0, nonce2 |-> 0, nonce3 |-> 0,
     extranonce |-> 0, offset |-> 0, txcount |-> Min({count, MaxTxCount}), flags |-> 0,
     clear |-> 0, xorkey |-> 0, height |-> height, mm |-> Zeros]
NewHeader(f, prev, root, time, bits, height, count) ==
    IF f = "stock" THEN StockHeader(prev, root, time, bits)
    ELSE V2Header(prev, root, time, bits, height, count)

-----------------------------------------------------------------------------
(* What the fields mean. *)

UsesTimeOffset(h) == (h.flags \div 4) % 2 = 1
AsicProfile(h) == h.flags % 4
FlagsOk(h) == h.flags \div 64 = 0

\* The consensus time.
Time(h) ==
    IF h.family = "blake2b" /\ UsesTimeOffset(h) THEN (h.time + h.offset) % TimeSize ELSE h.time

HeaderHeight(h) == IF h.family = "blake2b" THEN <<h.height>> ELSE Nil

\* A stock version is signed, so bit 31 makes it negative; the other is not.
VersionAtLeast(h, n) == IF Flag31(h) THEN h.family = "blake2b" ELSE h.version.low >= n

\* The commitment tree of the second version: two tagged hashes, two rounds of
\* BLAKE2b of which the profile orders the second, and a mask.
V2Hash(h) ==
    LET mask == IF h.xorkey = 0 THEN <<0, 0>> ELSE <<h.xorkey, h.clear>>
        h1 == <<h.version, h.prev, h.height, h.root, h.time, h.bits, h.txcount, h.flags,
                h.clear, <<"xor key", h.xorkey>>>>
        h2 == <<"merge-mining hook", h1, h.mm>>
        b1 == <<h2, h.extranonce>>
        b2 == CASE AsicProfile(h) = 0 ->
                      <<0, <<"hidden", h.prev>>, h.nonce, h.nonce2, h.offset, h.nonce3, b1>>
                [] AsicProfile(h) = 1 -> <<1, h.nonce, h.nonce2, h.nonce3, h.offset, b1, h2>>
                [] OTHER -> <<AsicProfile(h), h2, h.nonce, h.nonce2, h.offset, h.nonce3, b1>>
    IN  <<"blake2b", b2, mask>>
HeaderHash(h) == IF h.family = "stock" THEN <<"sha256d", EncodeHeader(h)>> ELSE V2Hash(h)

-----------------------------------------------------------------------------
(* The compact form of a target, which is a sequence of bytes, the most    *)
(* significant first.                                                      *)

Value(bytes) == FoldLeft(LAMBDA n, x : n * 256 + x, 0, bytes)
SignBit == 8388608

ToCompact(t) ==
    LET digits == {i \in DOMAIN t : t[i] # 0}
        first == Min(digits)
        size == Len(t) + 1 - first
        word == IF size <= 3 THEN Value(SubSeq(t, first, Len(t))) * 256 ^ (3 - size)
                ELSE Value(SubSeq(t, first, first + 2))
    IN  CASE digits = {} -> [size |-> 0, mant |-> 0]
          [] word >= SignBit -> [size |-> size + 1, mant |-> word \div 256]
          [] OTHER -> [size |-> size, mant |-> word]

\* Into a target of the given width; a negative or too large number is an error.
FromCompact(c, width) ==
    LET low == c.mant % SignBit
        word == IF c.size <= 3 THEN low \div 256 ^ (3 - c.size) ELSE low
        shift == IF c.size <= 3 THEN 0 ELSE c.size - 3
        byte(pos) == IF pos \in shift .. shift + 2 THEN (word \div 256 ^ (pos - shift)) % 256 ELSE 0
    IN  IF \/ low # 0 /\ c.mant >= SignBit
           \/ \E pos \in width .. shift + 2 : byte(pos) # 0
        THEN Nil
        ELSE <<[i \in 1 .. width |-> byte(width - i)]>>

\* The header carries the limit's compact form and meets it.
CheckPow(h, limit) ==
    /\ h.bits = ToCompact(limit) /\ FromCompact(h.bits, Len(limit)) # Nil
    /\ Meets(h)

-----------------------------------------------------------------------------
(* The header phase. *)

LastOf(s, n) == SubSeq(s, Max({1, Len(s) - n + 1}), Len(s))

\* The middle of the last times in order, the later of two.
MedianTimePast(window) ==
    LET recent == LastOf(window, MedianSpan)
        upTo(t) == Cardinality({i \in DOMAIN recent : Time(recent[i]) <= t})
    IN  Min({Time(recent[i]) : i \in {j \in DOMAIN recent :
                                        upTo(Time(recent[j])) > Len(recent) \div 2}})

\* The heights from which the three version rules hold are all 1.
MinVersion(height) == IF height >= 1 THEN 4 ELSE 1

FamilyHeaderRules(h, height) ==
    h.family = "blake2b" => Flag31(h) /\ h.height = height /\ FlagsOk(h)

\* The rules that fail; one that lacks what it needs is skipped.
ValidateHeader(h, ctx) ==
    LET ok == [prev_link |-> ctx.prev = Nil \/ h.prev = HeaderHash(ctx.prev[1]),
               pow |-> Meets(h),
               difficulty |-> ctx.prev = Nil \/ h.bits = ctx.prev[1].bits,
               mtp |-> \/ ctx.window = <<>> \/ Len(ctx.window) < Min({MedianSpan, ctx.height})
                       \/ Time(h) > MedianTimePast(ctx.window),
               future |-> ctx.now = Nil \/ Time(h) <= ctx.now[1] + TimeSlack,
               version |-> VersionAtLeast(h, MinVersion(ctx.height)),
               family |-> FamilyHeaderRules(h, ctx.height)]
    IN  {r \in DOMAIN ok : ~ok[r]}

\* What judge passes on: the headers below the height, and a clock that is
\* ahead by the slack already.
JudgeHeader(headers, height, h, now) ==
    LET end == Min({height, Len(headers)})
    IN  ValidateHeader(h, [height |-> height,
                           prev |-> IF height \in DOMAIN headers THEN <<headers[height]>> ELSE Nil,
                           window |-> LastOf(SubSeq(headers, 1, end), MedianSpan),
                           now |-> IF now = Nil THEN Nil
                                   ELSE <<Min({now[1] + TimeSlack, TimeSize - 1})>>])

\* The time of the next block on a tip.
NextTime(asked, tip) == Max({asked, Min({Time(tip) + 1, TimeSize - 1})})
=============================================================================
