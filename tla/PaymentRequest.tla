--------------------------- MODULE PaymentRequest ---------------------------
(***************************************************************************)
(* bitcoin: payment requests (sidestr-wallet/src/bip21.rs).  A request is  *)
(* [address, sats, label, message], sats optional and words sequences of   *)
(* characters.  A URI is [scheme, fragment, address, params], a parameter  *)
(* <<key, value>>: an amount is a decimal [int, frac] of digits, any other *)
(* value a sequence of characters, escaped or not.                         *)
(***************************************************************************)
EXTENDS Integers, Sequences, FiniteSets, SequencesExt, FiniteSetsExt

CONSTANTS
    Decimals,       \* digits after the point
    MaxCoins,       \* the most coins there are
    MaxWords        \* the most UTF-16 units a label or a message has

ASSUME PaymentRequestAssumption == {Decimals, MaxCoins, MaxWords} \subseteq Nat

SatsPerCoin == 10 ^ Decimals
MaxSats == MaxCoins * SatsPerCoin

(***************************************************************************)
(* Words.  "clef" stands for the characters of two UTF-16 units.           *)
(***************************************************************************)
Units(c) == IF c = "clef" THEN 2 ELSE 1
Length(text) == FoldSeq(LAMBDA c, n : n + Units(c), 0, text)
Words(text) == IF Length(text) > MaxWords THEN {} ELSE {text}
CapUtf16(text, max) == SubSeq(text, 1, Max({n \in 0 .. Len(text) : Length(SubSeq(text, 1, n)) <= max}))

Unreserved(c) == c = "letter"
PercentEncode(text) == [i \in DOMAIN text |-> <<IF Unreserved(text[i]) THEN "as is" ELSE "escaped", text[i]>>]

\* A plus stands for a space; a broken escape is refused.
PercentDecode(raw) ==
    IF \E i \in DOMAIN raw : raw[i][1] = "broken" THEN {}
    ELSE {[i \in DOMAIN raw |-> IF raw[i] = <<"as is", "plus">> THEN "space" ELSE raw[i][2]]}

(***************************************************************************)
(* Amounts.                                                                *)
(***************************************************************************)
DigitsOf(n) ==
    LET d[k \in 0 .. n] == IF k < 10 THEN <<k>> ELSE Append(d[k \div 10], k % 10) IN d[n]

\* Exactly width digits, zeros in front.
Padded(n, width) == [i \in 1 .. width |-> (n \div 10 ^ (width - i)) % 10]

MutTrimmed(digits) == SelectSeq(digits, LAMBDA d : d # 0)      \* Mutated: every zero goes.

\* Zeros at the end go.
Trimmed(digits) == SubSeq(digits, 1, Max({0} \cup {i \in DOMAIN digits : digits[i] # 0}))

SatsToCoins(sats) ==
    [int |-> DigitsOf(sats \div SatsPerCoin), frac |-> Trimmed(Padded(sats % SatsPerCoin, Decimals))]

\* Digit by digit, refused as soon as there are more coins than exist.
CoinsToSats(v) ==
    LET whole == FoldLeft(LAMBDA n, d : IF n > MaxCoins THEN n ELSE n * 10 + d, 0, v.int)
        part == FoldLeft(LAMBDA n, i : n * 10 + (IF i \in DOMAIN v.frac THEN v.frac[i] ELSE 0), 0,
                         [i \in 1 .. Decimals |-> i])
        sats == whole * SatsPerCoin + part
    IN  IF \/ v.int = <<>> /\ v.frac = <<>>
           \/ Len(v.frac) > Decimals \/ whole > MaxCoins \/ sats > MaxSats
        THEN {} ELSE {sats}

(***************************************************************************)
(* Requests.                                                               *)
(***************************************************************************)
New(address) == [address |-> address, sats |-> {}, label |-> <<>>, message |-> <<>>]
WithAmount(r, sats) == IF sats = 0 \/ sats > MaxSats THEN {} ELSE {[r EXCEPT !.sats = {sats}]}
WithLabel(r, label) == {[r EXCEPT !.label = l] : l \in Words(label)}
WithMessage(r, message) == {[r EXCEPT !.message = l] : l \in Words(message)}

ToUri(r) ==
    [scheme |-> TRUE, fragment |-> FALSE, address |-> r.address,
     params |-> SetToSeq({<<"amount", SatsToCoins(n)>> : n \in r.sats})
                  \o (IF r.label = <<>> THEN <<>> ELSE <<<<"label", PercentEncode(r.label)>>>>)
                  \o (IF r.message = <<>> THEN <<>> ELSE <<<<"message", PercentEncode(r.message)>>>>)]

\* One parameter, on the request read so far.
Param(r, p) ==
    CASE p[1] = "amount" -> IF r.sats # {} THEN {}
                            ELSE {[r EXCEPT !.sats = {n}] : n \in CoinsToSats(p[2]) \ {0}}
      [] p[1] = "label" -> {[r EXCEPT !.label = CapUtf16(t, MaxWords)] : t \in PercentDecode(p[2])}
      [] p[1] = "message" -> {[r EXCEPT !.message = CapUtf16(t, MaxWords)] : t \in PercentDecode(p[2])}
      [] p[1] = "req" -> {}
      [] OTHER -> {r : t \in PercentDecode(p[2])}

\* What a text asks for: no request, or a request it refuses to read, is the empty set.
Parse(uri) ==
    IF ~uri.scheme \/ uri.fragment \/ uri.address = "" THEN {}
    ELSE FoldLeft(LAMBDA rs, p : UNION {Param(r, p) : r \in rs}, {New(uri.address)}, uri.params)
=============================================================================
