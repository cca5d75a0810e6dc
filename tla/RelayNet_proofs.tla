--------------------------- MODULE RelayNet_proofs ---------------------------
(***************************************************************************)
(* Proofs about the relays, for any relays, chain, foreign events, rival   *)
(* mirror and bounds: an acknowledgement is only ever for an event the     *)
(* relay keeps, and a resolved chain is the one that was asked for.        *)
(*                                                                         *)
(* The invariant is stated for one session and one relay at a time         *)
(* (LinkOK, RelayOK); what a publish means to the process that made it is  *)
(* NodeOK and AgentOK.  An id is the hash of its event, so that the one    *)
(* event a session publishes is the one an acknowledgement of its id is    *)
(* about (IdsDiffer).                                                      *)
(***************************************************************************)
EXTENDS RelayNet, FiniteSetTheorems, TLAPS
-----------------------------------------------------------------------------
(* Sequences, sets and events. *)

IsSeq(q) == \E S : q \in Seq(S)

LEMMA SeqIs ==
    ASSUME NEW q, IsSeq(q)
    PROVE  Len(q) \in Nat /\ DOMAIN q = 1 .. Len(q)
  BY DEF IsSeq

LEMMA EmptyIs == IsSeq(<<>>) /\ Range(<<>>) = {}
  <1>1. <<>> \in Seq({})
    OBVIOUS
  <1> QED  BY <1>1 DEF IsSeq, Range

LEMMA AppendIs ==
    ASSUME NEW q, IsSeq(q), NEW x
    PROVE  IsSeq(Append(q, x)) /\ Range(Append(q, x)) = Range(q) \cup {x}
  <1>1. PICK S : q \in Seq(S)
    BY DEF IsSeq
  <1>2. q \in Seq(S \cup {x}) /\ x \in S \cup {x}
    BY <1>1
  <1>3. Append(q, x) \in Seq(S \cup {x}) /\ DOMAIN Append(q, x) = 1 .. Len(q) + 1 /\ DOMAIN q = 1 .. Len(q)
        /\ Len(q) \in Nat /\ \A i \in 1 .. Len(q) + 1 : Append(q, x)[i] = IF i <= Len(q) THEN q[i] ELSE x
    BY <1>2
  <1>4. PICK a : a = Append(q, x)
    OBVIOUS
  <1>5. Range(a) \subseteq Range(q) \cup {x}
    BY <1>3, <1>4 DEF Range
  <1>6. Range(q) \subseteq Range(a)
    BY <1>3, <1>4 DEF Range
  <1>7. x \in Range(a)
    <2>1. Len(q) + 1 \in DOMAIN a /\ a[Len(q) + 1] = x
      BY <1>3, <1>4
    <2> QED  BY <2>1 DEF Range
  <1> QED  BY <1>3, <1>4, <1>5, <1>6, <1>7 DEF IsSeq

LEMMA ConcatIs ==
    ASSUME NEW q, IsSeq(q), NEW s, IsSeq(s)
    PROVE  IsSeq(q \o s) /\ Range(q \o s) = Range(q) \cup Range(s)
  <1>1. PICK S : q \in Seq(S)
    BY DEF IsSeq
  <1>2. PICK T : s \in Seq(T)
    BY DEF IsSeq
  <1>3. q \in Seq(S \cup T) /\ s \in Seq(S \cup T)
    BY <1>1, <1>2
  <1>4. PICK a : a = q \o s
    OBVIOUS
  <1>5. /\ a \in Seq(S \cup T) /\ DOMAIN a = 1 .. Len(q) + Len(s)
        /\ DOMAIN q = 1 .. Len(q) /\ DOMAIN s = 1 .. Len(s) /\ Len(q) \in Nat /\ Len(s) \in Nat
        /\ \A i \in 1 .. Len(q) + Len(s) : a[i] = IF i <= Len(q) THEN q[i] ELSE s[i - Len(q)]
    BY <1>3, <1>4
  <1>6. Range(a) \subseteq Range(q) \cup Range(s)
    BY <1>5 DEF Range
  <1>7. Range(q) \subseteq Range(a)
    BY <1>5 DEF Range
  <1>8. Range(s) \subseteq Range(a)
    <2>1. ASSUME NEW i \in DOMAIN s PROVE s[i] \in Range(a)
      <3>1. i + Len(q) \in DOMAIN a /\ a[i + Len(q)] = s[i]
        BY <1>5
      <3> QED  BY <3>1 DEF Range
    <2> QED  BY <2>1 DEF Range
  <1> QED  BY <1>4, <1>5, <1>6, <1>7, <1>8 DEF IsSeq

LEMMA TailIs ==
    ASSUME NEW q, IsSeq(q), q # <<>>
    PROVE  IsSeq(Tail(q)) /\ Range(Tail(q)) \subseteq Range(q) /\ Head(q) \in Range(q)
  <1>1. PICK S : q \in Seq(S)
    BY DEF IsSeq
  <1>2. PICK a : a = Tail(q)
    OBVIOUS
  <1>3. /\ a \in Seq(S) /\ DOMAIN a = 1 .. Len(q) - 1 /\ DOMAIN q = 1 .. Len(q) /\ Len(q) \in Nat \ {0}
        /\ \A i \in 1 .. Len(q) - 1 : a[i] = q[i + 1]
    BY <1>1, <1>2
  <1>4. Range(a) \subseteq Range(q)
    <2>1. ASSUME NEW i \in 1 .. Len(q) - 1 PROVE a[i] \in Range(q)
      <3>1. i + 1 \in DOMAIN q /\ a[i] = q[i + 1]
        BY ONLY <1>3, <2>1
      <3> QED  BY <3>1 DEF Range
    <2> QED  BY <1>3, <2>1 DEF Range
  <1>5. Head(q) = q[1] /\ 1 \in DOMAIN q
    BY <1>1, <1>3
  <1> QED  BY <1>2, <1>3, <1>4, <1>5 DEF IsSeq, Range

\* A function on an initial segment of the naturals is a sequence.
LEMMA FunctionIs ==
    ASSUME NEW q, NEW n \in Nat, NEW S, q \in [1 .. n -> S]
    PROVE  IsSeq(q) /\ Range(q) \subseteq S
  <1>1. q \in Seq(S)
    OBVIOUS
  <1> QED  BY <1>1 DEF IsSeq, Range

\* The elements of a finite set in some order.
LEMMA SetToSeqIs ==
    ASSUME NEW S, IsFiniteSet(S)
    PROVE  SetToSeq(S) \in [1 .. Cardinality(S) -> S] /\ Cardinality(S) \in Nat
  <1>1. Cardinality(S) \in Nat /\ ExistsBijection(1 .. Cardinality(S), S)
    BY FS_CardinalityType
  <1>2. \E f \in [1 .. Cardinality(S) -> S] : IsInjective(f)
    BY <1>1 DEF ExistsBijection, Bijection, Injection
  <1> QED  BY <1>1, <1>2 DEF SetToSeq

LEMMA SetToSeqOne ==
    ASSUME NEW x
    PROVE  SetToSeq({x}) = <<x>>
  <1>1. IsFiniteSet({x}) /\ Cardinality({x}) = 1
    BY FS_Singleton
  <1>2. SetToSeq({x}) \in [1 .. 1 -> {x}]
    BY <1>1, SetToSeqIs
  <1> QED  BY <1>2

\* An event that verifies is known by its id.
Signed(e) == IsEvent(e) /\ Verify(e)

LEMMA IdsDiffer ==
    ASSUME NEW e, NEW x, Signed(e), Signed(x), e.id = x.id
    PROVE  e = x
  <1>1. e.id = <<e.pubkey, e.at, e.kind, e.tags, e.content>>
    BY DEF Signed, Verify, Id, ToUnsigned
  <1>2. x.id = <<x.pubkey, x.at, x.kind, x.tags, x.content>>
    BY DEF Signed, Verify, Id, ToUnsigned
  <1> DEFINE Fields(d) == /\ d.id[1] = d.pubkey /\ d.id[2] = d.at /\ d.id[3] = d.kind /\ d.id[4] = d.tags
                           /\ d.id[5] = d.content
  <1>5. Fields(e)
    BY <1>1
  <1>6. Fields(x)
    BY <1>2
  <1>3. /\ e.pubkey = x.pubkey /\ e.at = x.at /\ e.kind = x.kind /\ e.tags = x.tags
        /\ e.content = x.content
    BY <1>5, <1>6
  <1>4. e.sig = x.sig
    BY <1>3 DEF Signed, Verify
  <1> QED  BY <1>3, <1>4 DEF Signed, IsEvent

LEMMA SignIs ==
    ASSUME NEW key, NEW at, NEW kind, NEW tags, NEW content, NEW e,
           e = Sign(key, UnsignedEvent(at, kind, tags, content))
    PROVE  /\ Signed(e) /\ e.pubkey = key /\ e.at = at /\ e.kind = kind /\ e.tags = tags
           /\ e.content = content
  <1>1. e = [id |-> <<key, at, kind, tags, content>>, pubkey |-> key, at |-> at, kind |-> kind, tags |-> tags,
             content |-> content, sig |-> <<key, <<key, at, kind, tags, content>>>>]
    BY DEF Sign, UnsignedEvent, Id
  <1> QED  BY <1>1 DEF Signed, IsEvent, Verify, Id, ToUnsigned

-----------------------------------------------------------------------------
(* Resolving a chain. *)

OwnOnly(hash, x) ==
    /\ hash # {} => x.hash = hash
    /\ \A t \in x.tip : /\ t.pubkey \in x.doc.signer \cup SignersOf(x.doc)
                        /\ t.hash \in {{}, x.hash}

\* The document of a chain event is vouched for by the event's author.
LEMMA ParsedIs ==
    ASSUME NEW e, NEW p \in ParseChainEvent(e)
    PROVE  p.hash = e.id /\ p.pubkey \in p.doc.signer \cup SignersOf(p.doc)
  <1> DEFINE d == IF e.content.signers = {} THEN WithSigner(e) ELSE e.content
  <1>1. /\ p = [hash |-> e.id, alias |-> e.content.id, pubkey |-> e.pubkey, doc |-> d]
        /\ e.content.signers = {} \/ e.pubkey \in SignersOf(e.content)
    BY DEF ParseChainEvent
  <1>2. e.pubkey \in d.signer \cup SignersOf(d)
    <2>1. CASE e.content.signers = {}
      <3>1. d = WithSigner(e)
        BY <2>1
      <3> HIDE DEF d
      <3>5. d["signer"] = {e.pubkey}
        BY <3>1 DEF WithSigner
      <3> QED  BY <3>5
    <2>2. CASE e.pubkey \in SignersOf(e.content)
      BY <2>1, <2>2
    <2> QED  BY <1>1, <2>1, <2>2
  <1> HIDE DEF d
  <1> QED  BY <1>1, <1>2

LEMMA LegacyIs ==
    ASSUME NEW alias, NEW tip, tip.hash = {}, NEW served, NEW x \in Legacy(alias, tip, served)
    PROVE  OwnOnly({}, x)
  <1>1. PICK c \in ChooseMirror(tip, alias, served) :
            x = [hash |-> {}, alias |-> alias, pubkey |-> tip.pubkey, doc |-> c.chain, tip |-> {tip},
                 legacy |-> TRUE]
    BY DEF Legacy
  <1>2. AnnouncedBy(c.chain, tip.pubkey)
    BY DEF ChooseMirror
  <1>3. x.hash = {} /\ x.doc = c.chain /\ x.tip = {tip}
    BY <1>1
  <1> QED  BY <1>2, <1>3 DEF OwnOnly, AnnouncedBy

\* Whatever the relays and the mirrors give.
LEMMA ResolvesOwn ==
    ASSUME NEW alias, NEW hash, \A i, j \in hash : i = j, NEW tips, NEW events, NEW served,
           NEW x \in ResolveChain(alias, hash, tips, events, served)
    PROVE  OwnOnly(hash, x)
  <1> DEFINE tip0 == UNION {Newest(tips, a, {}) : a \in alias}
             id == IF hash # {} THEN hash ELSE UNION {t.hash : t \in tip0}
             parsed == UNION {ParseChainEvent(e) : e \in UNION {FoundEvent(i, tip0, events, served) : i \in id}}
             tip(p) == IF tip0 # {} THEN tip0 ELSE Newest(tips, p.alias, {})
  <1>1. ResolveChain(alias, hash, tips, events, served) =
           IF id = {} THEN UNION {Legacy(a, t, served) : a \in alias, t \in tip0}
              ELSE {[hash |-> {p.hash}, alias |-> p.alias, pubkey |-> p.pubkey, doc |-> p.doc,
                     tip |-> tip(p), legacy |-> FALSE] : p \in {q \in parsed : OwnTip(q, tip(q))}}
    BY DEF ResolveChain
  <1>2. CASE id = {}
    <2>1. PICK a \in alias, t \in tip0 : x \in Legacy(a, t, served)
      BY <1>1, <1>2
    <2>2. hash = {} /\ t.hash = {}
      BY <1>2
    <2> QED  BY <2>1, <2>2, LegacyIs
  <1>3. CASE id # {}
    <2> HIDE DEF id, parsed, tip
    <2>1. PICK p \in parsed : /\ OwnTip(p, tip(p))
                              /\ x = [hash |-> {p.hash}, alias |-> p.alias, pubkey |-> p.pubkey, doc |-> p.doc,
                                      tip |-> tip(p), legacy |-> FALSE]
      BY <1>1, <1>3
    <2>2. PICK i \in id : \E e \in FoundEvent(i, tip0, events, served) : p \in ParseChainEvent(e)
      BY <2>1 DEF parsed
    <2>3. PICK e \in FoundEvent(i, tip0, events, served) : p \in ParseChainEvent(e)
      BY <2>2
    <2>4. e.id = i
      BY <2>3 DEF FoundEvent
    <2>5. p.hash = i /\ p.pubkey \in p.doc.signer \cup SignersOf(p.doc)
      BY <2>3, <2>4, ParsedIs
    <2>6. hash # {} => hash = {i}
      BY <2>2 DEF id
    <2>7. x.hash = {i} /\ x.doc = p.doc /\ x.tip = tip(p)
      BY <2>1, <2>5
    <2>8. \A t \in x.tip : /\ t.pubkey \in p.doc.signer \cup SignersOf(p.doc)
                           /\ t.hash \in {{}, {i}}
      BY <2>1, <2>5, <2>7 DEF OwnTip
    <2> QED  BY <2>6, <2>7, <2>8 DEF OwnOnly
  <1> QED  BY <1>2, <1>3
-----------------------------------------------------------------------------
(* Announcing a tip. *)

Announces(e, height) == \E t \in ParseTip(e) : t.tip = height /\ t.pubkey = NodeKey

LEMMA HeadersAre ==
    ASSUME NEW tip \in Nat
    PROVE  /\ HeadersHex(tip) # <<>> => Cardinality(FamilyOf(HeadersHex(tip))) = 1
           /\ Len(HeadersHex(tip)) <= TipHeaders /\ Len(HeadersHex(tip)) <= tip + 1
  <1> DEFINE n == Min({TipHeaders, tip + 1})
             h == HeadersHex(tip)
  <1>1. n \in Int /\ n \in 1 .. 40 /\ n <= TipHeaders /\ n <= tip + 1
    <2>1. \E x \in {TipHeaders, tip + 1} : \A y \in {TipHeaders, tip + 1} : x <= y
      BY TipHeadersAssumption
    <2>2. n \in {TipHeaders, tip + 1} /\ \A y \in {TipHeaders, tip + 1} : n <= y
      BY <2>1 DEF Min
    <2> HIDE DEF n
    <2> QED  BY <2>2, TipHeadersAssumption
  <1> HIDE DEF n
  <1>2. h = [i \in 1 .. n |-> HeaderOf(tip + i - n)]
    BY DEF HeadersHex, n
  <1>3. DOMAIN h = 1 .. n /\ Len(h) = n /\ \A i \in 1 .. n : h[i][1] = "stock"
    BY <1>1, <1>2 DEF HeaderOf
  <1> HIDE DEF h
  <1>4. {i \in DOMAIN h : h[i][1] = "stock"} = 1 .. n /\ DOMAIN h \ (1 .. n) = {}
    BY <1>3
  <1>5. Cardinality(1 .. n) = n
    <2>1. 1 \in Int /\ ~(1 > n) /\ n - 1 + 1 = n
      BY <1>1
    <2> QED  BY <1>1, <2>1, FS_Interval
  <1>6. Cardinality({}) = 0
    BY FS_EmptySet
  <1>7. HeaderHexLen("stock") = 160 /\ HeaderHexLen("blake2b") = 328
    BY DEF HeaderHexLen
  <1>8. HexLen(h) = n * 160
    <2>1. PICK stock : stock = {i \in DOMAIN h : h[i][1] = "stock"}
      OBVIOUS
    <2>2. HexLen(h) = Cardinality(stock) * 160 + Cardinality(DOMAIN h \ stock) * 328
      BY <1>7, <2>1 DEF HexLen
    <2>3. Cardinality(stock) = n /\ Cardinality(DOMAIN h \ stock) = 0
      BY <1>4, <1>5, <1>6, <2>1
    <2> QED  BY <1>1, <2>2, <2>3
  <1>9. (n * 160) % 160 = 0 /\ (n * 160) % 328 # 0
    BY <1>1
  <1>10. FamilyOf(h) = {"stock"}
    BY <1>7, <1>8, <1>9 DEF FamilyOf
  <1> QED  BY <1>1, <1>3, <1>10, FS_Singleton DEF h

LEMMA ConcatKeeps ==
    ASSUME NEW q, IsSeq(q), NEW s, IsSeq(s), NEW i \in 1 .. Len(q), NEW a, a = q \o s
    PROVE  i \in 1 .. Len(a) /\ a[i] = q[i]
  <1>1. PICK S : q \in Seq(S)
    BY DEF IsSeq
  <1>2. PICK T : s \in Seq(T)
    BY DEF IsSeq
  <1>3. q \in Seq(S \cup T) /\ s \in Seq(S \cup T)
    BY <1>1, <1>2
  <1> QED  BY <1>3

LEMMA OneIs == ASSUME NEW x PROVE IsSeq(<<x>>)
  <1>1. <<x>> \in Seq({x})
    OBVIOUS
  <1> QED  BY <1>1 DEF IsSeq

TipTags(alias, tip, mirrors, peg, hash) ==
    <<<<"d", alias>>, <<"tip", tip>>>> \o [i \in DOMAIN mirrors |-> <<"u", mirrors[i]>>]
        \o SetToSeq({<<"peg", p>> : p \in peg}) \o SetToSeq({<<"e", h>> : h \in hash})

TagsAt(tip) == TipTags(Alias, tip, <<Mirror>>, {Doc.challenge}, {ChainHash})

\* The first tags of an announcement are its chain and its height.
LEMMA TipTagsAre ==
    ASSUME NEW tip, NEW tags, tags = TagsAt(tip)
    PROVE  First(tags, "d") = {Alias} /\ First(tags, "tip") = {tip}
  <1>0. PICK alias, mirrors, peg, pegs, hash, hashes :
            /\ alias = Alias /\ mirrors = <<Mirror>> /\ pegs = {peg} /\ hashes = {hash}
            /\ tags = TipTags(alias, tip, mirrors, pegs, hashes)
    BY DEF TagsAt
  <1> DEFINE a == <<<<"d", alias>>, <<"tip", tip>>>>
             b == [i \in DOMAIN mirrors |-> <<"u", mirrors[i]>>]
             c == SetToSeq({<<"peg", p>> : p \in pegs})
             d == SetToSeq({<<"e", h>> : h \in hashes})
  <1>1. IsSeq(a) /\ Len(a) = 2 /\ a[1] = <<"d", alias>> /\ a[2] = <<"tip", tip>>
    <2>1. a \in Seq({<<"d", alias>>, <<"tip", tip>>})
      OBVIOUS
    <2> QED  BY <2>1 DEF IsSeq
  <1>2. IsSeq(b)
    <2>1. DOMAIN mirrors = 1 .. 1
      BY <1>0
    <2>2. b \in Seq({<<"u", mirrors[i]>> : i \in 1 .. 1})
      BY <2>1
    <2> QED  BY <2>2 DEF IsSeq
  <1>3. IsSeq(c)
    <2>1. {<<"peg", p>> : p \in pegs} = {<<"peg", peg>>}
      BY <1>0
    <2> QED  BY <2>1, SetToSeqOne, OneIs
  <1>4. IsSeq(d)
    <2>1. {<<"e", h>> : h \in hashes} = {<<"e", hash>>}
      BY <1>0
    <2> QED  BY <2>1, SetToSeqOne, OneIs
  <1>5. tags = a \o b \o c \o d
    BY <1>0 DEF TipTags
  <1> HIDE DEF a, b, c, d
  <1>6. PICK ab, abc : ab = a \o b /\ abc = ab \o c /\ tags = abc \o d
    BY <1>5
  <1>7. IsSeq(ab) /\ IsSeq(abc) /\ IsSeq(tags)
    <2>1. IsSeq(ab)
      BY <1>1, <1>2, <1>6, ConcatIs
    <2>2. IsSeq(abc)
      BY <1>3, <1>6, <2>1, ConcatIs
    <2> QED  BY <1>4, <1>6, <2>1, <2>2, ConcatIs
  <1>8. ASSUME NEW i \in 1 .. 2 PROVE i \in 1 .. Len(tags) /\ tags[i] = a[i]
    <2>1. i \in 1 .. Len(a)
      BY <1>1
    <2>2. i \in 1 .. Len(ab) /\ ab[i] = a[i]
      BY ONLY <1>1, <1>2, <1>6, <2>1, ConcatKeeps
    <2>3. i \in 1 .. Len(abc) /\ abc[i] = a[i]
      BY ONLY <1>3, <1>6, <1>7, <2>2, ConcatKeeps
    <2> QED  BY ONLY <1>4, <1>6, <1>7, <2>3, ConcatKeeps
  <1>9. /\ DOMAIN tags = 1 .. Len(tags) /\ Len(tags) \in Nat /\ 1 \in DOMAIN tags /\ 2 \in DOMAIN tags
        /\ tags[1] = <<"d", alias>> /\ tags[2] = <<"tip", tip>>
    <2>1. DOMAIN tags = 1 .. Len(tags) /\ Len(tags) \in Nat
      BY ONLY <1>7, SeqIs
    <2>2. 1 \in 1 .. 2 /\ 2 \in 1 .. 2
      OBVIOUS
    <2>3. 1 \in 1 .. Len(tags) /\ tags[1] = a[1] /\ 2 \in 1 .. Len(tags) /\ tags[2] = a[2]
      BY ONLY <1>8, <2>2
    <2> QED  BY ONLY <1>1, <2>1, <2>3
  <1>10. /\ tags[1][1] = "d" /\ tags[1][2] = alias /\ tags[2][1] = "tip" /\ tags[2][2] = tip
    BY <1>9
  <1> DEFINE IsFirst(j, name) == tags[j][1] = name /\ \A k \in 1 .. j - 1 : tags[k][1] # name
             At(name) == {j \in DOMAIN tags : IsFirst(j, name)}
  <1>11. \A name : First(tags, name) = {tags[i][2] : i \in At(name)}
    BY DEF First
  <1>12. At("d") = {1}
    <2>1. IsFirst(1, "d")
      BY <1>10
    <2>2. ASSUME NEW j \in DOMAIN tags, IsFirst(j, "d"), j # 1 PROVE FALSE
      <3>1. 1 \in 1 .. j - 1
        BY ONLY <1>9, <2>2
      <3> QED  BY <1>10, <2>2, <3>1
    <2> QED  BY <1>9, <2>1, <2>2
  <1>13. At("tip") = {2}
    <2>1. IsFirst(2, "tip")
      BY <1>10
    <2>2. ASSUME NEW j \in DOMAIN tags, IsFirst(j, "tip"), j # 2 PROVE FALSE
      <3>1. j = 1 \/ 2 \in 1 .. j - 1
        BY ONLY <1>9, <2>2
      <3> QED  BY <1>10, <2>2, <3>1
    <2> QED  BY <1>9, <2>1, <2>2
  <1> HIDE DEF At
  <1>14. First(tags, "d") = {tags[1][2]} /\ First(tags, "tip") = {tags[2][2]}
    <2>1. First(tags, "d") = {tags[i][2] : i \in {1}} /\ First(tags, "tip") = {tags[i][2] : i \in {2}}
      BY ONLY <1>11, <1>12, <1>13
    <2>2. {tags[i][2] : i \in {1}} = {tags[1][2]} /\ {tags[i][2] : i \in {2}} = {tags[2][2]}
      OBVIOUS
    <2> QED  BY ONLY <2>1, <2>2
  <1> QED  BY <1>0, <1>10, <1>14

LEMMA TipEventIs ==
    ASSUME NEW tip \in Nat, NEW t \in TipTemplate(Alias, tip, HeadersHex(tip), <<Mirror>>), NEW at, NEW e,
           e = SignTipWithPeg(NodeKey, WithChainHash(t, ChainHash), {Doc.challenge}, at)
    PROVE  Signed(e) /\ Announces(e, tip)
  <1>1. t = [alias |-> Alias, tip |-> tip, headers |-> HeadersHex(tip), mirrors |-> <<Mirror>>, hash |-> {}]
    BY DEF TipTemplate
  <1>2. PICK w : w = WithChainHash(t, ChainHash)
    OBVIOUS
  <1>3. w.alias = Alias /\ w.tip = tip /\ w.headers = HeadersHex(tip) /\ w.mirrors = <<Mirror>>
        /\ w.hash = {ChainHash}
    BY <1>1, <1>2 DEF WithChainHash
  <1>4. PICK tags : tags = TipTags(w.alias, w.tip, w.mirrors, {Doc.challenge}, w.hash)
    OBVIOUS
  <1>5. First(tags, "d") = {Alias} /\ First(tags, "tip") = {tip}
    <2>1. tags = TagsAt(tip)
      BY ONLY <1>3, <1>4 DEF TagsAt
    <2> QED  BY ONLY <2>1, TipTagsAre
  <1>6. e = Sign(NodeKey, UnsignedEvent(at, "tip", tags, HeadersHex(tip)))
    <2>1. BuildTip(w, {Doc.challenge}, at) = UnsignedEvent(at, "tip", tags, w.headers)
      BY <1>4 DEF BuildTip, TipTags
    <2> QED  BY <1>2, <1>3, <2>1 DEF SignTipWithPeg, TipEventWithPeg
  <1>7. Signed(e) /\ e.pubkey = NodeKey /\ e.kind = "tip" /\ e.tags = tags /\ e.content = HeadersHex(tip)
    BY <1>6, SignIs
  <1>8. PICK x \in ParseTip(e) : x.tip = (CHOOSE h \in First(e.tags, "tip") : TRUE) /\ x.pubkey = e.pubkey
    <2>1. /\ e.content = <<>> \/ Cardinality(FamilyOf(e.content)) = 1
          /\ Len(e.content) <= TipHeaders
          /\ \A h \in First(e.tags, "tip") : Len(e.content) <= h + 1
      BY <1>5, <1>7, HeadersAre
    <2> QED  BY <1>5, <1>7, <2>1 DEF ParseTip
  <1>9. (CHOOSE h \in First(e.tags, "tip") : TRUE) = tip
    BY <1>5, <1>7
  <1> QED  BY <1>7, <1>8, <1>9 DEF Announces
-----------------------------------------------------------------------------
(* The inductive invariant. *)

\* A session publishes one event at a time, and none once it has the answer; what a relay
\* has acknowledged to it, the relay keeps.
LinkOK(l, w, kept) ==
    /\ l = [life |-> l.life, sock |-> l.sock, subs |-> l.subs, pubs |-> l.pubs, asked |-> l.asked,
            sent |-> l.sent, down |-> l.down]
    /\ l.life # "run" => l.pubs = {}
    /\ IsSeq(l.down) /\ IsFiniteSet(l.asked)
    /\ \A m \in Range(l.down) : m.verb = "OK" /\ m.accepted => \E e \in Range(kept) : e.id = m.id
    /\ \A a, b \in l.pubs : a = b
    /\ \A e \in l.pubs : Signed(e)
    /\ w \subseteq Outcomes /\ (w # {} => l.pubs = {})

RelayOK(kept) == IsSeq(kept) /\ \A e \in Range(kept) : Signed(e)

Tables ==
    /\ link = [p \in Procs |-> [r \in Relays |-> link[p][r]]]
    /\ wait = [p \in Procs |-> [r \in Relays |-> wait[p][r]]]
    /\ store = [r \in Relays |-> store[r]]

Net == \A r \in Relays : RelayOK(store[r]) /\ \A p \in Procs : LinkOK(link[p][r], wait[p][r], store[r])

\* What the node publishes is the announcement of its tip, and nothing while it is in its loop.
NodeOK(pubs, w, kept, n) ==
    /\ n.phase = "loop" => pubs = {}
    /\ \A e \in pubs : Announces(e, n.tip)
    /\ n.phase = "announcing" /\ w = {"Ok"} => \E e \in Range(kept) : Announces(e, n.tip)

AgentOK(pubs, w, kept, a) ==
    /\ \A e \in pubs : e = Payment
    /\ a.phase = "pay" /\ w = {"Ok"} => Payment \in Range(kept)

Ends == \A r \in Relays : /\ NodeOK(link["node"][r].pubs, wait["node"][r], store[r], node)
                         /\ AgentOK(link["agent"][r].pubs, wait["agent"][r], store[r], agent)

NodeIs(n) ==
    /\ n = [tip |-> n.tip, announced |-> n.announced, phase |-> n.phase, retry |-> n.retry,
            seen |-> n.seen, pool |-> n.pool]
    /\ n.phase \in {"loop", "announcing"} /\ n.tip \in 0 .. MaxTip /\ n.announced \in -1 .. n.tip

AgentIs(a) ==
    /\ a = [phase |-> a.phase, ask |-> a.ask, tips |-> a.tips, event |-> a.event, resolved |-> a.resolved,
            contradicted |-> a.contradicted]
    /\ a.phase # "idle" => a.ask \in Asks
    /\ a.resolved # {} => a.phase \in {"pay", "paid", "done"}
    /\ \A x \in a.resolved : OwnOnly(a.ask.hash, x)

Told == /\ node.announced >= 0 => \E r \in Relays : \E e \in Range(store[r]) : Announces(e, node.announced)
        /\ agent.phase = "paid" => \E r \in Relays : Payment \in Range(store[r])

Bounds == IsSeq(chan) /\ Len(chan) <= ChanCap /\ faults \in 0 .. MaxFaults

IInv == Tables /\ Net /\ Ends /\ NodeIs(node) /\ AgentIs(agent) /\ Told /\ Bounds

\* The relays only keep more.
Grown == \A r \in Relays : Range(store[r]) \subseteq Range(store'[r])

LEMMA LinkMore ==
    ASSUME NEW l, NEW w, NEW kept, NEW more, LinkOK(l, w, kept), Range(kept) \subseteq Range(more)
    PROVE  LinkOK(l, w, more)
  BY DEF LinkOK

LEMMA ToldKept ==
    ASSUME Told, Grown, node'.announced = node.announced, agent'.phase = "paid" => agent.phase = "paid"
    PROVE  Told'
  BY DEF Told, Grown, Announces

\* A table with an entry for every process and relay, and one with an entry replaced.
Spread(t) == t = [p \in Procs |-> [r \in Relays |-> t[p][r]]]

LEMMA SpreadOn ==
    ASSUME NEW t, Spread(t), NEW p \in Procs, NEW r \in Relays, NEW l
    PROVE  Spread([t EXCEPT ![p][r] = l])
  <1>1. PICK u, row : row = [t[p] EXCEPT ![r] = l] /\ u = [t EXCEPT ![p] = row]
    OBVIOUS
  <1>2. DOMAIN t = Procs /\ \A q \in Procs : t[q] = [x \in Relays |-> t[q][x]]
    BY DEF Spread
  <1>3. row = [x \in Relays |-> row[x]]
    BY ONLY <1>1, <1>2, p \in Procs
  <1>4. u = [q \in Procs |-> u[q]] /\ \A q \in Procs : u[q] = IF q = p THEN row ELSE t[q]
    <2>1. t = [q \in Procs |-> t[q]]
      BY DEF Spread
    <2> QED  BY ONLY <1>1, <2>1
  <1>5. \A q \in Procs : u[q] = [x \in Relays |-> u[q][x]]
    BY ONLY <1>2, <1>3, <1>4
  <1>6. Spread(u)
    BY ONLY <1>4, <1>5 DEF Spread
  <1> QED  BY <1>1, <1>6

\* A step of one session, and of nothing else.
LEMMA OneLink ==
    ASSUME IInv, NEW p \in Procs, NEW r \in Relays, NEW l, NEW w,
           link' = [link EXCEPT ![p][r] = l], wait' = [wait EXCEPT ![p][r] = w],
           UNCHANGED <<store, chan, node, agent>>, faults' \in 0 .. MaxFaults,
           LinkOK(l, w, store[r]), l.pubs \subseteq link[p][r].pubs,
           w = {"Ok"} => w = wait[p][r] \/ \E e \in link[p][r].pubs : e \in Range(store[r])
    PROVE  IInv'
  <1>0. Tables /\ Net /\ Ends /\ NodeIs(node) /\ AgentIs(agent) /\ Told /\ Bounds
    BY DEF IInv
  <1>1. ASSUME NEW q \in Procs, NEW x \in Relays
        PROVE  /\ link'[q][x] = IF q = p /\ x = r THEN l ELSE link[q][x]
               /\ wait'[q][x] = IF q = p /\ x = r THEN w ELSE wait[q][x]
    BY <1>0 DEF Tables
  <1>2. Tables'
    <2>1. Spread(link) /\ Spread(wait) /\ store = [x \in Relays |-> store[x]]
      BY <1>0 DEF Tables, Spread
    <2>2. Spread(link') /\ Spread(wait')
      BY <2>1, SpreadOn
    <2> QED  BY <2>1, <2>2 DEF Tables, Spread
  <1>3. Net'
    BY <1>0, <1>1 DEF Net
  <1>4. Ends'
    <2> SUFFICES ASSUME NEW x \in Relays
                 PROVE  /\ NodeOK(link'["node"][x].pubs, wait'["node"][x], store[x], node)
                        /\ AgentOK(link'["agent"][x].pubs, wait'["agent"][x], store[x], agent)
      BY DEF Ends
    <2>1. /\ NodeOK(link["node"][x].pubs, wait["node"][x], store[x], node)
          /\ AgentOK(link["agent"][x].pubs, wait["agent"][x], store[x], agent)
      BY <1>0 DEF Ends
    <2>2. CASE p = "node" /\ x = r
      <3>1. link'["node"][x] = l /\ wait'["node"][x] = w /\ link'["agent"][x] = link["agent"][x]
            /\ wait'["agent"][x] = wait["agent"][x]
        BY <1>1, <2>2 DEF Procs
      <3>2. NodeOK(l.pubs, w, store[x], node)
        BY <2>1, <2>2 DEF NodeOK
      <3> QED  BY <2>1, <3>1, <3>2
    <2>3. CASE p = "agent" /\ x = r
      <3>1. link'["agent"][x] = l /\ wait'["agent"][x] = w /\ link'["node"][x] = link["node"][x]
            /\ wait'["node"][x] = wait["node"][x]
        BY <1>1, <2>3 DEF Procs
      <3>2. AgentOK(l.pubs, w, store[x], agent)
        BY <2>1, <2>3 DEF AgentOK
      <3> QED  BY <2>1, <3>1, <3>2
    <2>4. CASE x # r
      BY <1>1, <2>1, <2>4 DEF Procs
    <2> QED  BY <2>2, <2>3, <2>4 DEF Procs
  <1>5. Told' /\ Bounds'
    BY <1>0, ToldKept DEF Bounds, Grown
  <1> QED  BY <1>0, <1>2, <1>3, <1>4, <1>5 DEF IInv

\* The same, when no answer has come.
LEMMA QuietLink ==
    ASSUME IInv, NEW p \in Procs, NEW r \in Relays, NEW l, link' = [link EXCEPT ![p][r] = l],
           UNCHANGED <<store, wait, chan, node, agent>>, faults' \in 0 .. MaxFaults,
           LinkOK(l, wait[p][r], store[r]), l.pubs \subseteq link[p][r].pubs
    PROVE  IInv'
  <1>1. wait' = [wait EXCEPT ![p][r] = wait[p][r]]
    BY DEF IInv, Tables
  <1>2. PICK w : w = wait[p][r]
    OBVIOUS
  <1> QED  BY <1>1, <1>2, OneLink

LEMMA InitOK == Init => IInv
  <1> SUFFICES ASSUME Init PROVE IInv
    OBVIOUS
  <1>1. Signed(ChainEvent)
    BY SignIs DEF ChainEvent, SignChainEvent, ChainEventFromValue
  <1>2. ASSUME NEW r \in Relays PROVE RelayOK(store[r])
    <2>1. PICK a, b : a = ChainEvent /\ b = Earlier
      OBVIOUS
    <2>2. store[r] = <<a, b>>
      BY <2>1 DEF Init
    <2>3. IsSeq(<<a, b>>) /\ Range(<<a, b>>) = {a, b}
      <3>1. PICK q : q = <<a, b>>
        OBVIOUS
      <3>2. q \in Seq({a, b}) /\ DOMAIN q = 1 .. 2 /\ q[1] = a /\ q[2] = b
        BY <3>1
      <3>3. \A i \in 1 .. 2 : i = 1 \/ i = 2
        OBVIOUS
      <3>4. Range(q) = {a, b}
        BY <3>2, <3>3 DEF Range
      <3> QED  BY <3>1, <3>2, <3>4 DEF IsSeq
    <2>4. Signed(a) /\ Signed(b)
      BY <1>1, <2>1, RelayNetAssumption DEF Signed
    <2> QED  BY <2>2, <2>3, <2>4 DEF RelayOK
  <1>3. ASSUME NEW r \in Relays, NEW p \in Procs
        PROVE  LinkOK(link[p][r], wait[p][r], store[r]) /\ link[p][r].pubs = {} /\ wait[p][r] = {}
    <2>1. PICK l : l = link[p][r]
      OBVIOUS
    <2>2. /\ l.pubs = {} /\ l.asked = {} /\ l.down = <<>>
          /\ l = [life |-> l.life, sock |-> l.sock, subs |-> l.subs, pubs |-> l.pubs, asked |-> l.asked,
                  sent |-> l.sent, down |-> l.down]
      BY <2>1 DEF Init, Subscribe, Session, NoLink
    <2>3. wait[p][r] = {}
      BY DEF Init
    <2> QED  BY <2>1, <2>2, <2>3, EmptyIs, FS_EmptySet DEF LinkOK
  <1>4. Tables
    BY DEF Init, Tables
  <1>5. Net
    BY <1>2, <1>3 DEF Net
  <1>6. Ends
    BY <1>3 DEF Ends, NodeOK, AgentOK, Procs
  <1>7. NodeIs(node) /\ node.announced = -1
    BY RelayNetAssumption DEF Init, NodeIs
  <1>8. AgentIs(agent) /\ agent.phase = "idle"
    BY DEF Init, AgentIs
  <1>9. Told
    BY <1>7, <1>8 DEF Told
  <1>10. Bounds
    BY RelayNetAssumption, EmptyIs DEF Init, Bounds
  <1> QED  BY <1>4, <1>5, <1>6, <1>7, <1>8, <1>9, <1>10 DEF IInv
-----------------------------------------------------------------------------
(* Session steps. *)

LEMMA LinkIs ==
    ASSUME IInv, NEW p \in Procs, NEW r \in Relays
    PROVE  LinkOK(link[p][r], wait[p][r], store[r]) /\ RelayOK(store[r]) /\ faults \in 0 .. MaxFaults
           /\ MaxFaults \in Nat
  BY RelayNetAssumption DEF IInv, Net, Bounds

\* A link of which less is left: nothing more published, nothing new to read.
LEMMA LessLink ==
    ASSUME NEW l, NEW w, NEW kept, LinkOK(l, w, kept), NEW k,
           k = [life |-> k.life, sock |-> k.sock, subs |-> k.subs, pubs |-> k.pubs, asked |-> k.asked,
                sent |-> k.sent, down |-> k.down],
           k.pubs \subseteq l.pubs, l.life = "run" => k.life = "run" \/ k.pubs = {},
           IsFiniteSet(k.asked), IsSeq(k.down), Range(k.down) \subseteq Range(l.down)
    PROVE  LinkOK(k, w, kept)
  BY DEF LinkOK

LEMMA AnsweredLink ==
    ASSUME NEW l, NEW w, NEW kept, LinkOK(l, w, kept), l.pubs = {}, NEW v, v \subseteq Outcomes
    PROVE  LinkOK(l, v, kept)
  BY DEF LinkOK

LEMMA ConnectOK == ASSUME IInv, NEW p \in Procs, NEW r \in Relays, Connect(p, r) PROVE IInv'
  <1>1. PICK l, k : l = link[p][r] /\ k = Connected(l)
    OBVIOUS
  <1>2. LinkOK(l, wait[p][r], store[r]) /\ faults \in 0 .. MaxFaults
    BY <1>1, LinkIs
  <1>3. /\ k = [life |-> k.life, sock |-> k.sock, subs |-> k.subs, pubs |-> k.pubs, asked |-> k.asked,
                sent |-> k.sent, down |-> k.down]
        /\ k.pubs = l.pubs /\ k.life = l.life /\ k.asked = {} /\ k.down = <<>>
    BY <1>1, <1>2 DEF LinkOK, Connected
  <1>4. LinkOK(k, wait[p][r], store[r])
    BY <1>2, <1>3, LessLink, EmptyIs, FS_EmptySet
  <1>5. link' = [link EXCEPT ![p][r] = k] /\ UNCHANGED <<store, wait, chan, node, agent>> /\ faults' = faults
    BY <1>1 DEF Connect
  <1> QED  BY <1>1, <1>2, <1>3, <1>4, <1>5, QuietLink

LEMMA DisconnectOK == ASSUME IInv, NEW p \in Procs, NEW r \in Relays, Disconnect(p, r) PROVE IInv'
  <1>1. PICK l, k : l = link[p][r] /\ k = Lost(l)
    OBVIOUS
  <1>2. LinkOK(l, wait[p][r], store[r]) /\ faults \in 0 .. MaxFaults /\ MaxFaults \in Nat
    BY <1>1, LinkIs
  <1>3. /\ k = [life |-> k.life, sock |-> k.sock, subs |-> k.subs, pubs |-> k.pubs, asked |-> k.asked,
                sent |-> k.sent, down |-> k.down]
        /\ k.pubs = {} /\ k.asked = {} /\ k.down = <<>>
    BY <1>1, <1>2 DEF LinkOK, Lost
  <1>4. LinkOK(k, wait[p][r], store[r])
    BY <1>2, <1>3, LessLink, EmptyIs, FS_EmptySet
  <1>5. /\ link' = [link EXCEPT ![p][r] = k] /\ UNCHANGED <<store, chan, node, agent>> /\ faults' \in 0 .. MaxFaults
        /\ wait' = IF l.pubs = {} THEN wait ELSE [wait EXCEPT ![p][r] = {"Closed"}]
    BY <1>1, <1>2 DEF Disconnect, Answered
  <1>6. CASE l.pubs = {}
    BY <1>1, <1>3, <1>4, <1>5, <1>6, QuietLink
  <1>7. CASE l.pubs # {}
    <2>1. PICK w : w = {"Closed"}
      OBVIOUS
    <2>2. w \subseteq Outcomes /\ w # {"Ok"}
      BY <2>1 DEF Outcomes
    <2>3. LinkOK(k, w, store[r])
      BY <1>3, <1>4, <2>2, AnsweredLink
    <2>4. wait' = [wait EXCEPT ![p][r] = w]
      BY <1>5, <1>7, <2>1
    <2> QED  BY <1>1, <1>3, <1>5, <2>2, <2>3, <2>4, OneLink
  <1> QED  BY <1>6, <1>7

LEMMA IdleEndsOK == ASSUME IInv, NEW p \in Procs, NEW r \in Relays, IdleEnds(p, r) PROVE IInv'
  <1>1. PICK l, k : l = link[p][r] /\ k = [l EXCEPT !.life = "ending"]
    OBVIOUS
  <1>2. LinkOK(l, wait[p][r], store[r]) /\ faults \in 0 .. MaxFaults /\ MaxFaults \in Nat
    BY <1>1, LinkIs
  <1>3. /\ k = [life |-> k.life, sock |-> k.sock, subs |-> k.subs, pubs |-> k.pubs, asked |-> k.asked,
                sent |-> k.sent, down |-> k.down]
        /\ k.pubs = l.pubs /\ k.asked = l.asked /\ k.down = l.down
    BY <1>1, <1>2 DEF LinkOK
  <1>4. l.pubs = {}
    BY <1>1 DEF IdleEnds, Idle
  <1>5. LinkOK(k, wait[p][r], store[r])
    <2>1. IsFiniteSet(k.asked) /\ IsSeq(k.down) /\ Range(k.down) = Range(l.down)
      BY <1>2, <1>3 DEF LinkOK
    <2> QED  BY <1>2, <1>3, <1>4, <2>1, LessLink
  <1>6. link' = [link EXCEPT ![p][r] = k] /\ UNCHANGED <<store, wait, chan, node, agent>>
        /\ faults' \in 0 .. MaxFaults
    BY <1>1, <1>2 DEF IdleEnds
  <1> QED  BY <1>1, <1>3, <1>5, <1>6, QuietLink

LEMMA SessionGoneOK == ASSUME IInv, NEW p \in Procs, NEW r \in Relays, SessionGone(p, r) PROVE IInv'
  <1>1. PICK l, k : l = link[p][r] /\ k = NoLink
    OBVIOUS
  <1>2. LinkOK(l, wait[p][r], store[r]) /\ faults \in 0 .. MaxFaults
    BY <1>1, LinkIs
  <1>3. /\ k = [life |-> k.life, sock |-> k.sock, subs |-> k.subs, pubs |-> k.pubs, asked |-> k.asked,
                sent |-> k.sent, down |-> k.down]
        /\ k.pubs = {} /\ k.asked = {} /\ k.down = <<>>
    BY <1>1 DEF NoLink
  <1>4. LinkOK(k, wait[p][r], store[r])
    BY <1>2, <1>3, LessLink, EmptyIs, FS_EmptySet
  <1>5. link' = [link EXCEPT ![p][r] = k] /\ UNCHANGED <<store, wait, chan, node, agent>> /\ faults' = faults
    BY <1>1 DEF SessionGone
  <1> QED  BY <1>1, <1>2, <1>3, <1>4, <1>5, QuietLink

LEMMA PublishTimeoutOK == ASSUME IInv, NEW p \in Procs, NEW r \in Relays, PublishTimeout(p, r) PROVE IInv'
  <1>1. PICK l, k, w : l = link[p][r] /\ k = [l EXCEPT !.pubs = {}, !.sent = {}] /\ w = {"Timeout"}
    OBVIOUS
  <1>2. LinkOK(l, wait[p][r], store[r]) /\ faults \in 0 .. MaxFaults /\ MaxFaults \in Nat
    BY <1>1, LinkIs
  <1>3. /\ k = [life |-> k.life, sock |-> k.sock, subs |-> k.subs, pubs |-> k.pubs, asked |-> k.asked,
                sent |-> k.sent, down |-> k.down]
        /\ k.pubs = {} /\ k.asked = l.asked /\ k.down = l.down
    BY <1>1, <1>2 DEF LinkOK
  <1>4. LinkOK(k, wait[p][r], store[r])
    <2>1. IsFiniteSet(k.asked) /\ IsSeq(k.down) /\ Range(k.down) = Range(l.down)
      BY <1>2, <1>3 DEF LinkOK
    <2> QED  BY <1>2, <1>3, <2>1, LessLink
  <1>5. w \subseteq Outcomes /\ w # {"Ok"}
    BY <1>1 DEF Outcomes
  <1>6. LinkOK(k, w, store[r])
    BY <1>3, <1>4, <1>5, AnsweredLink
  <1>7. link' = [link EXCEPT ![p][r] = k] /\ UNCHANGED <<store, chan, node, agent>>
        /\ faults' \in 0 .. MaxFaults /\ wait' = [wait EXCEPT ![p][r] = w]
    BY <1>1, <1>2 DEF PublishTimeout
  <1> QED  BY <1>1, <1>3, <1>5, <1>6, <1>7, OneLink

LEMMA UnsubscribeIs ==
    ASSUME NEW l, NEW w, NEW kept, LinkOK(l, w, kept), NEW s, NEW k, k = Unsubscribe(l, s)
    PROVE  LinkOK(k, w, kept) /\ k.pubs = l.pubs
  <1>1. CASE l.life # "run"
    BY <1>1 DEF Unsubscribe
  <1>2. CASE l.life = "run"
    <2>1. /\ k = [life |-> k.life, sock |-> k.sock, subs |-> k.subs, pubs |-> k.pubs, asked |-> k.asked,
                  sent |-> k.sent, down |-> k.down]
          /\ k.pubs = l.pubs /\ k.life = l.life /\ k.asked = l.asked \ {s} /\ k.down = l.down
      BY <1>2 DEF LinkOK, Unsubscribe
    <2>2. IsFiniteSet(l.asked) /\ k.asked \in SUBSET l.asked
      BY <2>1 DEF LinkOK
    <2>3. IsFiniteSet(k.asked)
      BY <2>2, FS_Subset
    <2>4. IsSeq(k.down) /\ Range(k.down) = Range(l.down)
      BY <2>1 DEF LinkOK
    <2>5. LinkOK(k, w, kept)
      BY <2>1, <2>3, <2>4, LessLink
    <2> QED  BY <2>1, <2>5
  <1> QED  BY <1>1, <1>2

LEMMA FetchTimeoutOK == ASSUME IInv, NEW r \in Relays, FetchTimeout(r) PROVE IInv'
  <1>1. PICK p, l, s, k : /\ p = "agent" /\ l = link[p][r] /\ s = (CHOOSE x \in l.subs : TRUE)
                          /\ k = IF l.subs = {} THEN l ELSE Unsubscribe(l, s)
    OBVIOUS
  <1>2. p \in Procs
    BY <1>1 DEF Procs
  <1>3. LinkOK(l, wait[p][r], store[r]) /\ faults \in 0 .. MaxFaults /\ MaxFaults \in Nat
    BY <1>1, <1>2, LinkIs
  <1>4. LinkOK(k, wait[p][r], store[r]) /\ k.pubs = l.pubs
    BY <1>1, <1>3, UnsubscribeIs
  <1>5. link' = [link EXCEPT ![p][r] = k] /\ UNCHANGED <<store, wait, chan, node, agent>>
        /\ faults' \in 0 .. MaxFaults
    BY <1>1, <1>3 DEF FetchTimeout
  <1> QED  BY <1>1, <1>2, <1>4, <1>5, QuietLink

LEMMA RelayClosesOK ==
    ASSUME IInv, NEW p \in Procs, NEW r \in Relays, NEW s, RelayCloses(p, r, s)
    PROVE  IInv'
  <1>1. PICK l, c, k : /\ l = link[p][r] /\ c = Closed(s)
                       /\ k = [l EXCEPT !.asked = l.asked \ {s}, !.down = Append(l.down, c)]
    OBVIOUS
  <1>2. LinkOK(l, wait[p][r], store[r]) /\ faults \in 0 .. MaxFaults /\ MaxFaults \in Nat
    BY <1>1, LinkIs
  <1>3. /\ k = [life |-> k.life, sock |-> k.sock, subs |-> k.subs, pubs |-> k.pubs, asked |-> k.asked,
                sent |-> k.sent, down |-> k.down]
        /\ k.pubs = l.pubs /\ k.life = l.life /\ k.asked = l.asked \ {s} /\ k.down = Append(l.down, c)
    BY <1>1, <1>2 DEF LinkOK
  <1>4. IsFiniteSet(k.asked)
    <2>1. k.asked \in SUBSET l.asked /\ IsFiniteSet(l.asked)
      BY <1>2, <1>3 DEF LinkOK
    <2> QED  BY <2>1, FS_Subset
  <1>5. IsSeq(k.down) /\ Range(k.down) = Range(l.down) \cup {c}
    BY <1>2, <1>3, AppendIs DEF LinkOK
  <1>6. c.verb # "OK"
    BY <1>1 DEF Closed
  <1>7. LinkOK(k, wait[p][r], store[r])
    BY <1>2, <1>3, <1>4, <1>5, <1>6 DEF LinkOK
  <1>8. link' = [link EXCEPT ![p][r] = k] /\ UNCHANGED <<store, wait, chan, node, agent>>
        /\ faults' \in 0 .. MaxFaults
    <2>1. link' = [link EXCEPT ![p][r] = [link[p][r] EXCEPT !.asked = link[p][r].asked \ {s},
                                                            !.down = Append(link[p][r].down, Closed(s))]]
      BY DEF RelayCloses
    <2>2. UNCHANGED <<store, wait, chan, node, agent>> /\ faults' \in 0 .. MaxFaults
      BY <1>2 DEF RelayCloses
    <2> QED  BY <1>1, <2>1, <2>2
  <1> QED  BY <1>1, <1>3, <1>7, <1>8, QuietLink

Rest(l) == [l EXCEPT !.down = Tail(l.down)]
Dropped(l, s) == [l EXCEPT !.subs = l.subs \ {s}]

LEMMA RestIs ==
    ASSUME NEW l, NEW w, NEW kept, LinkOK(l, w, kept), l.down # <<>>, NEW rest, rest = Rest(l)
    PROVE  LinkOK(rest, w, kept) /\ rest.pubs = l.pubs
  <1>1. /\ rest = [life |-> rest.life, sock |-> rest.sock, subs |-> rest.subs, pubs |-> rest.pubs,
                   asked |-> rest.asked, sent |-> rest.sent, down |-> rest.down]
        /\ rest.life = l.life /\ rest.pubs = l.pubs /\ rest.asked = l.asked /\ rest.down = Tail(l.down)
    BY DEF LinkOK, Rest
  <1>2. IsSeq(rest.down) /\ Range(rest.down) \subseteq Range(l.down) /\ IsFiniteSet(rest.asked)
    BY <1>1, TailIs DEF LinkOK
  <1>3. LinkOK(rest, w, kept)
    BY <1>1, <1>2, LessLink
  <1> QED  BY <1>1, <1>3

LEMMA DroppedIs ==
    ASSUME NEW l, NEW w, NEW kept, LinkOK(l, w, kept), NEW s, NEW k, k = Dropped(l, s)
    PROVE  LinkOK(k, w, kept) /\ k.pubs = l.pubs
  <1>1. /\ k = [life |-> k.life, sock |-> k.sock, subs |-> k.subs, pubs |-> k.pubs, asked |-> k.asked,
                sent |-> k.sent, down |-> k.down]
        /\ k.life = l.life /\ k.pubs = l.pubs /\ k.asked = l.asked /\ k.down = l.down
    BY DEF LinkOK, Dropped
  <1>2. IsSeq(k.down) /\ Range(k.down) = Range(l.down) /\ IsFiniteSet(k.asked)
    BY <1>1 DEF LinkOK
  <1>3. LinkOK(k, w, kept)
    BY <1>1, <1>2, LessLink
  <1> QED  BY <1>1, <1>3

LEMMA SessionReadsOK == ASSUME IInv, NEW p \in Procs, NEW r \in Relays, SessionReads(p, r) PROVE IInv'
  <1>1. PICK l, m, rest : l = link[p][r] /\ m = Head(l.down) /\ rest = Rest(l)
    OBVIOUS
  <1>2. LinkOK(l, wait[p][r], store[r]) /\ faults \in 0 .. MaxFaults /\ RelayOK(store[r])
    BY <1>1, LinkIs
  <1>3. l.life = "run" /\ l.down # <<>> /\ UNCHANGED <<store, chan, node, agent, faults>>
    BY <1>1 DEF SessionReads
  <1>4. PICK k : /\ link' = [link EXCEPT ![p][r] = k]
                 /\ \/ m.verb = "OK" /\ k = [rest EXCEPT !.pubs = {e \in rest.pubs : e.id # m.id}]
                    \/ m.verb # "OK" /\ (\/ k = rest \/ k = Dropped(rest, m.sub)
                                          \/ k = Unsubscribe(rest, m.sub))
    BY <1>1 DEF SessionReads, Rest, Dropped
  <1>5. PICK hit : /\ hit = {e \in l.pubs : m.verb = "OK" /\ e.id = m.id}
                   /\ wait' = IF hit = {} THEN wait ELSE [wait EXCEPT ![p][r] = {FromOk(m.accepted)}]
    BY <1>1 DEF SessionReads, Answered
  <1>6. CASE m.verb # "OK"
    <2>1. LinkOK(k, wait[p][r], store[r]) /\ k.pubs = l.pubs
      <3>1. LinkOK(rest, wait[p][r], store[r]) /\ rest.pubs = l.pubs
        BY <1>1, <1>2, <1>3, RestIs
      <3> QED  BY <1>4, <1>6, <3>1, DroppedIs, UnsubscribeIs
    <2>2. wait' = wait
      BY <1>5, <1>6
    <2> QED  BY <1>1, <1>2, <1>3, <1>4, <2>1, <2>2, QuietLink
  <1>7. CASE m.verb = "OK"
    <2>1. k = [rest EXCEPT !.pubs = {e \in rest.pubs : e.id # m.id}]
      BY <1>4, <1>7
    <2>2. LinkOK(rest, wait[p][r], store[r]) /\ rest.pubs = l.pubs
      BY <1>1, <1>2, <1>3, RestIs
    <2>3. /\ k = [life |-> k.life, sock |-> k.sock, subs |-> k.subs, pubs |-> k.pubs, asked |-> k.asked,
                  sent |-> k.sent, down |-> k.down]
          /\ k.life = rest.life /\ k.pubs = {e \in rest.pubs : e.id # m.id} /\ k.asked = rest.asked
          /\ k.down = rest.down
      BY <2>1, <2>2 DEF LinkOK
    <2>4. IsFiniteSet(k.asked) /\ IsSeq(k.down) /\ Range(k.down) = Range(rest.down)
      BY <2>2, <2>3 DEF LinkOK
    <2>5. LinkOK(k, wait[p][r], store[r])
      BY <2>2, <2>3, <2>4, LessLink
    <2>6. CASE hit = {}
      BY <1>1, <1>2, <1>3, <1>4, <1>5, <2>2, <2>3, <2>5, <2>6, QuietLink
    <2>7. CASE hit # {}
      <3>1. PICK e \in l.pubs : e.id = m.id
        BY <1>5, <2>7
      <3>2. k.pubs = {}
        BY <1>2, <2>2, <2>3, <3>1 DEF LinkOK
      <3>3. PICK w : w = {FromOk(m.accepted)}
        OBVIOUS
      <3>4. w \subseteq Outcomes /\ (w = {"Ok"} => m.accepted)
        BY <3>3 DEF FromOk, Outcomes
      <3>5. LinkOK(k, w, store[r])
        BY <2>5, <3>2, <3>4, AnsweredLink
      <3>6. ASSUME w = {"Ok"} PROVE e \in Range(store[r])
        <4>1. m \in Range(l.down)
          BY <1>1, <1>2, <1>3, TailIs DEF LinkOK
        <4>2. PICK x \in Range(store[r]) : x.id = m.id
          BY <1>2, <1>7, <3>4, <3>6, <4>1 DEF LinkOK
        <4>3. Signed(x) /\ Signed(e)
          BY <1>2 DEF LinkOK, RelayOK
        <4> QED  BY <3>1, <4>2, <4>3, IdsDiffer
      <3>7. wait' = [wait EXCEPT ![p][r] = w]
        BY <1>5, <2>7, <3>3
      <3> QED  BY <1>1, <1>2, <1>3, <1>4, <3>2, <3>5, <3>6, <3>7, OneLink
    <2> QED  BY <2>6, <2>7
  <1> QED  BY <1>6, <1>7
-----------------------------------------------------------------------------
(* Steps of the node and the agent that leave the sessions alone. *)

LEMMA QuietEnds ==
    ASSUME IInv, UNCHANGED <<store, link, wait>>, Ends', NodeIs(node'), AgentIs(agent'), Told', Bounds'
    PROVE  IInv'
  <1>1. Tables' /\ Net'
    BY DEF IInv, Tables, Net
  <1> QED  BY <1>1 DEF IInv

LEMMA FeedOK == ASSUME IInv, NEW r \in Relays, Feed(r) PROVE IInv'
  <1>1. UNCHANGED <<store, link, wait, node, agent, faults>> /\ Len(chan) < ChanCap
        /\ chan' = Append(chan, Head(feed[r]))
    BY DEF Feed
  <1>2. Ends' /\ NodeIs(node') /\ AgentIs(agent') /\ Told'
    BY <1>1 DEF IInv, Ends, Told
  <1>3. IsSeq(chan) /\ faults \in 0 .. MaxFaults
    BY DEF IInv, Bounds
  <1>4. IsSeq(chan') /\ Len(chan') <= ChanCap
    <2>1. PICK S, x : chan \in Seq(S) /\ x = Head(feed[r])
      BY <1>3 DEF IsSeq
    <2>2. chan \in Seq(S \cup {x}) /\ x \in S \cup {x}
      BY <2>1
    <2>3. Len(Append(chan, x)) = Len(chan) + 1 /\ Len(chan) \in Nat
      BY <2>2
    <2> QED  BY <1>1, <1>3, <2>1, <2>3, AppendIs, RelayNetAssumption
  <1> QED  BY <1>1, <1>2, <1>3, <1>4, QuietEnds DEF Bounds

LEMMA NewBlockOK == ASSUME IInv, NewBlock PROVE IInv'
  <1>1. UNCHANGED <<store, link, wait, chan, agent, faults>> /\ node.phase = "loop" /\ node.tip < MaxTip
        /\ node' = [node EXCEPT !.tip = node.tip + 1]
    BY DEF NewBlock
  <1>2. NodeIs(node)
    BY DEF IInv
  <1>3. node'.phase = "loop" /\ node'.announced = node.announced /\ NodeIs(node')
    BY <1>1, <1>2, RelayNetAssumption DEF NodeIs
  <1>4. Ends'
    BY <1>1, <1>3 DEF IInv, Ends, NodeOK
  <1>5. Told' /\ Bounds' /\ AgentIs(agent')
    BY <1>1, <1>3 DEF IInv, Told, Bounds
  <1> QED  BY <1>1, <1>3, <1>4, <1>5, QuietEnds

\* The node's chain, announcement and phase stay as they are.
LEMMA SameNode ==
    ASSUME IInv, UNCHANGED <<store, link, wait, agent, faults>>, NodeIs(node'), Bounds',
           node'.tip = node.tip, node'.phase = node.phase, node'.announced = node.announced
    PROVE  IInv'
  <1>1. Ends' /\ Told' /\ AgentIs(agent')
    BY DEF IInv, Ends, NodeOK, Told
  <1> QED  BY <1>1, QuietEnds

LEMMA HandleEventOK == ASSUME IInv, HandleEvent PROVE IInv'
  <1>1. PICK seen, pool : node' = [node EXCEPT !.seen = seen, !.pool = pool]
    BY DEF HandleEvent
  <1>2. UNCHANGED <<store, link, wait, agent, faults>> /\ chan # <<>> /\ chan' = Tail(chan)
    BY DEF HandleEvent
  <1>3. NodeIs(node)
    BY DEF IInv
  <1>4. NodeIs(node') /\ node'.tip = node.tip /\ node'.phase = node.phase /\ node'.announced = node.announced
    BY <1>1, <1>3 DEF NodeIs
  <1>5. Bounds'
    <2>1. IsSeq(chan) /\ Len(chan) <= ChanCap /\ faults \in 0 .. MaxFaults
      BY DEF IInv, Bounds
    <2>2. Len(chan') <= ChanCap
      <3>1. PICK S : chan \in Seq(S)
        BY <2>1 DEF IsSeq
      <3>2. Len(Tail(chan)) = Len(chan) - 1 /\ Len(chan) \in Nat
        BY <1>2, <3>1
      <3> QED  BY <1>2, <2>1, <3>2, RelayNetAssumption
    <2> QED  BY <1>2, <2>1, <2>2, TailIs DEF Bounds
  <1> QED  BY <1>2, <1>4, <1>5, SameNode

LEMMA RetryDueOK == ASSUME IInv, RetryDue PROVE IInv'
  <1>1. PICK retry : node' = [node EXCEPT !.retry = retry]
    BY DEF RetryDue
  <1>2. UNCHANGED <<store, link, wait, chan, agent, faults>>
    BY DEF RetryDue
  <1>3. NodeIs(node)
    BY DEF IInv
  <1>4. NodeIs(node') /\ node'.tip = node.tip /\ node'.phase = node.phase /\ node'.announced = node.announced
    BY <1>1, <1>3 DEF NodeIs
  <1>5. Bounds'
    BY <1>2 DEF IInv, Bounds
  <1> QED  BY <1>2, <1>4, <1>5, SameNode

\* One answer of all of them was Ok.
LEMMA OkIs ==
    ASSUME NEW p, OkCount(p) > 0
    PROVE  \E r \in Relays : wait[p][r] = {"Ok"}
  <1>1. PICK S : S = {r \in Relays : wait[p][r] = {"Ok"}}
    OBVIOUS
  <1>2. S # {}
    BY <1>1, FS_EmptySet DEF OkCount
  <1> QED  BY <1>1, <1>2

LEMMA AnsweredAll ==
    ASSUME IInv, NEW p \in Procs, AllAnswered(p), NEW r \in Relays
    PROVE  link[p][r].pubs = {}
  BY DEF IInv, Net, LinkOK, AllAnswered

LEMMA AnnouncedOK == ASSUME IInv, Announced PROVE IInv'
  <1>1. UNCHANGED <<store, link, wait, chan, agent, faults>> /\ node.phase = "announcing" /\ AllAnswered("node")
    BY DEF Announced
  <1>2. NodeIs(node)
    BY DEF IInv
  <1>3. /\ NodeIs(node') /\ node'.phase = "loop" /\ node'.tip = node.tip
        /\ \/ node'.announced = node.announced
           \/ OkCount("node") > 0 /\ node'.announced = node.tip
    <2>1. CASE OkCount("node") > 0
      <3>1. node' = [node EXCEPT !.phase = "loop", !.announced = node.tip]
        BY <2>1 DEF Announced
      <3>2. NodeIs(node') /\ node'.phase = "loop" /\ node'.tip = node.tip /\ node'.announced = node.tip
        <4>1. /\ node'.phase = "loop" /\ node'.tip = node.tip /\ node'.announced = node.tip
              /\ node' = [tip |-> node'.tip, announced |-> node'.announced, phase |-> node'.phase,
                          retry |-> node'.retry, seen |-> node'.seen, pool |-> node'.pool]
          BY <1>2, <3>1 DEF NodeIs
        <4>2. node.tip \in 0 .. MaxTip /\ node.tip \in -1 .. node.tip
          BY <1>2, RelayNetAssumption DEF NodeIs
        <4> QED  BY <4>1, <4>2 DEF NodeIs
      <3> QED  BY <2>1, <3>2
    <2>2. CASE ~(OkCount("node") > 0)
      <3>1. PICK retry : node' = [node EXCEPT !.phase = "loop", !.retry = retry]
        BY <2>2 DEF Announced
      <3>2. NodeIs(node') /\ node'.phase = "loop" /\ node'.tip = node.tip /\ node'.announced = node.announced
        BY <1>2, <3>1 DEF NodeIs
      <3> QED  BY <3>2
    <2> QED  BY <2>1, <2>2
  <1>4. "node" \in Procs
    BY DEF Procs
  <1>5. Ends'
    <2>1. \A r \in Relays : link["node"][r].pubs = {}
      BY <1>1, <1>4, AnsweredAll
    <2> QED  BY <1>1, <1>3, <2>1 DEF IInv, Ends, NodeOK
  <1>6. Told'
    <2>1. ASSUME OkCount("node") > 0
          PROVE  \E r \in Relays : \E e \in Range(store[r]) : Announces(e, node.tip)
      <3>1. PICK r \in Relays : wait["node"][r] = {"Ok"}
        BY <2>1, OkIs
      <3> QED  BY <1>1, <3>1 DEF IInv, Ends, NodeOK
    <2>2. CASE node'.announced = node.announced
      BY <1>1, <2>2 DEF IInv, Told, Announces
    <2>3. CASE OkCount("node") > 0 /\ node'.announced = node.tip
      <3>1. \E r \in Relays : \E e \in Range(store[r]) : Announces(e, node'.announced)
        BY <2>1, <2>3
      <3> QED  BY <1>1, <3>1 DEF IInv, Told, Announces
    <2> QED  BY <1>3, <2>2, <2>3
  <1>7. Bounds' /\ AgentIs(agent')
    BY <1>1 DEF IInv, Bounds
  <1> QED  BY <1>1, <1>3, <1>5, <1>6, <1>7, QuietEnds

LEMMA PaidOK == ASSUME IInv, Paid PROVE IInv'
  <1>1. PICK phase : /\ agent' = [agent EXCEPT !.phase = phase] /\ phase \in {"paid", "done"}
                     /\ phase = "paid" => OkCount("agent") > 0
    BY DEF Paid
  <1>2. UNCHANGED <<store, link, wait, chan, node, faults>> /\ agent.phase = "pay"
    BY DEF Paid
  <1>3. AgentIs(agent)
    BY DEF IInv
  <1>4. AgentIs(agent') /\ agent'.phase = phase
    BY <1>1, <1>2, <1>3 DEF AgentIs
  <1>5. Ends'
    BY <1>1, <1>2, <1>4 DEF IInv, Ends, AgentOK
  <1>6. Told'
    <2>1. ASSUME phase = "paid" PROVE \E r \in Relays : Payment \in Range(store[r])
      <3>1. PICK r \in Relays : wait["agent"][r] = {"Ok"}
        BY <1>1, <2>1, OkIs
      <3> QED  BY <1>2, <3>1 DEF IInv, Ends, AgentOK
    <2> QED  BY <1>2, <1>4, <2>1 DEF IInv, Told, Announces
  <1>7. Bounds' /\ NodeIs(node')
    BY <1>2 DEF IInv, Bounds
  <1> QED  BY <1>2, <1>4, <1>5, <1>6, <1>7, QuietEnds

LEMMA GotLateTipsOK == ASSUME IInv, GotLateTips PROVE IInv'
  <1>1. agent' = [agent EXCEPT !.tips = Fetched, !.phase = "resolve"] /\ agent.phase = "late tips"
        /\ UNCHANGED <<store, link, wait, chan, node, faults>>
    BY DEF GotLateTips
  <1>2. AgentIs(agent)
    BY DEF IInv
  <1>3. AgentIs(agent') /\ agent'.phase = "resolve"
    BY <1>1, <1>2 DEF AgentIs
  <1>4. Ends' /\ Told'
    BY <1>1, <1>3 DEF IInv, Ends, AgentOK, Told
  <1>5. Bounds' /\ NodeIs(node')
    BY <1>1 DEF IInv, Bounds
  <1> QED  BY <1>1, <1>3, <1>4, <1>5, QuietEnds
-----------------------------------------------------------------------------
(* Steps that call every session of a process. *)

LEMMA ManyLinks ==
    ASSUME IInv, NEW p \in Procs, NEW row, NEW answers, store' = store,
           row = [r \in Relays |-> row[r]], answers = [r \in Relays |-> answers[r]],
           link' = [link EXCEPT ![p] = row], wait' = [wait EXCEPT ![p] = answers],
           \A r \in Relays : LinkOK(row[r], answers[r], store[r])
    PROVE  /\ Tables' /\ Net'
           /\ \A q \in Procs, r \in Relays : /\ link'[q][r] = IF q = p THEN row[r] ELSE link[q][r]
                                             /\ wait'[q][r] = IF q = p THEN answers[r] ELSE wait[q][r]
  <1>1. Tables /\ Net
    BY DEF IInv
  <1>2. \A q \in Procs, r \in Relays : /\ link'[q][r] = IF q = p THEN row[r] ELSE link[q][r]
                                       /\ wait'[q][r] = IF q = p THEN answers[r] ELSE wait[q][r]
    BY <1>1 DEF Tables
  <1>3. Tables'
    <2>1. /\ link' = [q \in Procs |-> link'[q]] /\ wait' = [q \in Procs |-> wait'[q]]
          /\ \A q \in Procs : /\ link'[q] = IF q = p THEN row ELSE link[q]
                              /\ wait'[q] = IF q = p THEN answers ELSE wait[q]
      BY <1>1 DEF Tables
    <2>2. \A q \in Procs : /\ link[q] = [r \in Relays |-> link[q][r]]
                           /\ wait[q] = [r \in Relays |-> wait[q][r]]
      BY <1>1 DEF Tables
    <2>3. \A q \in Procs : /\ link'[q] = [r \in Relays |-> link'[q][r]]
                           /\ wait'[q] = [r \in Relays |-> wait'[q][r]]
      BY <2>1, <2>2
    <2>4. store' = [r \in Relays |-> store'[r]]
      BY <1>1 DEF Tables
    <2> QED  BY <2>1, <2>3, <2>4 DEF Tables
  <1>4. Net'
    BY <1>1, <1>2 DEF Net
  <1> QED  BY <1>2, <1>3, <1>4

LEMMA SubscribeIs ==
    ASSUME NEW l, NEW w, NEW kept, LinkOK(l, w, kept), NEW s, NEW k, k = Subscribe(l, s)
    PROVE  LinkOK(k, w, kept) /\ k.pubs = l.pubs
  <1>1. CASE l.life = "none"
    <2>1. PICK n : n = [NoLink EXCEPT !.life = "run"]
      OBVIOUS
    <2>2. k = [n EXCEPT !.subs = n.subs \cup {s}]
      BY <1>1, <2>1 DEF Subscribe, Session, NoLink
    <2>3. /\ k = [life |-> k.life, sock |-> k.sock, subs |-> k.subs, pubs |-> k.pubs, asked |-> k.asked,
                  sent |-> k.sent, down |-> k.down]
          /\ k.pubs = {} /\ k.asked = {} /\ k.down = <<>>
      <3>1. PICK none, one, down : none = {} /\ one = n.subs \cup {s} /\ down = <<>>
        OBVIOUS
      <3>2. n = [life |-> "run", sock |-> FALSE, subs |-> none, pubs |-> none, asked |-> none, sent |-> none,
                 down |-> down]
        BY ONLY <2>1, <3>1 DEF NoLink
      <3>3. k = [n EXCEPT !.subs = one]
        BY ONLY <2>2, <3>1
      <3>4. /\ k = [life |-> k.life, sock |-> k.sock, subs |-> k.subs, pubs |-> k.pubs, asked |-> k.asked,
                    sent |-> k.sent, down |-> k.down]
            /\ k.pubs = none /\ k.asked = none /\ k.down = down
        BY ONLY <3>2, <3>3
      <3> QED  BY ONLY <3>1, <3>4
    <2>4. LinkOK(k, w, kept)
      BY <2>3, LessLink, EmptyIs, FS_EmptySet
    <2> QED  BY <1>1, <2>3, <2>4 DEF LinkOK
  <1>2. CASE l.life # "none" /\ l.life # "run"
    BY <1>2 DEF Subscribe, Session
  <1>3. CASE l.life = "run"
    <2>1. k = [l EXCEPT !.subs = l.subs \cup {s}]
      BY <1>3 DEF Subscribe, Session
    <2>2. /\ k = [life |-> k.life, sock |-> k.sock, subs |-> k.subs, pubs |-> k.pubs, asked |-> k.asked,
                  sent |-> k.sent, down |-> k.down]
          /\ k.pubs = l.pubs /\ k.life = l.life /\ k.asked = l.asked /\ k.down = l.down
      BY <2>1 DEF LinkOK
    <2>3. IsFiniteSet(k.asked) /\ IsSeq(k.down) /\ Range(k.down) = Range(l.down)
      BY <2>2 DEF LinkOK
    <2>4. LinkOK(k, w, kept)
      BY <2>2, <2>3, LessLink
    <2> QED  BY <2>2, <2>4
  <1> QED  BY <1>1, <1>2, <1>3

\* Whatever is fetched: the agent's publishes are as they were.
LEMMA FetchAllOK ==
    ASSUME IInv, NEW what, NEW f, FetchAll(what, f), UNCHANGED <<store, wait, chan, node, faults>>,
           AgentIs(agent'), agent'.phase \notin {"pay", "paid"}
    PROVE  IInv'
  <1>1. PICK p, s, row : /\ p = "agent" /\ s = FetchSub(what, f)
                         /\ row = [r \in Relays |-> Subscribe(link[p][r], s)]
    OBVIOUS
  <1>2. p \in Procs
    BY <1>1 DEF Procs
  <1>3. link' = [link EXCEPT ![p] = row]
    BY <1>1 DEF FetchAll
  <1>4. PICK answers : answers = wait[p]
    OBVIOUS
  <1>5. answers = [r \in Relays |-> answers[r]] /\ wait' = [wait EXCEPT ![p] = answers]
    BY <1>2, <1>4 DEF IInv, Tables
  <1>6. ASSUME NEW r \in Relays
        PROVE  LinkOK(row[r], answers[r], store[r]) /\ row[r].pubs = link[p][r].pubs
    <2>1. LinkOK(link[p][r], answers[r], store[r])
      BY <1>2, <1>4, LinkIs
    <2>2. row[r] = Subscribe(link[p][r], s)
      BY <1>1
    <2> QED  BY <2>1, <2>2, SubscribeIs
  <1>7. row = [r \in Relays |-> row[r]]
    BY <1>1
  <1>8. /\ Tables' /\ Net'
        /\ \A q \in Procs, r \in Relays : /\ link'[q][r] = IF q = p THEN row[r] ELSE link[q][r]
                                          /\ wait'[q][r] = IF q = p THEN answers[r] ELSE wait[q][r]
    <2>1. \A r \in Relays : LinkOK(row[r], answers[r], store[r])
      BY <1>6
    <2>2. store' = store
      OBVIOUS
    <2>3. IInv
      OBVIOUS
    <2> QED  BY ONLY <1>2, <1>3, <1>5, <1>7, <2>1, <2>2, <2>3, ManyLinks
  <1>9. Ends'
    <2>1. \A r \in Relays : link'["agent"][r].pubs = link["agent"][r].pubs /\ link'["node"][r] = link["node"][r]
      BY <1>1, <1>6, <1>8 DEF Procs
    <2> QED  BY <2>1 DEF IInv, Ends, AgentOK
  <1>10. Told' /\ Bounds' /\ NodeIs(node')
    BY DEF IInv, Told, Bounds
  <1> QED  BY <1>8, <1>9, <1>10 DEF IInv

LEMMA AskEventOK ==
    ASSUME IInv, NEW ask \in Asks, NEW tips, AskEvent(ask, tips), UNCHANGED <<store, wait, chan, node, faults>>,
           agent.phase \in {"idle", "tips"}
    PROVE  IInv'
  <1>1. AgentIs(agent)
    BY DEF IInv
  <1>2. PICK phase \in {"resolve", "event"} :
            agent' = [agent EXCEPT !.phase = phase, !.ask = ask, !.tips = tips]
    BY DEF AskEvent
  <1>3. AgentIs(agent') /\ agent'.phase = phase
    BY <1>1, <1>2 DEF AgentIs
  <1>4. CASE TheId(ask, tips) = {}
    <2>1. UNCHANGED link
      BY <1>4 DEF AskEvent
    <2>2. Ends' /\ Told' /\ Bounds' /\ NodeIs(node')
      BY <1>3, <2>1 DEF IInv, Ends, AgentOK, Told, Bounds
    <2> QED  BY <1>3, <2>1, <2>2, QuietEnds
  <1>5. CASE TheId(ask, tips) # {}
    <2>1. PICK i : FetchAll("event", EventFilter(i))
      BY <1>5 DEF AskEvent
    <2> QED  BY <1>3, <2>1, FetchAllOK
  <1> QED  BY <1>4, <1>5

LEMMA AskOK == ASSUME IInv, NEW ask \in Asks, Ask(ask) PROVE IInv'
  <1>1. AgentIs(agent)
    BY DEF IInv
  <1>2. UNCHANGED <<store, wait, chan, node, faults>> /\ agent.phase = "idle"
    BY DEF Ask
  <1>3. CASE ask.alias = {}
    <2>1. AskEvent(ask, {})
      BY <1>3 DEF Ask
    <2> QED  BY <1>2, <2>1, AskEventOK
  <1>4. CASE ask.alias # {}
    <2>1. agent' = [agent EXCEPT !.phase = "tips", !.ask = ask]
      BY <1>4 DEF Ask
    <2>2. PICK a : FetchAll("tips", TipFilter(a))
      BY <1>4 DEF Ask
    <2>3. AgentIs(agent') /\ agent'.phase = "tips"
      BY <1>1, <1>2, <2>1 DEF AgentIs
    <2> QED  BY <1>2, <2>2, <2>3, FetchAllOK
  <1> QED  BY <1>3, <1>4

LEMMA GotTipsOK == ASSUME IInv, GotTips PROVE IInv'
  <1>1. AgentIs(agent)
    BY DEF IInv
  <1>2. UNCHANGED <<store, wait, chan, node, faults>> /\ agent.phase = "tips" /\ AskEvent(agent.ask, Fetched)
    BY DEF GotTips
  <1>3. agent.ask \in Asks
    BY <1>1, <1>2 DEF AgentIs
  <1> QED  BY <1>2, <1>3, AskEventOK

LEMMA GotEventOK == ASSUME IInv, GotEvent PROVE IInv'
  <1>1. AgentIs(agent)
    BY DEF IInv
  <1>2. UNCHANGED <<store, wait, chan, node, faults>> /\ agent.phase = "event"
    BY DEF GotEvent
  <1>3. PICK events : events = {e \in Fetched : e.id \in TheId(agent.ask, agent.tips)}
    OBVIOUS
  <1>4. CASE agent.ask.alias = {} /\ AliasOf(events) # {}
    <2>1. agent' = [agent EXCEPT !.event = events, !.phase = "late tips"]
      BY <1>3, <1>4 DEF GotEvent
    <2>2. PICK a : FetchAll("late tips", TipFilter(a))
      BY <1>3, <1>4 DEF GotEvent
    <2>3. AgentIs(agent') /\ agent'.phase = "late tips"
      BY <1>1, <1>2, <2>1 DEF AgentIs
    <2> QED  BY <1>2, <2>2, <2>3, FetchAllOK
  <1>5. CASE ~(agent.ask.alias = {} /\ AliasOf(events) # {})
    <2>1. agent' = [agent EXCEPT !.event = events, !.phase = "resolve"] /\ UNCHANGED link
      BY <1>3, <1>5 DEF GotEvent
    <2>2. AgentIs(agent') /\ agent'.phase = "resolve"
      BY <1>1, <1>2, <2>1 DEF AgentIs
    <2>3. Ends' /\ Told' /\ Bounds' /\ NodeIs(node')
      BY <1>2, <2>1, <2>2 DEF IInv, Ends, AgentOK, Told, Bounds
    <2> QED  BY <1>2, <2>1, <2>2, <2>3, QuietEnds
  <1> QED  BY <1>4, <1>5

LEMMA PublishIs ==
    ASSUME NEW l, NEW w, NEW kept, LinkOK(l, w, kept), NEW e, Signed(e), \A x \in l.pubs : x = e, NEW k,
           k = Publish(l, e), NEW v, v = IF Session(l).life = "run" THEN {} ELSE {"Closed"}
    PROVE  LinkOK(k, v, kept) /\ k.pubs \subseteq {e} /\ v # {"Ok"}
  <1>1. CASE l.life = "none"
    <2>1. PICK n : n = [NoLink EXCEPT !.life = "run"]
      OBVIOUS
    <2>2. k = [n EXCEPT !.pubs = n.pubs \cup {e}] /\ v = {}
      BY <1>1, <2>1 DEF Publish, Session, NoLink
    <2>3. /\ k = [life |-> k.life, sock |-> k.sock, subs |-> k.subs, pubs |-> k.pubs, asked |-> k.asked,
                  sent |-> k.sent, down |-> k.down]
          /\ k.life = "run" /\ k.pubs = {e} /\ k.asked = {} /\ k.down = <<>>
      <3>1. PICK none, one, down : none = {} /\ one = {e} /\ down = <<>>
        OBVIOUS
      <3>2. n = [life |-> "run", sock |-> FALSE, subs |-> none, pubs |-> none, asked |-> none, sent |-> none,
                 down |-> down]
        BY ONLY <2>1, <3>1 DEF NoLink
      <3>3. n.pubs \cup {e} = one
        BY ONLY <3>1, <3>2
      <3>4. k = [n EXCEPT !.pubs = one]
        BY ONLY <2>2, <3>3
      <3>5. /\ k = [life |-> k.life, sock |-> k.sock, subs |-> k.subs, pubs |-> k.pubs, asked |-> k.asked,
                    sent |-> k.sent, down |-> k.down]
            /\ k.life = "run" /\ k.pubs = one /\ k.asked = none /\ k.down = down
        BY ONLY <3>2, <3>4
      <3> QED  BY ONLY <3>1, <3>5
    <2>4. IsFiniteSet(k.asked) /\ IsSeq(k.down) /\ Range(k.down) = {}
      BY <2>3, EmptyIs, FS_EmptySet
    <2> QED  BY <2>2, <2>3, <2>4 DEF LinkOK
  <1>2. CASE l.life # "none" /\ l.life # "run"
    <2>1. k = l /\ v = {"Closed"}
      BY <1>2 DEF Publish, Session
    <2>2. l.pubs = {} /\ v \subseteq Outcomes /\ v # {"Ok"}
      BY <1>2, <2>1 DEF LinkOK, Outcomes
    <2> QED  BY <2>1, <2>2, AnsweredLink
  <1>3. CASE l.life = "run"
    <2>1. k = [l EXCEPT !.pubs = l.pubs \cup {e}] /\ v = {}
      BY <1>3 DEF Publish, Session
    <2>2. /\ k = [life |-> k.life, sock |-> k.sock, subs |-> k.subs, pubs |-> k.pubs, asked |-> k.asked,
                  sent |-> k.sent, down |-> k.down]
          /\ k.pubs = {e} /\ k.life = "run" /\ k.asked = l.asked /\ k.down = l.down
      BY <1>3, <2>1 DEF LinkOK
    <2> QED  BY <2>1, <2>2 DEF LinkOK
  <1> QED  BY <1>1, <1>2, <1>3

LEMMA PublishAllOK ==
    ASSUME IInv, NEW p \in Procs, NEW e, PublishAll(p, e), Signed(e), store' = store,
           \A r \in Relays : \A x \in link[p][r].pubs : x = e
    PROVE  /\ Tables' /\ Net'
           /\ \A r \in Relays : link'[p][r].pubs \subseteq {e} /\ wait'[p][r] # {"Ok"}
           /\ \A q \in Procs, r \in Relays : q # p => link'[q][r] = link[q][r] /\ wait'[q][r] = wait[q][r]
  <1>1. PICK row, answers :
            /\ row = [r \in Relays |-> Publish(link[p][r], e)]
            /\ answers = [r \in Relays |-> IF Session(link[p][r]).life = "run" THEN {} ELSE {"Closed"}]
    OBVIOUS
  <1>2. link' = [link EXCEPT ![p] = row] /\ wait' = [wait EXCEPT ![p] = answers]
    BY <1>1 DEF PublishAll
  <1>3. ASSUME NEW r \in Relays
        PROVE  LinkOK(row[r], answers[r], store[r]) /\ row[r].pubs \subseteq {e} /\ answers[r] # {"Ok"}
    <2>1. PICK l, k, v : l = link[p][r] /\ k = row[r] /\ v = answers[r]
      OBVIOUS
    <2>2. k = Publish(l, e) /\ v = IF Session(l).life = "run" THEN {} ELSE {"Closed"}
      BY <1>1, <2>1
    <2>3. LinkOK(l, wait[p][r], store[r]) /\ \A x \in l.pubs : x = e
      BY <2>1, LinkIs
    <2>4. LinkOK(k, v, store[r]) /\ k.pubs \subseteq {e} /\ v # {"Ok"}
      BY <2>2, <2>3, PublishIs
    <2> QED  BY <2>1, <2>4
  <1>4. row = [r \in Relays |-> row[r]] /\ answers = [r \in Relays |-> answers[r]]
    BY <1>1
  <1>5. /\ Tables' /\ Net'
        /\ \A q \in Procs, r \in Relays : /\ link'[q][r] = IF q = p THEN row[r] ELSE link[q][r]
                                          /\ wait'[q][r] = IF q = p THEN answers[r] ELSE wait[q][r]
    <2>1. \A r \in Relays : LinkOK(row[r], answers[r], store[r])
      BY <1>3
    <2>2. store' = store /\ IInv /\ p \in Procs
      OBVIOUS
    <2> QED  BY ONLY <1>2, <1>4, <2>1, <2>2, ManyLinks
  <1> QED  BY <1>3, <1>5

LEMMA AnnounceOK == ASSUME IInv, Announce PROVE IInv'
  <1>1. NodeIs(node) /\ node.tip \in Nat
    BY RelayNetAssumption DEF IInv, NodeIs
  <1>2. UNCHANGED <<store, chan, agent, faults>> /\ node.phase = "loop"
        /\ node' = [node EXCEPT !.phase = "announcing"]
    BY DEF Announce
  <1>3. PICK t \in TipTemplate(Alias, node.tip, HeadersHex(node.tip), <<Mirror>>) :
            PublishAll("node", SignTipWithPeg(NodeKey, WithChainHash(t, ChainHash), {Doc.challenge}, clock))
    BY DEF Announce
  <1>4. PICK e : e = SignTipWithPeg(NodeKey, WithChainHash(t, ChainHash), {Doc.challenge}, clock)
    OBVIOUS
  <1>5. Signed(e) /\ Announces(e, node.tip) /\ PublishAll("node", e)
    BY <1>1, <1>3, <1>4, TipEventIs
  <1>6. "node" \in Procs /\ "agent" \in Procs /\ \A r \in Relays : link["node"][r].pubs = {}
    BY <1>2 DEF IInv, Ends, NodeOK, Procs
  <1>7. /\ Tables' /\ Net'
        /\ \A r \in Relays : link'["node"][r].pubs \subseteq {e} /\ wait'["node"][r] # {"Ok"}
        /\ \A q \in Procs, r \in Relays : q # "node" => link'[q][r] = link[q][r] /\ wait'[q][r] = wait[q][r]
    BY <1>2, <1>5, <1>6, PublishAllOK
  <1>8. /\ NodeIs(node') /\ node'.phase = "announcing" /\ node'.tip = node.tip
        /\ node'.announced = node.announced
    BY <1>1, <1>2 DEF NodeIs
  <1>9. Ends'
    <2> SUFFICES ASSUME NEW r \in Relays
                 PROVE  /\ NodeOK(link'["node"][r].pubs, wait'["node"][r], store[r], node')
                        /\ AgentOK(link'["agent"][r].pubs, wait'["agent"][r], store[r], agent)
      BY <1>2 DEF Ends
    <2>1. NodeOK(link'["node"][r].pubs, wait'["node"][r], store[r], node')
      BY <1>5, <1>7, <1>8 DEF NodeOK
    <2>2. link'["agent"][r] = link["agent"][r] /\ wait'["agent"][r] = wait["agent"][r]
      BY <1>6, <1>7
    <2> QED  BY <2>1, <2>2 DEF IInv, Ends
  <1>10. Told' /\ Bounds' /\ AgentIs(agent')
    BY <1>2, <1>8 DEF IInv, Told, Bounds, Announces
  <1> QED  BY <1>7, <1>8, <1>9, <1>10 DEF IInv

LEMMA ResolveAndPayOK == ASSUME IInv, NEW height, ResolveAndPay(height) PROVE IInv'
  <1>1. AgentIs(agent)
    BY DEF IInv
  <1>2. UNCHANGED <<store, chan, node, faults>> /\ agent.phase = "resolve" /\ PublishAll("agent", Payment)
    BY DEF ResolveAndPay
  <1>3. PICK x, c : /\ x = ResolveChain(agent.ask.alias, agent.ask.hash, agent.tips, agent.event, Serves)
                    /\ agent' = [agent EXCEPT !.phase = "pay", !.tips = {}, !.event = {}, !.resolved = x,
                                              !.contradicted = c]
    BY DEF ResolveAndPay
  <1>4. Signed(Payment)
    BY SignIs DEF Payment, SignTransactionEvent, TransactionEvent
  <1>5. /\ "node" \in Procs /\ "agent" \in Procs
        /\ \A r \in Relays : \A y \in link["agent"][r].pubs : y = Payment
    BY DEF IInv, Ends, AgentOK, Procs
  <1>6. /\ Tables' /\ Net'
        /\ \A r \in Relays : link'["agent"][r].pubs \subseteq {Payment} /\ wait'["agent"][r] # {"Ok"}
        /\ \A q \in Procs, r \in Relays : q # "agent" => link'[q][r] = link[q][r] /\ wait'[q][r] = wait[q][r]
    BY <1>2, <1>4, <1>5, PublishAllOK
  <1>7. AgentIs(agent') /\ agent'.phase = "pay"
    <2>1. agent.ask \in Asks
      BY <1>1, <1>2 DEF AgentIs
    <2>2. \A i, j \in agent.ask.hash : i = j
      BY <2>1, RelayNetAssumption
    <2>3. \A y \in x : OwnOnly(agent.ask.hash, y)
      BY <1>3, <2>2, ResolvesOwn
    <2>4. /\ agent' = [phase |-> agent'.phase, ask |-> agent'.ask, tips |-> agent'.tips, event |-> agent'.event,
                       resolved |-> agent'.resolved, contradicted |-> agent'.contradicted]
          /\ agent'.phase = "pay" /\ agent'.ask = agent.ask /\ agent'.resolved = x
      BY <1>1, <1>3 DEF AgentIs
    <2> QED  BY <2>1, <2>3, <2>4 DEF AgentIs
  <1>8. Ends'
    <2> SUFFICES ASSUME NEW r \in Relays
                 PROVE  /\ NodeOK(link'["node"][r].pubs, wait'["node"][r], store[r], node)
                        /\ AgentOK(link'["agent"][r].pubs, wait'["agent"][r], store[r], agent')
      BY <1>2 DEF Ends
    <2>1. AgentOK(link'["agent"][r].pubs, wait'["agent"][r], store[r], agent')
      BY <1>6 DEF AgentOK
    <2>2. link'["node"][r] = link["node"][r] /\ wait'["node"][r] = wait["node"][r]
      BY <1>5, <1>6
    <2> QED  BY <2>1, <2>2 DEF IInv, Ends
  <1>9. Told' /\ Bounds' /\ NodeIs(node')
    BY <1>2, <1>7 DEF IInv, Told, Bounds, Announces
  <1> QED  BY <1>6, <1>7, <1>8, <1>9 DEF IInv
-----------------------------------------------------------------------------
(* Steps of the relays. *)

\* A link with more to read, of which an acknowledgement is of something kept.
LEMMA MoreDown ==
    ASSUME NEW l, NEW w, NEW kept, LinkOK(l, w, kept), NEW k,
           k = [life |-> k.life, sock |-> k.sock, subs |-> k.subs, pubs |-> k.pubs, asked |-> k.asked,
                sent |-> k.sent, down |-> k.down],
           k.pubs = l.pubs, k.life = l.life, IsFiniteSet(k.asked), IsSeq(k.down), NEW new,
           Range(k.down) = Range(l.down) \cup new,
           \A m \in new : m.verb = "OK" /\ m.accepted => \E e \in Range(kept) : e.id = m.id
    PROVE  LinkOK(k, w, kept)
  BY DEF LinkOK

LEMMA ItemsAre ==
    ASSUME NEW n \in Nat, NEW a, a = [i \in 1 .. n |-> a[i]], \A i \in 1 .. n : a[i].verb = "EVENT"
    PROVE  IsSeq(a) /\ \A m \in Range(a) : m.verb # "OK"
  <1>1. PICK S : S = {a[i] : i \in 1 .. n}
    OBVIOUS
  <1>2. a \in [1 .. n -> S]
    BY <1>1
  <1>3. IsSeq(a) /\ Range(a) \subseteq S
    BY <1>2, FunctionIs
  <1> QED  BY <1>1, <1>3

LEMMA ServedIs ==
    ASSUME NEW f, NEW kept, IsSeq(kept)
    PROVE  \E n \in Nat : DOMAIN Served(f, kept) = 1 .. n
  <1>1. PICK first \in SUBSET DOMAIN kept : DOMAIN Served(f, kept) = 1 .. Cardinality(first)
    BY DEF Served
  <1>2. IsFiniteSet(DOMAIN kept)
    <2>1. DOMAIN kept = 1 .. Len(kept) /\ Len(kept) \in Int
      BY SeqIs
    <2> QED  BY <2>1, FS_Interval
  <1>3. Cardinality(first) \in Nat
    BY <1>2, FS_Subset, FS_CardinalityType
  <1> QED  BY <1>1, <1>3

LEMMA RelayReqOK == ASSUME IInv, NEW p \in Procs, NEW r \in Relays, NEW s, RelayReq(p, r, s) PROVE IInv'
  <1>1. PICK l, kept, items, a, last :
            /\ l = link[p][r] /\ kept = Served(s.filter, store[r])
            /\ items = [i \in DOMAIN kept |-> Item(s, kept[i])]
            /\ a = l.down \o items /\ last = Eose(s)
    OBVIOUS
  <1>2. PICK one, k : /\ one = <<last>> /\ k = [l EXCEPT !.asked = l.asked \cup {s}, !.down = a \o one]
    OBVIOUS
  <1>3. link' = [link EXCEPT ![p][r] = k] /\ UNCHANGED <<store, wait, chan, node, agent>> /\ faults' = faults
    BY <1>1, <1>2 DEF RelayReq
  <1>4. LinkOK(l, wait[p][r], store[r]) /\ RelayOK(store[r]) /\ faults \in 0 .. MaxFaults
    BY <1>1, LinkIs
  <1>5. IsSeq(items) /\ \A m \in Range(items) : m.verb # "OK"
    <2>1. PICK n \in Nat : DOMAIN kept = 1 .. n
      BY <1>1, <1>4, ServedIs DEF RelayOK
    <2>2. items = [i \in 1 .. n |-> items[i]] /\ \A i \in 1 .. n : items[i].verb = "EVENT"
      BY <1>1, <2>1 DEF Item
    <2> QED  BY <2>1, <2>2, ItemsAre
  <1>6. IsSeq(a) /\ Range(a) = Range(l.down) \cup Range(items)
    BY <1>1, <1>4, <1>5, ConcatIs DEF LinkOK
  <1>7. IsSeq(one) /\ Range(one) = {last} /\ last.verb # "OK"
    <2>1. Range(<<last>>) = {last}
      BY DEF Range
    <2> QED  BY <1>1, <1>2, <2>1, OneIs DEF Eose
  <1>8. /\ k = [life |-> k.life, sock |-> k.sock, subs |-> k.subs, pubs |-> k.pubs, asked |-> k.asked,
                sent |-> k.sent, down |-> k.down]
        /\ k.pubs = l.pubs /\ k.life = l.life /\ k.asked = l.asked \cup {s} /\ k.down = a \o one
    BY <1>2, <1>4 DEF LinkOK
  <1>9. IsFiniteSet(k.asked)
    <2>1. PICK sole : sole = {s}
      OBVIOUS
    <2>2. IsFiniteSet(l.asked) /\ IsFiniteSet(sole) /\ k.asked = l.asked \cup sole
      BY <1>4, <1>8, <2>1, FS_Singleton DEF LinkOK
    <2> QED  BY <2>2, FS_Union
  <1>10. PICK new : new = Range(items) \cup {last}
    OBVIOUS
  <1>11. IsSeq(k.down) /\ Range(k.down) = Range(l.down) \cup new
    BY <1>6, <1>7, <1>8, <1>10, ConcatIs
  <1>12. \A m \in new : m.verb # "OK"
    BY <1>5, <1>7, <1>10
  <1>13. LinkOK(k, wait[p][r], store[r])
    BY <1>4, <1>8, <1>9, <1>11, <1>12, MoreDown
  <1> QED  BY <1>1, <1>3, <1>4, <1>8, <1>13, QuietLink

LEMMA PassedIs ==
    ASSUME NEW l, NEW w, NEW kept, LinkOK(l, w, kept), NEW e, NEW k, k = Passed(l, e)
    PROVE  LinkOK(k, w, kept) /\ k.pubs = l.pubs
  <1>1. PICK S, to, items : /\ S = {s \in l.asked : Matches(s.filter, e)} /\ to = SetToSeq(S)
                            /\ items = [i \in DOMAIN to |-> Item(to[i], e)]
    OBVIOUS
  <1>2. k = [l EXCEPT !.down = l.down \o items]
    BY <1>1 DEF Passed
  <1>3. IsSeq(items) /\ \A m \in Range(items) : m.verb # "OK"
    <2>1. S \in SUBSET l.asked /\ IsFiniteSet(l.asked)
      BY <1>1 DEF LinkOK
    <2>2. IsFiniteSet(S)
      BY <2>1, FS_Subset
    <2>3. PICK n \in Nat : to \in [1 .. n -> S]
      BY <1>1, <2>2, SetToSeqIs
    <2>4. DOMAIN to = 1 .. n
      BY <2>3
    <2>5. items = [i \in 1 .. n |-> items[i]] /\ \A i \in 1 .. n : items[i].verb = "EVENT"
      BY <1>1, <2>4 DEF Item
    <2> QED  BY <2>5, ItemsAre
  <1>4. /\ k = [life |-> k.life, sock |-> k.sock, subs |-> k.subs, pubs |-> k.pubs, asked |-> k.asked,
                sent |-> k.sent, down |-> k.down]
        /\ k.pubs = l.pubs /\ k.life = l.life /\ k.asked = l.asked /\ k.down = l.down \o items
    BY <1>2 DEF LinkOK
  <1>5. IsSeq(k.down) /\ Range(k.down) = Range(l.down) \cup Range(items) /\ IsFiniteSet(k.asked)
    BY <1>3, <1>4, ConcatIs DEF LinkOK
  <1>6. LinkOK(k, w, kept)
    <2>1. PICK new : new = Range(items)
      OBVIOUS
    <2>2. Range(k.down) = Range(l.down) \cup new /\ \A m \in new : m.verb # "OK"
      BY <1>3, <1>5, <2>1
    <2>3. LinkOK(l, w, kept)
      OBVIOUS
    <2> QED  BY ONLY <1>4, <1>5, <2>2, <2>3, MoreDown
  <1> QED  BY <1>4, <1>6

LEMMA BroadcastIs ==
    ASSUME NEW links, links = [q \in Procs |-> [x \in Relays |-> links[q][x]]], NEW r \in Relays, NEW e,
           NEW out, out = Broadcast(r, e, links)
    PROVE  /\ out = [q \in Procs |-> [x \in Relays |-> out[q][x]]]
           /\ \A q \in Procs, x \in Relays :
                  out[q][x] = IF x = r THEN Passed(links[q][x], e) ELSE links[q][x]
  <1>1. \A q \in Procs : links[q] = [x \in Relays |-> links[q][x]]
    OBVIOUS
  <1>2. \A q \in Procs : out[q] = [links[q] EXCEPT ![r] = Passed(links[q][r], e)]
    BY DEF Broadcast
  <1>3. ASSUME NEW q \in Procs
        PROVE  /\ out[q] = [x \in Relays |-> out[q][x]]
               /\ \A x \in Relays : out[q][x] = IF x = r THEN Passed(links[q][x], e) ELSE links[q][x]
    <2>1. PICK row, o, k : row = links[q] /\ o = out[q] /\ k = Passed(row[r], e)
      OBVIOUS
    <2>2. row = [x \in Relays |-> row[x]] /\ r \in Relays
      BY <1>1, <2>1
    <2>3. o = [row EXCEPT ![r] = k]
      BY <1>2, <2>1
    <2>4. o = [x \in Relays |-> o[x]] /\ \A x \in Relays : o[x] = IF x = r THEN k ELSE row[x]
      BY ONLY <2>2, <2>3
    <2>5. \A x \in Relays : o[x] = IF x = r THEN Passed(row[x], e) ELSE row[x]
      BY ONLY <2>1, <2>4
    <2> QED  BY ONLY <2>1, <2>4, <2>5
  <1>4. out = [q \in Procs |-> out[q]]
    BY DEF Broadcast
  <1> QED  BY <1>3, <1>4

\* A step of a relay that acknowledges, keeps or passes on something.
LEMMA RelayStepOK ==
    ASSUME IInv, Tables', UNCHANGED <<wait, chan, node, agent>>, faults' \in 0 .. MaxFaults, Grown,
           \A r \in Relays : RelayOK(store'[r]),
           \A r \in Relays, p \in Procs : /\ LinkOK(link'[p][r], wait[p][r], store'[r])
                                          /\ link'[p][r].pubs = link[p][r].pubs
    PROVE  IInv'
  <1>1. Net'
    BY DEF Net
  <1>2. Ends'
    <2> SUFFICES ASSUME NEW r \in Relays
                 PROVE  /\ NodeOK(link'["node"][r].pubs, wait["node"][r], store'[r], node)
                        /\ AgentOK(link'["agent"][r].pubs, wait["agent"][r], store'[r], agent)
      BY DEF Ends
    <2>1. /\ NodeOK(link["node"][r].pubs, wait["node"][r], store[r], node)
          /\ AgentOK(link["agent"][r].pubs, wait["agent"][r], store[r], agent)
      BY DEF IInv, Ends
    <2>2. /\ link'["node"][r].pubs = link["node"][r].pubs /\ link'["agent"][r].pubs = link["agent"][r].pubs
          /\ Range(store[r]) \subseteq Range(store'[r])
      BY DEF Procs, Grown
    <2> QED  BY <2>1, <2>2 DEF NodeOK, AgentOK
  <1>3. Told' /\ Bounds' /\ NodeIs(node') /\ AgentIs(agent')
    BY ToldKept DEF IInv, Bounds
  <1> QED  BY <1>1, <1>2, <1>3 DEF IInv

LEMMA KeepsOne ==
    ASSUME IInv, NEW r \in Relays, NEW e, Signed(e), store' = [store EXCEPT ![r] = Append(store[r], e)]
    PROVE  /\ Grown /\ \A x \in Relays : RelayOK(store'[x])
           /\ e \in Range(store'[r]) /\ store' = [x \in Relays |-> store'[x]]
  <1>1. store = [x \in Relays |-> store[x]] /\ \A x \in Relays : RelayOK(store[x])
    BY DEF IInv, Tables, Net
  <1>2. /\ store'[r] = Append(store[r], e) /\ store' = [x \in Relays |-> store'[x]]
        /\ \A x \in Relays : x # r => store'[x] = store[x]
    BY <1>1
  <1>3. IsSeq(store'[r]) /\ Range(store'[r]) = Range(store[r]) \cup {e}
    BY <1>1, <1>2, AppendIs DEF RelayOK
  <1> QED  BY <1>1, <1>2, <1>3 DEF Grown, RelayOK

LEMMA ElsewhereOK == ASSUME IInv, NEW r \in Relays, NEW e \in Foreign, Elsewhere(r, e) PROVE IInv'
  <1>1. UNCHANGED <<wait, chan, node, agent>> /\ Fresh(r, e) /\ faults' \in 0 .. MaxFaults
        /\ store' = [store EXCEPT ![r] = Append(store[r], e)] /\ link' = Broadcast(r, e, link)
    BY RelayNetAssumption DEF Elsewhere, IInv, Bounds
  <1>2. Signed(e)
    BY <1>1, RelayNetAssumption DEF Fresh, Signed
  <1>3. /\ Grown /\ \A x \in Relays : RelayOK(store'[x])
        /\ store' = [x \in Relays |-> store'[x]]
    BY <1>1, <1>2, KeepsOne
  <1>4. Tables
    BY DEF IInv
  <1>5. /\ link' = [q \in Procs |-> [x \in Relays |-> link'[q][x]]]
        /\ \A q \in Procs, x \in Relays :
               link'[q][x] = IF x = r THEN Passed(link[q][x], e) ELSE link[q][x]
    <2>1. link = [q \in Procs |-> [x \in Relays |-> link[q][x]]]
      BY <1>4 DEF Tables
    <2> QED  BY <1>1, <2>1, BroadcastIs
  <1>6. ASSUME NEW x \in Relays, NEW q \in Procs
        PROVE  LinkOK(link'[q][x], wait[q][x], store'[x]) /\ link'[q][x].pubs = link[q][x].pubs
    <2>1. LinkOK(link[q][x], wait[q][x], store[x])
      BY LinkIs
    <2>2. LinkOK(link[q][x], wait[q][x], store'[x])
      BY <1>3, <2>1, LinkMore DEF Grown
    <2> QED  BY <1>5, <2>2, PassedIs
  <1>7. Tables'
    BY <1>1, <1>3, <1>4, <1>5 DEF Tables
  <1> QED  BY <1>1, <1>3, <1>6, <1>7, RelayStepOK

\* An event that verifies and is not new is kept already.
LEMMA StaleIs ==
    ASSUME NEW r, NEW e, Verify(e), ~Fresh(r, e)
    PROVE  \E x \in Range(store[r]) : x.id = e.id
  BY DEF Fresh, Range

LEMMA RelayEventOK ==
    ASSUME IInv, NEW p \in Procs, NEW r \in Relays, NEW e, NEW refuse, RelayEvent(p, r, e, refuse)
    PROVE  IInv'
  <1>1. PICK l, ok, m, k, told :
            /\ l = link[p][r] /\ ok = (Verify(e) /\ ~refuse) /\ m = OkMsg(e, ok)
            /\ k = [l EXCEPT !.sent = l.sent \cup {e}, !.down = Append(l.down, m)]
            /\ told = [link EXCEPT ![p][r] = k]
    OBVIOUS
  <1>2. /\ e \in l.pubs /\ UNCHANGED <<wait, chan, node, agent>>
        /\ store' = IF ok /\ Fresh(r, e) THEN [store EXCEPT ![r] = Append(store[r], e)] ELSE store
        /\ link' = IF ok /\ Fresh(r, e) THEN Broadcast(r, e, told) ELSE told
    BY <1>1 DEF RelayEvent
  <1>3. LinkOK(l, wait[p][r], store[r]) /\ RelayOK(store[r]) /\ faults \in 0 .. MaxFaults /\ MaxFaults \in Nat
    BY <1>1, LinkIs
  <1>4. Signed(e) /\ Verify(e)
    BY <1>2, <1>3 DEF LinkOK, Signed
  <1>5. faults' \in 0 .. MaxFaults
    BY <1>3 DEF RelayEvent
  <1>6. Tables /\ Net
    BY DEF IInv
  <1>7. /\ Grown /\ (\A x \in Relays : RelayOK(store'[x])) /\ store' = [x \in Relays |-> store'[x]]
        /\ ok => \E x \in Range(store'[r]) : x.id = e.id
    <2>1. CASE ok /\ Fresh(r, e)
      BY <1>2, <1>4, <2>1, KeepsOne
    <2>2. CASE ~(ok /\ Fresh(r, e))
      <3>1. store' = store
        BY <1>2, <2>2
      <3>2. ok => \E x \in Range(store[r]) : x.id = e.id
        BY <1>4, <2>2, StaleIs
      <3> QED  BY <1>6, <3>1, <3>2 DEF Tables, Net, Grown
    <2> QED  BY <2>1, <2>2
  <1>8. /\ k = [life |-> k.life, sock |-> k.sock, subs |-> k.subs, pubs |-> k.pubs, asked |-> k.asked,
                sent |-> k.sent, down |-> k.down]
        /\ k.pubs = l.pubs /\ k.life = l.life /\ k.asked = l.asked /\ k.down = Append(l.down, m)
    BY <1>1, <1>3 DEF LinkOK
  <1>9. LinkOK(k, wait[p][r], store'[r])
    <2>1. LinkOK(l, wait[p][r], store'[r])
      BY <1>3, <1>7, LinkMore DEF Grown
    <2>2. PICK new : new = {m}
      OBVIOUS
    <2>3. IsSeq(k.down) /\ Range(k.down) = Range(l.down) \cup new /\ IsFiniteSet(k.asked)
      BY <1>3, <1>8, <2>2, AppendIs DEF LinkOK
    <2>4. m.id = e.id /\ m.accepted = ok
      BY <1>1 DEF OkMsg
    <2>5. \A y \in new : y.verb = "OK" /\ y.accepted => \E x \in Range(store'[r]) : x.id = y.id
      BY <1>7, <2>2, <2>4
    <2> QED  BY ONLY <1>8, <2>1, <2>3, <2>5, MoreDown
  <1>10. /\ told = [q \in Procs |-> [x \in Relays |-> told[q][x]]]
         /\ \A q \in Procs, x \in Relays : told[q][x] = IF q = p /\ x = r THEN k ELSE link[q][x]
    <2>1. told = [link EXCEPT ![p][r] = k] /\ link = [q \in Procs |-> [x \in Relays |-> link[q][x]]]
          /\ p \in Procs /\ r \in Relays
      BY <1>1, <1>6 DEF Tables
    <2> QED  BY ONLY <2>1
  <1>11. ASSUME NEW x \in Relays, NEW q \in Procs
         PROVE  LinkOK(told[q][x], wait[q][x], store'[x]) /\ told[q][x].pubs = link[q][x].pubs
    <2>1. LinkOK(link[q][x], wait[q][x], store[x])
      BY LinkIs
    <2>2. LinkOK(link[q][x], wait[q][x], store'[x])
      BY <1>7, <2>1, LinkMore DEF Grown
    <2> QED  BY <1>1, <1>8, <1>9, <1>10, <2>2
  <1>12. /\ link' = [q \in Procs |-> [x \in Relays |-> link'[q][x]]]
         /\ \A q \in Procs, x \in Relays :
                link'[q][x] = told[q][x] \/ link'[q][x] = Passed(told[q][x], e)
    <2>1. CASE link' = told
      BY <1>10, <2>1
    <2>2. CASE link' = Broadcast(r, e, told)
      <3>1. PICK out : out = Broadcast(r, e, told) /\ link' = out
        BY <2>2
      <3>2. /\ out = [q \in Procs |-> [x \in Relays |-> out[q][x]]]
            /\ \A q \in Procs, x \in Relays :
                   out[q][x] = IF x = r THEN Passed(told[q][x], e) ELSE told[q][x]
        BY <1>10, <3>1, BroadcastIs
      <3> QED  BY <3>1, <3>2
    <2> QED  BY <1>2, <2>1, <2>2
  <1>13. ASSUME NEW x \in Relays, NEW q \in Procs
         PROVE  LinkOK(link'[q][x], wait[q][x], store'[x]) /\ link'[q][x].pubs = link[q][x].pubs
    BY <1>11, <1>12, PassedIs
  <1>14. Tables'
    BY <1>2, <1>6, <1>7, <1>12 DEF Tables
  <1> QED  BY <1>2, <1>5, <1>7, <1>13, <1>14, RelayStepOK
-----------------------------------------------------------------------------
(* The theorems. *)

LEMMA StutterOK == ASSUME IInv, UNCHANGED vars PROVE IInv'
  BY DEF IInv, vars, Tables, Net, Ends, Told, Bounds

LEMMA IInvInductive == IInv /\ [Next]_vars => IInv'
  <1> SUFFICES ASSUME IInv, [Next]_vars PROVE IInv'
    OBVIOUS
  <1>1. CASE NodeStep
    BY <1>1, NewBlockOK, HandleEventOK, AnnounceOK, AnnouncedOK, RetryDueOK DEF NodeStep
  <1>2. CASE AgentStep
    BY <1>2, AskOK, ResolveAndPayOK, GotTipsOK, GotEventOK, GotLateTipsOK, PaidOK DEF AgentStep
  <1>3. ASSUME NEW r \in Relays, Feed(r) PROVE IInv'
    BY <1>3, FeedOK
  <1>4. ASSUME NEW p \in Procs, NEW r \in Relays, PoolStep(p, r) \/ RelayStep(p, r) PROVE IInv'
    BY <1>4, ConnectOK, SessionReadsOK, SessionGoneOK, RelayReqOK, RelayEventOK DEF PoolStep, RelayStep
  <1>5. CASE Fault
    BY <1>5, DisconnectOK, PublishTimeoutOK, IdleEndsOK, RelayEventOK, RelayClosesOK, FetchTimeoutOK,
       ElsewhereOK DEF Fault
  <1>6. CASE UNCHANGED vars
    BY <1>6, StutterOK
  <1> QED  BY <1>1, <1>2, <1>3, <1>4, <1>5, <1>6 DEF Next, Work

LEMMA IInvAlways == Spec => []IInv
  BY InitOK, IInvInductive, PTL DEF Spec

\* The node's tip and announcement, its channel, the failures and every outcome of a
\* publish stay within their types and bounds.
THEOREM TypeCorrect == Spec => []TypeOK
  <1>1. IInv => TypeOK
    BY DEF IInv, NodeIs, Bounds, Net, LinkOK, TypeOK
  <1> QED  BY <1>1, IInvAlways, PTL

\* However publishes, answers, lost connections and timeouts interleave, and with any
\* number of relays, an Ok that publish_all counts is for an event that relay holds: a
\* payment taken for paid is on a relay, and so is a tip of every height announced.
THEOREM OkIsStoredAlways == Spec => []OkIsStored
  <1>1. ASSUME IInv PROVE OkIsStored
    <2>1. ASSUME NEW r \in Relays, NEW e \in Range(store[r])
          PROVE  \E i \in DOMAIN store[r] : store[r][i] = e
      BY <2>1 DEF Range
    <2>2. ASSUME agent.phase = "paid" PROVE \E r \in Relays : Holds(r, Payment)
      <3>1. PICK r \in Relays : Payment \in Range(store[r])
        BY <1>1, <2>2 DEF IInv, Told
      <3> QED  BY <2>1, <3>1 DEF Holds
    <2>3. ASSUME node.announced >= 0 PROVE OnARelay(node.announced)
      <3>1. PICK r \in Relays : \E e \in Range(store[r]) : Announces(e, node.announced)
        BY <1>1, <2>3 DEF IInv, Told
      <3> QED  BY <2>1, <3>1 DEF OnARelay, Announces
    <2> QED  BY <2>2, <2>3 DEF OkIsStored
  <1> QED  BY <1>1, IInvAlways, PTL

\* Whatever the relays and the mirrors hold, give or fail to give, the chain an agent
\* resolves is the one its hash names, and the tip it is judged by is of the chain's own
\* signers and names no other chain.
THEOREM ResolvedIsOwnAlways == Spec => []ResolvedIsOwn
  <1>1. IInv => ResolvedIsOwn
    BY DEF IInv, AgentIs, OwnOnly, ResolvedIsOwn
  <1> QED  BY <1>1, IInvAlways, PTL
=============================================================================
