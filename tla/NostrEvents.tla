----------------------------- MODULE NostrEvents -----------------------------
(***************************************************************************)
(* The Nostr events of a chain and what a client makes of them: signing    *)
(* and verifying, tags, filters, the tip announcement (kind 33333), the    *)
(* chain event (kind 3500) whose id is the chain's identity, transaction   *)
(* and faucet events, the choice and the judging of a mirror, and the      *)
(* resolution of a chain by alias or by hash.                              *)
(*                                                                         *)
(* An optional value is a set of at most one element.  An id is the hash   *)
(* of an event's fields, so it is the tuple of the fields; a signature is  *)
(* the key that made it over an id.                                        *)
(***************************************************************************)
EXTENDS Integers, Sequences, FiniteSets, SequencesExt, FiniteSetsExt

CONSTANT TipHeaders     \* the most headers an announcement carries

ASSUME TipHeadersAssumption == TipHeaders \in 1 .. 40

(***************************************************************************)
(* Events.                                                                 *)
(***************************************************************************)
UnsignedEvent(at, kind, tags, content) ==
    [pubkey |-> "", at |-> at, kind |-> kind, tags |-> tags, content |-> content]

Id(u) == <<u.pubkey, u.at, u.kind, u.tags, u.content>>

ToUnsigned(e) ==
    [pubkey |-> e.pubkey, at |-> e.at, kind |-> e.kind, tags |-> e.tags, content |-> e.content]

Verify(e) == /\ e.id = Id(ToUnsigned(e))
             /\ e.sig = <<e.pubkey, e.id>>

Sign(key, u) ==
    LET by == [u EXCEPT !.pubkey = key]
    IN  [id |-> Id(by), pubkey |-> key, at |-> u.at, kind |-> u.kind, tags |-> u.tags,
         content |-> u.content, sig |-> <<key, Id(by)>>]

IsBy(e, key) == e.pubkey = key

\* An event is its fields and nothing else.
IsEvent(e) == e = [id |-> e.id, pubkey |-> e.pubkey, at |-> e.at, kind |-> e.kind, tags |-> e.tags,
                   content |-> e.content, sig |-> e.sig]

(***************************************************************************)
(* Tags: a sequence of name and value.                                     *)
(***************************************************************************)
All(tags, name) == SelectSeq(tags, LAMBDA t : t[1] = name)
First(tags, name) ==
    {tags[i][2] : i \in {j \in DOMAIN tags : /\ tags[j][1] = name
                                            /\ \A k \in 1 .. j - 1 : tags[k][1] # name}}
IsForChain(tags, alias) == \E i \in DOMAIN tags : tags[i] = <<"chain", alias>>
ChainTag(tags, expect) == {c \in First(tags, "chain") : expect \in {{}, {c}}}

(***************************************************************************)
(* Filters.  An empty set asks nothing of its field; limit 0 is no limit.  *)
(***************************************************************************)
Filter == [ids |-> {}, kinds |-> {}, d |-> {}, since |-> 0, limit |-> 0]
TipFilter(alias) == [Filter EXCEPT !.kinds = {"tip"}, !.d = {alias}, !.limit = 5]
EventFilter(id) == [Filter EXCEPT !.ids = {id}, !.limit = 1]
FollowFilter(kind, sinceSecs, now) ==
    [Filter EXCEPT !.kinds = {kind}, !.since = Max({0, now - sinceSecs})]

Matches(f, e) ==
    /\ f.ids = {} \/ e.id \in f.ids
    /\ f.kinds = {} \/ e.kind \in f.kinds
    /\ f.d = {} \/ \E i \in DOMAIN e.tags : e.tags[i][1] = "d" /\ e.tags[i][2] \in f.d
    /\ e.at >= f.since

FromOk(accepted) == IF accepted THEN "Ok" ELSE "Rejected"

(***************************************************************************)
(* A follower takes each event of its kind and chain once, and keeps the   *)
(* last cap ids in order of arrival.                                       *)
(***************************************************************************)
Remember(order, id, cap) ==
    LET longer == Append(order, id)
    IN  IF Len(longer) > cap THEN Tail(longer) ELSE longer

Accept(order, e, kind, alias, cap) ==
    IF e.kind # kind \/ Contains(order, e.id) \/ ~IsForChain(e.tags, alias)
    THEN [order |-> order, taken |-> FALSE]
    ELSE [order |-> Remember(order, e.id, cap), taken |-> Verify(e)]

(***************************************************************************)
(* The tip announcement.  A header is <<family, chain, height>> and takes  *)
(* 160 or 328 characters of the content.                                   *)
(***************************************************************************)
HeaderHexLen(family) == IF family = "stock" THEN 160 ELSE 328

HexLen(headers) ==
    LET stock == {i \in DOMAIN headers : headers[i][1] = "stock"}
    IN  Cardinality(stock) * HeaderHexLen("stock")
            + Cardinality(DOMAIN headers \ stock) * HeaderHexLen("blake2b")

TipTemplate(alias, tip, headers, mirrors) ==
    IF /\ \A i \in DOMAIN headers : headers[i][1] = headers[1][1]
       /\ Len(headers) <= TipHeaders
       /\ Len(headers) <= tip + 1
    THEN {[alias |-> alias, tip |-> tip, headers |-> headers, mirrors |-> mirrors, hash |-> {}]}
    ELSE {}

WithChainHash(t, hash) == [t EXCEPT !.hash = {hash}]

BuildTip(t, peg, at) ==
    UnsignedEvent(at, "tip",
        <<<<"d", t.alias>>, <<"tip", t.tip>>>>
            \o [i \in DOMAIN t.mirrors |-> <<"u", t.mirrors[i]>>]
            \o SetToSeq({<<"peg", p>> : p \in peg})
            \o SetToSeq({<<"e", h>> : h \in t.hash}),
        t.headers)

TipEventWithPeg(t, peg, at) == BuildTip(t, peg, at)
SignTipWithPeg(key, t, peg, at) == Sign(key, TipEventWithPeg(t, peg, at))

ChainHashOf(e) == First(e.tags, "e")

\* The family is read off the length of the content.
FamilyOf(headers) ==
    {f \in {"stock", "blake2b"} : HexLen(headers) % HeaderHexLen(f) = 0}

ParseTip(e) ==
    IF /\ e.kind = "tip"
       /\ First(e.tags, "d") # {} /\ First(e.tags, "tip") # {}
       /\ e.content = <<>> \/ Cardinality(FamilyOf(e.content)) = 1
       /\ Len(e.content) <= TipHeaders
       /\ \A tip \in First(e.tags, "tip") : Len(e.content) <= tip + 1
    THEN {[alias |-> CHOOSE d \in First(e.tags, "d") : TRUE,
           tip |-> CHOOSE h \in First(e.tags, "tip") : TRUE,
           mirrors |-> [i \in DOMAIN All(e.tags, "u") |-> All(e.tags, "u")[i][2]],
           headers |-> e.content, pubkey |-> e.pubkey, at |-> e.at, hash |-> ChainHashOf(e)]}
    ELSE {}

FirstHeight(t) == t.tip + 1 - Len(t.headers)

HeaderAt(t, height) ==
    IF t.headers = <<>> \/ height < FirstHeight(t) \/ height > t.tip THEN {}
    ELSE {t.headers[height - FirstHeight(t) + 1]}

\* The highest tip, then the latest; signer {} takes any author's.
NewestEvent(events, alias, signer) ==
    LET good == {e \in events : /\ e.kind = "tip" /\ Verify(e)
                                /\ \A s \in signer : IsBy(e, s)
                                /\ \E p \in ParseTip(e) : p.alias = alias}
        tip(e) == CHOOSE p \in ParseTip(e) : TRUE
        best == {e \in good : \A o \in good : \/ tip(e).tip > tip(o).tip
                                              \/ tip(e).tip = tip(o).tip /\ e.at >= o.at}
    IN  IF good = {} THEN {} ELSE {CHOOSE e \in best : TRUE}

Newest(events, alias, signer) == UNION {ParseTip(e) : e \in NewestEvent(events, alias, signer)}

(***************************************************************************)
(* Mirrors.  served[m] is what mirror m answers: a record with the chain   *)
(* document and the chain event it serves, each optional.                  *)
(***************************************************************************)
SignersOf(doc) == UNION doc.signers
AnnouncedBy(doc, key) == key \in doc.signer \cup SignersOf(doc)

ChooseMirror(tip, alias, served) ==
    LET fits(i) == {doc \in served[tip.mirrors[i]].doc :
                        doc.id = alias /\ AnnouncedBy(doc, tip.pubkey)}
        good == {i \in DOMAIN tip.mirrors : fits(i) # {}}
    IN  UNION {{[mirror |-> tip.mirrors[i], chain |-> doc] : doc \in fits(i)} :
                  i \in {j \in good : \A k \in good : j <= k}}

JudgeMirror(announced, height, header) ==
    CASE announced = {} -> "Undecided"
      [] \E a \in announced : height > a.tip -> "Ahead"
      [] \E a \in announced : /\ height <= a.tip
                              /\ header # {} /\ HeaderAt(a, height) # {}
                              /\ header # HeaderAt(a, height) -> "Contradicts"
      [] \E a \in announced : /\ height < a.tip
                              /\ \/ header = {} \/ HeaderAt(a, height) = {}
                                 \/ header = HeaderAt(a, height) -> "Behind"
      [] OTHER -> "Matches"

(***************************************************************************)
(* The chain event: the document signed by its signer, who is left out of  *)
(* the content and put back by the reader.  A document is                  *)
(* [id, signer, signers, challenge]; signer, and signers, a set of keys    *)
(* that may be empty, are optional.                                        *)
(***************************************************************************)
ChainEventFromValue(doc, at) ==
    UnsignedEvent(at, "chain", <<<<"n", doc.id>>>>, [doc EXCEPT !.signer = {}])

SignChainEvent(key, doc, at) == Sign(key, ChainEventFromValue(doc, at))

\* sidestr-agent signs a document only with a key of the chain.
CheckSigner(doc, key) ==
    IF doc.signers # {} THEN key \in SignersOf(doc) ELSE doc.challenge = <<"p2tr", key>>

WithSigner(e) == [k \in DOMAIN e.content \cup {"signer"} |->
                     IF k = "signer" THEN {e.pubkey} ELSE e.content[k]]
ParseChainEvent(e) ==
    IF /\ e.kind = "chain" /\ Verify(e)
       /\ e.content.signer \in {{}, {e.pubkey}}
       /\ e.content.signers = {} \/ e.pubkey \in SignersOf(e.content)
    THEN {[hash |-> e.id, alias |-> e.content.id, pubkey |-> e.pubkey,
           doc |-> IF e.content.signers = {} THEN WithSigner(e) ELSE e.content]}
    ELSE {}

(***************************************************************************)
(* Transaction and faucet events.                                          *)
(***************************************************************************)
TransactionEvent(alias, tx, at) == UnsignedEvent(at, "tx", <<<<"chain", alias>>>>, tx)
SignTransactionEvent(key, alias, tx, at) == Sign(key, TransactionEvent(alias, tx, at))
ParseTransaction(e, expect) ==
    IF e.kind = "tx" /\ ChainTag(e.tags, expect) # {} THEN {e.content} ELSE {}

(***************************************************************************)
(* resolve_chain.  alias and hash are optional; events is what the relays  *)
(* gave for the hash, tips[a] what they gave for the tips of alias a.      *)
(***************************************************************************)
Legacy(alias, tip, served) ==
    {[hash |-> {}, alias |-> alias, pubkey |-> tip.pubkey,
      doc |-> chosen.chain, tip |-> {tip}, legacy |-> TRUE] :
        chosen \in ChooseMirror(tip, alias, served)}

\* The event from the relays, else the first mirror the tip names that serves it.
FoundEvent(id, tip, events, served) ==
    LET on == {e \in events : e.id = id}
        mirrors == UNION {{t.mirrors[i] : i \in DOMAIN t.mirrors} : t \in tip}
    IN  IF on # {} THEN on
        ELSE {e \in UNION {served[m].event : m \in mirrors} : e.id = id}

MutOwnTip(parsed, tip) ==       \* Mutated: the hash the tip names is not looked at.
    \A t \in tip : t.pubkey = parsed.pubkey \/ t.pubkey \in SignersOf(parsed.doc)

\* The tip must be one of the chain's own signers', and must not name another chain.
OwnTip(parsed, tip) ==
    \A t \in tip : /\ t.pubkey = parsed.pubkey \/ t.pubkey \in SignersOf(parsed.doc)
                   /\ t.hash \in {{}, {parsed.hash}}

ResolveChain(alias, hash, tips, events, served) ==
    LET getTip(a) == Newest(tips, a, {})
        tip0 == UNION {getTip(a) : a \in alias}
        id == IF hash # {} THEN hash ELSE UNION {t.hash : t \in tip0}
        parsed == UNION {ParseChainEvent(e) : e \in UNION {FoundEvent(i, tip0, events, served) : i \in id}}
        tip(p) == IF tip0 # {} THEN tip0 ELSE getTip(p.alias)
    IN  IF id = {}
        THEN UNION {Legacy(a, t, served) : a \in alias, t \in tip0}
        ELSE {[hash |-> {p.hash}, alias |-> p.alias, pubkey |-> p.pubkey, doc |-> p.doc,
               tip |-> tip(p), legacy |-> FALSE] : p \in {q \in parsed : OwnTip(q, tip(q))}}
=============================================================================
