------------------------------- MODULE Teller -------------------------------
(***************************************************************************)
(* A teller for Web Ledgers (webledgers-teller): one operator holds the    *)
(* deposits and writes the ledger, accounts sign requests.  The crate is   *)
(* pure; the program around it is taken from how lib.rs shows it used: it  *)
(* watches deposit addresses, credits what it sees, applies requests, pays *)
(* withdrawals and publishes the ledger, and when it starts again it reads *)
(* the ledger back from the relays, and every request and deposit again.   *)
(***************************************************************************)
EXTENDS Keys, Sequences, Functions, FiniteSets, FiniteSetsExt

CONSTANTS
    Accounts,       \* accounts, the operator's own among them
    Operator,
    Tweak,          \* [account -> scalar]: the tagged hash of ledger, account and nonce 0
    Ids,            \* request ids
    MinPay, Dust, MaxSats, Rate,
    Secrets,        \* bound: the secrets an operator may have
    Values,         \* bound: what a deposit holds
    Wanted,         \* bound: what a request asks for
    MaxDeposits, MaxRequests, MaxPublished

ASSUME TellerAssumption ==
    /\ Operator \in Accounts /\ Tweak \in [Accounts -> Scalars]
    /\ MinPay \in Nat /\ Dust \in Nat /\ MaxSats \in Nat /\ Rate \in 1 .. 1000
    /\ MaxDeposits \in Nat /\ MaxRequests \in Nat /\ MaxPublished \in Nat
    /\ Secrets \subseteq Scalars /\ Values \subseteq Nat /\ Wanted \subseteq Nat

VARIABLES
    secret,         \* the operator's secret
    given,          \* the form its depositors know the operator by
    ledger,         \* the document the operator works on
    chain,          \* coins: [op, account, value, script], unspent
    made,           \* how many coins were ever made
    requests,       \* what the relays hold of kind 3700
    published,      \* what the relays hold of kind 30333, in order of arrival
    now

tellerVars == <<secret, given, ledger, chain, made, requests, published, now>>

SumOf(S) == SumFunction([c \in S |-> c.value])

(***************************************************************************)
(* Amounts and the ledger document.                                        *)
(***************************************************************************)
CheckSats(n) == n \in 0 .. MaxSats

GenesisHash(genesis) == <<"hash", genesis>>

NewLedger(op, created) ==
    LET genesis == [operator |-> op, created |-> created]
    IN  [type |-> "WebLedger", hash |-> GenesisHash(genesis), genesis |-> genesis,
         updated |-> created, entries |-> {}, deposits |-> {}, applied |-> {}, payouts |-> {}]

CheckLedger(l) == l.type = "WebLedger" /\ l.hash = GenesisHash(l.genesis)

EntryIndex(l, a) == {e \in l.entries : e.url = a}
Balance(l, a) ==
    IF EntryIndex(l, a) = {} THEN 0 ELSE (CHOOSE e \in EntryIndex(l, a) : TRUE).amount
SetBalance(l, a, n) ==
    [l EXCEPT !.entries = (@ \ EntryIndex(l, a)) \cup {[url |-> a, amount |-> n]}]
Touch(l, t) == [l EXCEPT !.updated = IF t > @ THEN t ELSE @]

\* A deposit credits its account once; the outpoint is the receipt.
Credit(l, c, t) ==
    IF (\E d \in l.deposits : d.op = c.op) \/ ~CheckSats(c.value) THEN l
    ELSE Touch([SetBalance(l, c.account, Balance(l, c.account) + c.value) EXCEPT
                  !.deposits = @ \cup {[op |-> c.op, account |-> c.account, value |-> c.value]}], t)

\* Mutated: both balances are read before either is written.
MutTransfer(l, r, t) ==
    IF r.amount = 0 \/ r.id \in l.applied \/ Balance(l, r.account) < r.amount THEN l
    ELSE Touch([SetBalance(SetBalance(l, r.account, Balance(l, r.account) - r.amount),
                           r.to, Balance(l, r.to) + r.amount) EXCEPT
                  !.applied = @ \cup {r.id}], t)

\* Once by the request's id, never overdrawing; the payer is written before
\* the payee is read.
Transfer(l, r, t) ==
    IF r.amount = 0 \/ ~CheckSats(r.amount) \/ r.id \in l.applied
       \/ Balance(l, r.account) < r.amount THEN l
    ELSE LET paid == SetBalance(l, r.account, Balance(l, r.account) - r.amount)
         IN  Touch([SetBalance(paid, r.to, Balance(paid, r.to) + r.amount) EXCEPT
                      !.applied = @ \cup {r.id}], t)

MayDebit(l, r) ==
    /\ r.amount >= MinPay /\ CheckSats(r.amount)
    /\ r.id \notin l.applied /\ Balance(l, r.account) >= r.amount

Debit(l, r, txid, t) ==
    Touch([SetBalance(l, r.account, Balance(l, r.account) - r.amount) EXCEPT
             !.applied = @ \cup {r.id},
             !.payouts = @ \cup {[id |-> r.id, account |-> r.account, value |-> r.amount,
                                  txid |-> txid]}], t)

(***************************************************************************)
(* Deposit addresses: the operator's even point plus the account's tweak.  *)
(***************************************************************************)
\* Mutated: the point is taken with the parity it was given with.
MutDepositPoint(operator, a) == TweakedPoint(BasePoint(operator), Tweak[a])

DepositPoint(operator, a) == TweakedPoint(BasePoint(Did(BasePoint(operator))), Tweak[a])

DepositAddress(operator, a) ==
    LET q == DepositPoint(operator, a) IN [account |-> a, ok |-> ~Refused(q), x |-> XOnly(q)]

DepositSecret(d, tweak) == TweakedSecret(Normalized(d), tweak)

\* Whom the operator watches: the ledger's accounts and those who joined.
WatchList(l, reqs) ==
    {e.url : e \in l.entries} \cup {d.account : d \in l.deposits}
    \cup {r.account : r \in {q \in reqs : q.what = "join"}}

(***************************************************************************)
(* Payouts.                                                                *)
(***************************************************************************)
VsizeEstimate(in, out) == 11 + 58 * in + 43 * out

\* What a signed payout really weighs: 41 bytes and a witness of 67 an input,
\* 43 an output, 10 and the two bytes of the witness marker.
VsizeOf(in, out) == 10 + 41 * in + 43 * out + ((2 + 67 * in + 3) \div 4)

LargestFirst(c, d) == c.value > d.value \/ (c.value = d.value /\ c.op < d.op)

\* What picking the coins largest first has picked at some moment.
Picks(held) ==
    {picked \in SUBSET held \ {{}} : \A c \in picked, d \in held \ picked : LargestFirst(c, d)}

\* With change when it is worth an output.
PlanWith(picked, amount) ==
    LET n == Cardinality(picked)
        in == SumOf(picked)
        fee == Rate * VsizeEstimate(n, 2)
        change == in - amount - fee
    IN  IF change >= Dust
        THEN [ok |-> TRUE, picked |-> picked, outs |-> 2, fee |-> fee, change |-> change]
        ELSE [ok |-> change >= 0 /\ in >= amount + Rate * VsizeEstimate(n, 1),
              picked |-> picked, outs |-> 1, fee |-> in - amount, change |-> 0]

NoPlan == [ok |-> FALSE, picked |-> {}, outs |-> 0, fee |-> 0, change |-> 0]

\* The first that pays the amount and the fee.
PlanPayout(held, amount) ==
    LET plans == {picked \in Picks(held) : PlanWith(picked, amount).ok}
        first == {picked \in plans : \A other \in plans : picked \subseteq other}
    IN  IF amount < MinPay \/ ~CheckSats(amount) \/ first = {} THEN NoPlan
        ELSE PlanWith(CHOOSE picked \in first : TRUE, amount)

\* Every input signed with its deposit's own secret, then checked, and the
\* fee checked against the size the signed transaction has.
SignPayout(plan, d) ==
    /\ \A c \in plan.picked : SignsFor(DepositSecret(d, Tweak[c.account]), c.x)
    /\ plan.fee >= Rate * VsizeOf(Cardinality(plan.picked), plan.outs)

(***************************************************************************)
(* Requests, and the ledger on the relays.                                 *)
(***************************************************************************)
\* parse_request: for this ledger, verified, with what its op needs; the
\* account is its author.
ParseRequest(r, hash) ==
    /\ r.signed /\ r.ledger = hash
    /\ r.what # "join" => CheckSats(r.amount)
    /\ r.what = "transfer" => r.to \in Accounts

RequestEvent(a, what, id, amount, to, hash) ==
    [account |-> a, what |-> what, id |-> id, amount |-> amount, to |-> to, signed |-> TRUE,
     ledger |-> hash]

LedgerEvent(by, l, at) == [by |-> by, doc |-> l, at |-> at]

\* The operator's own word only.
ReadLedgerEvent(ev, hash) ==
    CheckLedger(ev.doc) /\ ev.doc.hash = hash /\ ev.doc.genesis.operator = ev.by

\* The newest the operator signed, the first seen on a tie.
LatestLedger(seen, hash) ==
    LET read == {i \in DOMAIN seen : ReadLedgerEvent(seen[i], hash)}
        newest == {i \in read : \A j \in read : seen[j].at <= seen[i].at}
    IN  IF newest = {} THEN LedgerEvent(Operator, NewLedger(Operator, 0), 0)
        ELSE seen[Min(newest)]

(***************************************************************************)
(* The operator's program and the world around it.                         *)
(***************************************************************************)
TellerInit ==
    /\ secret \in Secrets
    /\ given \in {Did(PointOf(secret)), Multikey(PointOf(secret)), Compressed(PointOf(secret))}
    /\ ledger = NewLedger(Operator, 0)
    /\ chain = {} /\ made = 0 /\ requests = {} /\ published = <<>> /\ now = 0

\* Somebody pays the deposit address of an account.
Pay(a, v) ==
    /\ made < MaxDeposits /\ DepositAddress(given, a).ok
    /\ chain' = chain \cup {[op |-> made + 1, account |-> a, value |-> v,
                             x |-> DepositAddress(given, a).x]}
    /\ made' = made + 1
    /\ UNCHANGED <<secret, given, ledger, requests, published, now>>

Ask(r) ==
    /\ Cardinality(requests) < MaxRequests /\ requests' = requests \cup {r}
    /\ UNCHANGED <<secret, given, ledger, chain, made, published, now>>

\* The operator sees a coin at an address it watches, again and again.
See(c) ==
    /\ c.account \in WatchList(ledger, requests)
    /\ DepositAddress(Did(PointOf(secret)), c.account).x = c.x
    /\ ledger' = Credit(ledger, c, now)
    /\ UNCHANGED <<secret, given, chain, made, requests, published, now>>

OnTransfer(r) ==
    /\ r.what = "transfer" /\ ParseRequest(r, ledger.hash)
    /\ ledger' = Transfer(ledger, r, now)
    /\ UNCHANGED <<secret, given, chain, made, requests, published, now>>

\* What the operator can spend: the coins the ledger has credited, and change.
Held == {c \in chain : c.account = Operator \/ \E d \in ledger.deposits : d.op = c.op}

OnWithdraw(r) ==
    LET plan == PlanPayout(Held, r.amount)
        left == chain \ plan.picked
        own == DepositAddress(Did(PointOf(secret)), Operator)
    IN  /\ r.what = "withdraw" /\ ParseRequest(r, ledger.hash)
        /\ plan.ok /\ own.ok /\ SignPayout(plan, secret) /\ MayDebit(ledger, r)
        /\ ledger' = Debit(ledger, r, made + 1, now)
        /\ made' = made + 1
        /\ chain' = IF plan.change = 0 THEN left
                    ELSE left \cup {[op |-> made + 1, account |-> Operator,
                                     value |-> plan.change, x |-> own.x]}
        /\ UNCHANGED <<secret, given, requests, published, now>>

Publish ==
    /\ Len(published) < MaxPublished
    /\ published' = Append(published, LedgerEvent(Operator, ledger, now))
    /\ now' \in {now, now + 1}
    /\ UNCHANGED <<secret, given, ledger, chain, made, requests>>

\* Somebody else publishes the ledger under its hash, later than anyone.
Repeat ==
    /\ published # <<>> /\ Len(published) < MaxPublished
    /\ published' = Append(published, LedgerEvent("else", NewLedger(Operator, 0), now + 1))
    /\ UNCHANGED <<secret, given, ledger, chain, made, requests, now>>

\* The operator starts again from what the relays hold.
StartAgain ==
    /\ ledger' = LatestLedger(published, ledger.hash).doc
    /\ UNCHANGED <<secret, given, chain, made, requests, published, now>>

Asked ==
    {RequestEvent(a, "join", id, 0, a, ledger.hash) : a \in Accounts, id \in Ids}
    \cup {RequestEvent(a, "transfer", id, n, to, ledger.hash) :
             a \in Accounts, id \in Ids, n \in Wanted, to \in Accounts}
    \cup {RequestEvent(a, "withdraw", id, n, a, ledger.hash) :
             a \in Accounts, id \in Ids, n \in Wanted}

TellerNext ==
    \/ \E a \in Accounts, v \in Values : Pay(a, v)
    \/ \E r \in Asked : Ask(r)
    \/ \E c \in chain : See(c)
    \/ \E r \in requests : OnTransfer(r) \/ OnWithdraw(r)
    \/ Publish \/ Repeat \/ StartAgain

TellerSpec == TellerInit /\ [][TellerNext]_tellerVars

(***************************************************************************)
(* Properties.                                                             *)
(***************************************************************************)
Moved(asked, S) == SumFunction([id \in S |-> asked[id].amount])

\* One request for every applied id: the transfers to an account and from it, and
\* the withdrawals the payouts answer.
To(l, asked, a) == {id \in l.applied : asked[id].what = "transfer" /\ asked[id].to = a}
By(l, asked, a) == {id \in l.applied : asked[id].what = "transfer" /\ asked[id].account = a}
Signed(l, asked) ==
    /\ \A id \in l.applied : asked[id].id = id
    /\ \A p \in l.payouts : asked[p.id].what = "withdraw" /\ asked[p.id].account = p.account
                            /\ asked[p.id].amount = p.value
AddsUp(l, asked, a) ==
    Balance(l, a) = SumOf({d \in l.deposits : d.account = a}) - SumOf({p \in l.payouts : p.account = a})
                    + Moved(asked, To(l, asked, a)) - Moved(asked, By(l, asked, a))

\* "Every change is a signed request or a deposit seen on-chain" (lib.rs):
\* at any time, restarts and repeated deliveries included, each balance is
\* what was deposited for the account, less what was paid out for it, and
\* one request per applied id accounts for the rest.  It is about the ledger
\* in memory: after a start from an older file the payouts made since are not
\* in it, and are not missed here.
EveryChangeIsSigned ==
    \E asked \in [ledger.applied -> requests] :
        Signed(ledger, asked) /\ \A a \in Accounts : AddsUp(ledger, asked, a)

\* Whatever form the depositors know the operator by, and whatever the parity
\* of its key: what the operator holds it sees and can spend, and a plan is
\* never refused when it is signed (deposit.rs, payout.rs).
DepositsCanBeSpent ==
    /\ \A c \in chain : DepositAddress(Did(PointOf(secret)), c.account).x = c.x
    /\ \A n \in Wanted : LET plan == PlanPayout(chain, n)
                         IN  plan.ok => SignPayout(plan, secret)
                                /\ SumOf(plan.picked) = n + plan.fee + plan.change
=============================================================================
