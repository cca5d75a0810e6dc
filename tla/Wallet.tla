------------------------------- MODULE Wallet -------------------------------
(***************************************************************************)
(* sidestr-wallet: from the coins of a script to a signed transaction.     *)
(* Coin selection, the layout of outputs, fee and change, sends, burns,    *)
(* EVM deposits, asset issues and transfers, and signing here or elsewhere.*)
(*                                                                         *)
(* A script is <<kind, what>>: "tr" and "pkh" pay a key, "raw" is the 32   *)
(* bytes that 64 hex characters make, "byte" is a single byte, "return" is *)
(* an OP_RETURN with a payload.  A transaction is [ins, outs, wit], wit    *)
(* being the key that signed it or "none"; its id is what it spends and    *)
(* pays.  A coin is [op, script, value, height, coinbase, carry], carry    *)
(* being the <<asset, units>> on it.  An optional value is a set of at     *)
(* most one element, and the result of what may fail is the set of its     *)
(* outcomes.  Sizes and thresholds are constants in units of their own.    *)
(***************************************************************************)
EXTENDS Integers, Sequences, FiniteSets, SequencesExt, FiniteSetsExt

CONSTANTS
    MinFeeRate,     \* the chain's minimum fee per unit of size
    FeeBoundSize,   \* the size whose fee is set aside before the size is known
    BaseSize, InSize, OutSize,  \* what a transaction, an input and an output take
    Dust, DustPkh,  \* the least worth paying to a taproot script and to any other
    Carrier,        \* the value of an output that carries an asset
    Maturity,       \* blocks before a coinbase may be spent
    PegoutMin,      \* the least a burn may be
    Rules,          \* the rules the chain's document names
    Reserve         \* the EVM reserve's script

ASSUME WalletAssumption ==
    /\ {MinFeeRate, FeeBoundSize, BaseSize, InSize, OutSize, Maturity, PegoutMin} \subseteq Nat
    /\ Dust \in Nat \ {0} /\ DustPkh >= Dust /\ Carrier >= Dust

Txid(tx) == <<tx.ins, tx.outs>>
Output(script, value) == [script |-> script, value |-> value]
IsReturn(script) == script[1] = "return"
ScriptFor(key) == <<"tr", key>>

(***************************************************************************)
(* Coins.                                                                  *)
(***************************************************************************)
FromState(coins, script) == {c \in coins : c.script = script}
IsMature(c, tip) == ~c.coinbase \/ tip + 1 - c.height >= Maturity
Mature(coins, tip) == {c \in coins : IsMature(c, tip)}
Balance(coins) == MapThenSumSet(LAMBDA c : c.value, coins)
Ops(coins) == {c.op : c \in coins}

\* What outputs pay.
Total(outs) == FoldSeq(LAMBDA o, n : n + o.value, 0, outs)

\* The coins that carry the asset and nothing else, those that carry nothing, the rest.
SortCoins(coins, asset) ==
    LET plain == {c \in coins : c.carry = {}}
        of == {c \in coins : /\ Cardinality(c.carry) = 1
                             /\ \A x \in c.carry : x[1] \in asset}
    IN  [plain |-> plain, carriers |-> of, other |-> coins \ (plain \cup of)]

PlainCoins(coins) == SortCoins(coins, {}).plain

UnitsOn(c, asset) == MapThenSumSet(LAMBDA x : IF x[1] = asset THEN x[2] ELSE 0, c.carry)
BalanceOf(coins, asset) == MapThenSumSet(LAMBDA c : UnitsOn(c, asset), coins)

(***************************************************************************)
(* Selection: the largest coins until they make amount and bound.          *)
(***************************************************************************)
FeeBound == MinFeeRate * FeeBoundSize

Worth(coins, worth) == MapThenSumSet(LAMBDA c : worth[c], coins)

\* The largest of the coins, and no more of them than make the need.  Which of two coins of
\* one worth is taken is left open, as select.rs does.
Reaches(picked, coins, worth, need) ==
    /\ Worth(picked, worth) >= need
    /\ \A c \in picked :
          /\ \A d \in coins \ picked : worth[c] >= worth[d]
          /\ (\A d \in picked : worth[c] <= worth[d]) => Worth(picked \ {c}, worth) < need
Enough(coins, worth, need) == {picked \in SUBSET coins : Reaches(picked, coins, worth, need)}

\* At least one coin is always taken.
Select(coins, amount, bound) ==
    Enough(coins, [c \in coins |-> c.value], Max({1, amount + bound}))

(***************************************************************************)
(* Fee, change and layout.                                                 *)
(***************************************************************************)
DustThreshold(script) ==
    CASE IsReturn(script) -> 0 [] script[1] = "tr" -> Dust [] OTHER -> DustPkh

Vsize(inputs, outs) == BaseSize + InSize * inputs + OutSize * Len(outs)
MinFee(inputs, outs) == MinFeeRate * Vsize(inputs, outs)

\* Change too small to be an output goes to the fee.
Layout(sum, paid, fee, named, me) ==
    IF sum - paid < fee THEN {}
    ELSE LET change == sum - paid - fee IN
         IF change > 0 /\ change >= DustThreshold(me)
         THEN {[outs |-> Append(named, Output(me, change)), fee |-> fee]}
         ELSE {[outs |-> named, fee |-> fee + change]}

The(set) == CHOOSE x \in set : TRUE
Or(option, default) == IF option = {} THEN default ELSE The(option)

\* Permissive: the agent's policy permits every intent.
Permit(kind, script, amount, fee) == TRUE

\* A signer is [key, elsewhere].
SignInputs(ins, outs, signer) ==
    [ins |-> ins, outs |-> outs, wit |-> IF signer.elsewhere THEN "none" ELSE signer.key]

\* The fee is what the first layout is worth, or the one given if that is enough.
Laid(picked, amount, fee, named, me) ==
    UNION {UNION {IF \E f \in fee : f < min THEN {}
                  ELSE Layout(Balance(picked), amount, Or(fee, min), named, me) :
                     min \in {MinFee(Cardinality(picked), drawn.outs)}} :
              drawn \in Layout(Balance(picked), amount, Or(fee, 0), named, me)}

\* assemble: one output, a marker beside it if there is one, and change.
Assemble(coins, tip, amount, fee, signer, kind, out, intent, marker) ==
    LET named == <<Output(out, amount)>> \o SetToSeq({Output(m, 0) : m \in marker})
        laid(picked) == {l \in Laid(picked, amount, fee, named, ScriptFor(signer.key)) :
                            Permit(kind, intent, amount, l.fee)}
    IN  IF amount = 0 \/ amount < DustThreshold(out) THEN {}
        ELSE UNION {{SignInputs(Ops(p), l.outs, signer) : l \in laid(p)} :
                       p \in Select(Mature(coins, tip), amount, Or(fee, FeeBound))}

(***************************************************************************)
(* build_outputs: several outputs and records, some coins required, and    *)
(* coins added until the fee is met; the bound is raised up to four times. *)
(***************************************************************************)
Attempt(free, required, paid, named, fee, bound, me) ==
    LET have == Balance(required)
        extra == IF have >= paid + bound THEN {{}} ELSE Select(free, Max({0, paid - have}), bound)
        try(spent, min) ==
            [spent |-> spent, min |-> min,
             laid |-> IF \E f \in fee : f < min THEN {}
                      ELSE Layout(Balance(spent), paid, Or(fee, min), named, me)]
    IN  {try(required \cup e, MinFee(Cardinality(required \cup e), Append(named, Output(me, Dust)))) :
            e \in extra}

\* An attempt stands once it was laid out, or when the fee was given.
Again(a, free, required, paid, named, fee, me) ==
    IF a.laid # {} \/ fee # {} THEN {a}
    ELSE Attempt(free, required, paid, named, fee, a.min + FeeBound, me)

BuildOutputs(coins, required, tip, outputs, records, fee, signer) ==
    LET me == ScriptFor(signer.key)
        paid == Total(outputs)
        named == outputs \o [i \in DOMAIN records |-> Output(<<"return", records[i]>>, 0)]
        free == {c \in Mature(coins, tip) : c.op \notin Ops(required)}
        again(tries) == UNION {Again(a, free, required, paid, named, fee, me) : a \in tries}
        first == Attempt(free, required, paid, named, fee, Or(fee, FeeBound), me)
    IN  IF \/ named = <<>>
           \/ \E i \in DOMAIN outputs : outputs[i].value < Max({1, DustThreshold(outputs[i].script)})
           \/ \E c \in required : ~IsMature(c, tip)
        THEN {}
        ELSE UNION {{SignInputs(Ops(a.spent), l.outs, signer) :
                        l \in {x \in a.laid : Permit("Spend", Head(named).script, paid, x.fee)}} :
                       a \in again(again(again(again(first))))}

(***************************************************************************)
(* The assets rule on one transaction, as AssetView reads it.              *)
(***************************************************************************)
Payloads(tx, tag) ==
    {tx.outs[i].script[2] : i \in {j \in DOMAIN tx.outs :
        IsReturn(tx.outs[j].script) /\ tx.outs[j].script[2][1] = tag}}
Self == <<"self">>      \* how a record names the asset its own transaction issues
AssetOf(tally, tx) == IF tally[2] = Self THEN Txid(tx) ELSE tally[2]
Assigned(tally) == MapThenSumSet(LAMBDA x : x[2], tally[3])
CarriedIn(spent, asset) == BalanceOf(spent, asset)

\* spent: the coins of its inputs.
CheckAssets(spent, tx) ==
    /\ Cardinality(Payloads(tx, "issue")) <= 1
    /\ \A t \in Payloads(tx, "tally") :
          /\ t[2] = Self => Payloads(tx, "issue") # {}
          /\ \A u \in Payloads(tx, "tally") : AssetOf(u, tx) = AssetOf(t, tx) => u = t
          /\ \A x \in t[3] : /\ x[1] \in DOMAIN tx.outs
                             /\ ~IsReturn(tx.outs[x[1]].script) /\ tx.outs[x[1]].value >= 1
          /\ t[2] # Self => Assigned(t) <= CarriedIn(spent, t[2])

CarriedOut(spent, tx, vout) ==
    IF ~CheckAssets(spent, tx) THEN {}
    ELSE UNION {{<<AssetOf(t, tx), x[2]>> : x \in {y \in t[3] : y[1] = vout}} :
                   t \in Payloads(tx, "tally")}

\* What the transaction spends, among the coins of a view.
Spent(coins, tx) == {c \in coins : c.op \in tx.ins}

\* verify: it reads back as built, and no other asset is spent.
ReadsBack(coins, tx, asset, assigns) ==
    /\ CheckAssets(Spent(coins, tx), tx)
    /\ \A c \in Spent(coins, tx) : \A x \in c.carry : x[1] = asset
    /\ \A a \in assigns : <<asset, a[2]>> \in CarriedOut(Spent(coins, tx), tx, a[1])

(***************************************************************************)
(* The wallet's transactions.  coins: all the coins of the signer's script *)
(* (of an agent, for sends, burns and deposits, the plain ones).           *)
(***************************************************************************)
BuildSpend(coins, tip, to, amount, fee, signer) ==
    Assemble(coins, tip, amount, fee, signer, "Spend", to, to, {})

\* The parent script a burn names is any of two to forty bytes.
BuildBurn(coins, tip, to, amount, fee, signer) ==
    IF amount < PegoutMin \/ to[1] = "byte" THEN {}
    ELSE Assemble(coins, tip, amount, fee, signer, "Burn", <<"return", <<"pegout", to>>>>, to, {})

BuildEvmDeposit(coins, tip, address, amount, fee, signer) ==
    IF "evm" \notin Rules THEN {}
    ELSE Assemble(coins, tip, amount, fee, signer, "Spend", Reserve, Reserve,
                  {<<"return", <<"evmin", address>>>>})

CheckMemos(memos) == \A i \in DOMAIN memos : memos[i][1] \notin {"issue", "tally", "pool"}

\* The least run of the largest carriers that holds the units.
PickCarriers(carriers, asset, units) == Enough(carriers, [c \in carriers |-> UnitsOn(c, asset)], units)

MutAssigns(units, have) == {<<1, units>>}       \* Mutated: the rest is not assigned back.
Assigns(units, have) == {<<1, units>>} \cup (IF have > units THEN {<<2, have - units>>} ELSE {})

\* From these carriers.
TransferFrom(picked, have, coins, tip, asset, to, units, memos, fee, signer) ==
    LET outputs == <<Output(to, Max({Carrier, DustThreshold(to)}))>>
                       \o (IF have > units THEN <<Output(ScriptFor(signer.key), Carrier)>> ELSE <<>>)
    IN  {tx \in BuildOutputs(PlainCoins(coins), picked, tip, outputs,
                             <<<<"tally", asset, Assigns(units, have)>>>> \o memos, fee, signer) :
            ReadsBack(coins, tx, asset, Assigns(units, have))}

BuildTransfer(coins, tip, asset, to, units, memos, fee, signer) ==
    IF units = 0 \/ ~CheckMemos(memos) THEN {}
    ELSE UNION {TransferFrom(p, BalanceOf(p, asset), coins, tip, asset, to, units, memos, fee, signer) :
                   p \in PickCarriers(Mature(SortCoins(coins, {asset}).carriers, tip), asset, units)}

BuildIssue(coins, tip, ticker, supply, to, fee, signer) ==
    {tx \in BuildOutputs(PlainCoins(Mature(coins, tip)), {}, tip, <<Output(to, Carrier)>>,
                         <<<<"issue", ticker>>, <<"tally", Self, {<<1, supply>>}>>>>, fee, signer) :
        /\ CheckAssets(Spent(coins, tx), tx)
        /\ <<Txid(tx), supply>> \in CarriedOut(Spent(coins, tx), tx, 1)}

(***************************************************************************)
(* Signing elsewhere: what comes back must be what was asked for, signed.  *)
(***************************************************************************)
UnsignedHex(tx) == [tx EXCEPT !.wit = "none"]

Verifies(spent, tx) == \A c \in spent : c.script = ScriptFor(tx.wit)

AcceptSigned(built, returned, spent) ==
    IF /\ Txid(returned) = Txid(built)
       /\ Cardinality(spent) = Cardinality(returned.ins)
       /\ Verifies(spent, returned)
    THEN {returned} ELSE {}
=============================================================================
