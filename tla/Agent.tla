-------------------------------- MODULE Agent --------------------------------
(***************************************************************************)
(* sidestr-agent: keys and destinations as people write them, the payments *)
(* a command prepares from a view of the chain, and plans for a peg-in.    *)
(*                                                                         *)
(* A text is <<form, what>>.  Forms: "nsec" and "hex64" (64 hex            *)
(* characters: a secret or a public key), "npub", "did", "script" (a       *)
(* script's hex), "address" (an address, whose prefix may be any chain's), *)
(* "other".  A view is [tip, coins], coins being all the chain's.          *)
(***************************************************************************)
EXTENDS Wallet, PegTweak

CONSTANTS
    Doc             \* the chain: [id, hash, federation, signer, challenge, refundBlocks]

ASSUME AgentAssumption == Doc.challenge[1] = "tr" /\ Doc.federation \in BOOLEAN

(***************************************************************************)
(* Keys and destinations.                                                  *)
(***************************************************************************)
LooksSecret(text) == text[1] \in {"nsec", "hex64"}

RefuseSecret(text) == IF LooksSecret(text) THEN {} ELSE {text}

ParsePubkey(text) == IF text[1] \in {"npub", "did", "hex64"} THEN {text[2]} ELSE {}
Npub(key) == <<"npub", key>>

\* A public key stands for its script; everything else is left to the wallet.
Destination(text) ==
    UNION {IF t[1] \in {"npub", "did"} THEN {<<"script", ScriptFor(k)>> : k \in ParsePubkey(t)} ELSE {t} :
              t \in RefuseSecret(text)}

\* resolve_to: hex of any even length is a script, and so would a key be.
ResolveTo(text) ==
    CASE text[1] \in {"script", "address"} -> {text[2]}
      [] text[1] = "hex64" -> {<<"raw", text[2]>>}
      [] OTHER -> {}

(***************************************************************************)
(* Commands.  A signer is the agent's own key.                             *)
(***************************************************************************)
ViewCoins(view, key) == FromState(view.coins, ScriptFor(key))
ViewPlainCoins(view, key) == PlainCoins(ViewCoins(view, key))

Prepare(signer, view, what, to, amount, fee) ==
    LET coins == ViewPlainCoins(view, signer.key) IN
    CASE what = "send" -> UNION {BuildSpend(coins, view.tip, s, amount, fee, signer) :
                                    s \in UNION {ResolveTo(d) : d \in Destination(to)}}
      [] what = "burn" -> UNION {BuildBurn(coins, view.tip, s, amount, fee, signer) :
                                    s \in UNION {ResolveTo(d) : d \in RefuseSecret(to)}}

PrepareEvmDeposit(signer, view, address, amount, fee) ==
    BuildEvmDeposit(ViewPlainCoins(view, signer.key), view.tip, address, amount, fee, signer)

\* The first issue of a ticker, when an asset is not named by its id.
PrepareTransfer(signer, view, asset, to, units, memos, fee) ==
    UNION {BuildTransfer(ViewCoins(view, signer.key), view.tip, asset, s, units, memos, fee, signer) :
              s \in UNION {ResolveTo(d) : d \in Destination(to)}}

PrepareIssue(signer, view, ticker, supply, fee) ==
    BuildIssue(ViewCoins(view, signer.key), view.tip, ticker, supply, ScriptFor(signer.key), fee, signer)

(***************************************************************************)
(* Peg-ins: the outputs of a parent transaction.                           *)
(***************************************************************************)
PegMarker(script) == <<"return", <<"peg", Doc.id, script>>>>

BuildPegin(peg, amount, side) ==
    IF peg[1] # "tr" \/ amount = 0 \/ amount < DustThreshold(peg) THEN {}
    ELSE {<<Output(peg, amount), Output(PegMarker(s), 0)>> : s \in ResolveTo(side)}

\* The key the peg is spent by when the chain has no federation.
Level1PegKey ==
    IF Doc.federation THEN {}
    ELSE IF Doc.signer # {} THEN Doc.signer ELSE {Doc.challenge[2]}

\* A key makes a descriptor with the refund in it; without one the challenge is paid, and
\* a chain without a federation must say where.
PegScript(refund, target) ==
    CASE target = <<>> -> IF Doc.federation THEN {Doc.challenge} ELSE {}
      [] target # <<>> /\ target[1] = "key" ->
             {<<"tr", <<"tweaked", target[2], Leaf(RefundLeaf(refund, Doc.refundBlocks))>>>>}
      [] OTHER -> UNION {ResolveTo(t) : t \in RefuseSecret(target[2])}

PeginPlan(amount, refund, side, target) ==
    UNION {UNION {BuildPegin(p, amount, d) : d \in Destination(side)} : p \in PegScript(refund, target)}

\* The tweak form: one output, and the reveal to give to the peg's holders.
PeginTweakPlan(amount, refund, side, pegKey) ==
    LET reveal(k, s) == [internal |-> k, refundKey |-> refund, refundBlocks |-> Doc.refundBlocks,
                         chainHash |-> Doc.hash, script |-> s, extra |-> <<>>]
        keys == IF pegKey # {} THEN pegKey ELSE Level1PegKey
        sides == UNION {ResolveTo(d) : d \in Destination(side)}
    IN  {[out |-> Output(PegOutput(reveal(k, s)).script, amount), reveal |-> reveal(k, s)] :
            k \in keys, s \in {x \in sides : amount >= Dust}}
=============================================================================
