------------------------------ MODULE PegTweak ------------------------------
(***************************************************************************)
(* The peg-in tweak form (sidestr-core/src/pegtweak.rs): one taproot       *)
(* output whose tree holds the depositor's refund and a commitment to the  *)
(* chain and the sidechain script, with no marker beside it.  Whoever is   *)
(* given the reveal rebuilds the output; the holder of the internal key    *)
(* spends it.  A hash is the value hashed.                                 *)
(***************************************************************************)
EXTENDS Keys, Sequences, FiniteSets, SequencesExt

Leaf(script) == <<"leaf", script>>
Branch(a, b) == <<"branch", {a, b}>>

RefundLeaf(key, blocks) == <<"refund", key, blocks>>
PegCommitment(chain, script) == <<"peg-in", chain, script>>
CommitLeaf(chain, script) == <<"commit", PegCommitment(chain, script)>>

(***************************************************************************)
(* tap_tree: neighbours are paired level by level, one left over goes up   *)
(* as it is.  Each leaf collects the hashes beside its way to the root.    *)
(***************************************************************************)
LeafLevel(leaves) ==
    [nodes |-> [i \in DOMAIN leaves |-> [hash |-> Leaf(leaves[i]), leaves |-> {i}]],
     paths |-> [i \in DOMAIN leaves |-> <<>>]]

\* The node beside the one that holds leaf i, if there is one.
Sibling(nodes, i) ==
    LET at == CHOOSE k \in DOMAIN nodes : i \in nodes[k].leaves
        beside == IF at % 2 = 1 THEN at + 1 ELSE at - 1
    IN  IF beside \in DOMAIN nodes THEN <<nodes[beside].hash>> ELSE <<>>

NextLevel(level) ==
    LET n == Len(level.nodes)
        pair(k) == [hash |-> Branch(level.nodes[2 * k - 1].hash, level.nodes[2 * k].hash),
                    leaves |-> level.nodes[2 * k - 1].leaves \cup level.nodes[2 * k].leaves]
    IN  [nodes |-> [k \in 1 .. (n + 1) \div 2 |-> IF 2 * k > n THEN level.nodes[n] ELSE pair(k)],
         paths |-> [i \in DOMAIN level.paths |-> level.paths[i] \o Sibling(level.nodes, i)]]

TapTree(leaves) ==
    LET level[k \in 0 .. Len(leaves)] ==
            IF k = 0 THEN LeafLevel(leaves)
            ELSE IF Len(level[k - 1].nodes) = 1 THEN level[k - 1] ELSE NextLevel(level[k - 1])
        top == level[Len(leaves)]
    IN  [root |-> top.nodes[1].hash, paths |-> top.paths]

\* What a spender by leaf shows: the leaf's script and the way to the root.
Proves(script, path, root) == FoldLeft(Branch, Leaf(script), path) = root

(***************************************************************************)
(* The output.  reveal is [internal, refundKey, refundBlocks, chainHash,   *)
(* script, extra].                                                         *)
(***************************************************************************)
LeafScripts(reveal) ==
    <<RefundLeaf(reveal.refundKey, reveal.refundBlocks), CommitLeaf(reveal.chainHash, reveal.script)>>
        \o reveal.extra

PegOutput(reveal) ==
    LET tree == TapTree(LeafScripts(reveal))
    IN  [script |-> <<"tr", <<"tweaked", reveal.internal, tree.root>>>>, root |-> tree.root,
         paths |-> tree.paths]

PegMatches(reveal, script) == PegOutput(reveal).script = script

\* The output's key for the tweak t of its root, and the secret that spends it.
OutputKey(internal, t) == XOnly(TweakedPoint(internal, t))
PegSpendSecret(secret, t) == TweakedSecret(Normalized(secret), t)
=============================================================================
