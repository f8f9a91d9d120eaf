---------------------------- MODULE MCUtxoCache ----------------------------
(* Instances of UtxoCache for TLC: outputs x, y, z; block a creates x and  *)
(* y, b and c both spend x and create z, d spends y and what it creates    *)
(* itself.                                                                 *)
EXTENDS UtxoCache

CONSTANTS x, y, z, t, a, b, c, d

AllOuts == {x, y, z, t}
AllBlocks == {a, b, c, d}
CreatesDef == [k \in AllBlocks |-> CASE k = a -> {x, y} [] k \in {b, c} -> {z} [] k = d -> {t}]
SpendsDef  == [k \in AllBlocks |-> CASE k = a -> {} [] k \in {b, c} -> {x} [] k = d -> {y, t}]

\* Single blocks, and batches in which outputs are created and spent at once.
Batches == {<<k>> : k \in AllBlocks} \cup {<<a, b>>, <<d, c>>, <<a, d, b>>}
=============================================================================
