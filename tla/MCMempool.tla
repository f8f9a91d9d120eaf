----------------------------- MODULE MCMempool -----------------------------
(* Instance of Mempool for TLC.  o1 and o2 are confirmed; a and b spend o1, *)
(* c and e spend a's output, d spends o2, and so does the coinstake s.      *)
EXTENDS Mempool

CONSTANTS o1, o2, a, b, c, d, e, s, w1, w2

AllTxs == {o1, o2, a, b, c, d, e, s}
InputsDef ==
    [t \in AllTxs |-> CASE t \in {a, b} -> {o1} [] t \in {c, e} -> {a} [] t \in {d, s} -> {o2}
                        [] OTHER -> {}]

\* Blocks of the pool's transactions, and one that conflicts with two of them.
PoolBlocks == {{a, d}, {s, b}}

\* The workers, and the two children of a, are interchangeable.
Symmetry ==
    {p @@ q : p \in Permutations({w1, w2}), q \in Permutations({c, e})}
=============================================================================
