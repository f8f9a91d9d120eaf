------------------------------ MODULE MCWallet ------------------------------
(* Instance of Wallet for TLC.  o1 and o2 are the wallet's.  a and b spend  *)
(* o1, a's output returns to the wallet and c spends it; d spends o2, and   *)
(* so does the wallet's coinstake s, whose block takes the pool along.      *)
EXTENDS Wallet

CONSTANTS o1, o2, a, b, c, d, s, p1, p2

AllTxs == {o1, o2, a, b, c, d, s}
InputsDef ==
    [t \in AllTxs |-> CASE t \in {a, b} -> {o1} [] t = c -> {a} [] t \in {d, s} -> {o2}
                        [] OTHER -> {}]

Symmetry == Permutations(Peers)
=============================================================================
