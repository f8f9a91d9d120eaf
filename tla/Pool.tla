-------------------------------- MODULE Pool --------------------------------
(* What a transaction pool promises to those that use it: transactions      *)
(* enter one at a time, none that spends an output which a pooled one       *)
(* spends, and leave in any number.  Mempool implements it; Wallet is built *)
(* on it.                                                                   *)
CONSTANTS
    PoolTxs,  \* transactions that may be pooled
    Inputs    \* Inputs[t]: the outputs t spends

VARIABLE pool

Free(t) == \A u \in pool : Inputs[t] \cap Inputs[u] = {}

Accept(t) ==
    /\ t \notin pool /\ Free(t)
    /\ pool' = pool \cup {t}

Remove(S) ==
    /\ S \subseteq pool
    /\ pool' = pool \ S

Init == pool = {}

Next == (\E t \in PoolTxs : Accept(t)) \/ \E S \in SUBSET PoolTxs : Remove(S)

Spec == Init /\ [][Next]_pool
=============================================================================
