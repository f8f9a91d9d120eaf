------------------------------- MODULE Ledger -------------------------------
(***************************************************************************)
(* What the block chain of a node promises its readers: a chain of blocks  *)
(* from genesis that only ever grows by blocks that extend it and spend    *)
(* what it holds, or loses its last block.  There is no crash, no lock and *)
(* no index here.                                                          *)
(***************************************************************************)
EXTENDS Integers, Sequences

CONSTANTS Blocks, Genesis, Parent, TxsOf, Spends

VARIABLE chain      \* the blocks from genesis to the tip

Linked(c) == \A i \in 2 .. Len(c) : Parent[c[i]] = c[i - 1]

\* The outputs block b spends, and those the first n blocks of c create.
Spent(b) == UNION {Spends[t] : t \in TxsOf[b]}
Created(c, n) == UNION {TxsOf[c[i]] : i \in 1 .. n}

\* Every output is spent at most once, and not before it is created.
Sound(c) == \A i \in 1 .. Len(c) :
                /\ Spent(c[i]) \subseteq Created(c, i)
                /\ \A j \in 1 .. i - 1 : Spent(c[i]) \cap Spent(c[j]) = {}

Init == chain = <<Genesis>>

\* One or more blocks are appended in one step.
Connect ==
    /\ Len(chain') > Len(chain)
    /\ SubSeq(chain', 1, Len(chain)) = chain
    /\ Linked(chain') /\ Sound(chain')

\* The last block is taken back.
Disconnect ==
    /\ Len(chain) > 1
    /\ chain' = SubSeq(chain, 1, Len(chain) - 1)

Next == Connect \/ Disconnect

Spec == Init /\ [][Next]_chain
=============================================================================
