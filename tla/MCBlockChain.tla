---------------------------- MODULE MCBlockChain ----------------------------
(* Instances of BlockChain for TLC.                                        *)
(*                                                                         *)
(*        a1 {ca1,p} -- a2 {ca2,q,r} -- a3 {ca3}                           *)
(*   g <                                                                   *)
(*        b1 {cb1} ---- b2 {cb2,p} ---- b3 {cb3,s}                         *)
(*                \---- c2 {cc2}                                           *)
(*                                                                         *)
(* p spends genesis' output tg; q spends p and r spends q inside one block;*)
(* s spends tg, as p does, so b3 must never follow b2.                     *)
EXTENDS BlockChain

CONSTANTS g, a1, a2, a3, b1, b2, b3, c2, w1, w2, w3,
          tg, ca1, ca2, ca3, cb1, cb2, cb3, cc2, p, q, r, s

AllBlocks == {g, a1, a2, a3, b1, b2, b3, c2}
AllTxs == {tg, ca1, ca2, ca3, cb1, cb2, cb3, cc2, p, q, r, s}

ParentDef ==
    [x \in AllBlocks |-> CASE x = g -> NoBlock [] x \in {a1, b1} -> g
                           [] x = a2 -> a1 [] x = a3 -> a2
                           [] x \in {b2, c2} -> b1 [] x = b3 -> b2]

TxsOfDef ==
    [x \in AllBlocks |->
        CASE x = g -> {tg} [] x = a1 -> {ca1, p} [] x = a2 -> {ca2, q, r} [] x = a3 -> {ca3}
          [] x = b1 -> {cb1} [] x = b2 -> {cb2, p} [] x = b3 -> {cb3, s}
          [] x = c2 -> {cc2}]

SpendsDef ==
    [t \in AllTxs |-> CASE t = p -> {tg} [] t = q -> {p} [] t = r -> {q, ca1}
                        [] t = s -> {tg} [] OTHER -> {}]

\* Blocks with a coinbase only, so that any branch can be connected again.
CoinbasesOnly == [t \in AllTxs |-> {}]

\* Distinct amounts, so that a supply computed along the wrong branch shows.
MintedDef ==
    [x \in AllBlocks |-> CASE x = g -> 1 [] x = a1 -> 2 [] x = a2 -> 4 [] x = a3 -> 8
                           [] x = b1 -> 16 [] x = b2 -> 32 [] x = b3 -> 64
                           [] x = c2 -> 128]

\* Single blocks, chains of two and three, some of which overlap what may
\* already be stored, and one that is not a chain.
HonestOffers == {<<x>> : x \in AllBlocks}
                \cup {<<a1, a2>>, <<a2, a3>>, <<a1, a2, a3>>, <<b1, b2>>, <<b1, c2>>, <<a1, b2>>}

\* A few offers, for the larger instances.
FewOffers == {<<a1>>, <<a1, a2>>, <<a3>>, <<b1>>, <<b1, b2>>}

\* Blocks for every height of two branches, alone and in batches.
RaceOffers == {<<a1>>, <<a2>>, <<a3>>, <<b1>>, <<c2>>, <<a1, a2>>, <<a2, a3>>, <<b1, b2>>}

TinyOffers == {<<a1, a2>>, <<b1>>}

\* A batch whose last block spends an output that the one before it spends.
DoubleSpendOffers == {<<b1>>, <<b2, b3>>}
=============================================================================
