--------------------------- MODULE MCChainProvider ---------------------------
(***************************************************************************)
(* Block trees, uncles, proposals and transactions for checking           *)
(* ChainProvider.                                                          *)
(***************************************************************************)
EXTENDS ChainProvider

CONSTANTS P1, P2, P3

(***************************************************************************)
(* G <- A1 <- A2 <- A3 and a side branch A1 <- S2 <- S3 of the same      *)
(* difficulty: S2 is the tip when it arrives before A2, S3 when it arrives *)
(* before A3.  Every fork branches at A1, at or above the start of any     *)
(* retarget window (interval 2: windows G..A1, A1..A3 and A1..S3).  The    *)
(* uncle counts make the three windows end in the minimum clamp (G..A1,   *)
(* no uncles), the maximum clamp (A1..A3, two) and no clamp (A1..S3, one). *)
(***************************************************************************)
SideBlocks == {"G", "A1", "A2", "A3", "S2", "S3"}
SideParent == [b \in SideBlocks \ {"G"} |->
                 CASE b = "A1" -> "G" [] b = "A2" -> "A1"
                   [] b = "A3" -> "A2" [] b = "S2" -> "A1" [] b = "S3" -> "S2"]
SideDifficulty == [b \in SideBlocks |-> 1]
SideUncles == [b \in SideBlocks |->
                 CASE b = "A2" -> 2 [] b = "S2" -> 1 [] OTHER -> 0]
SideProposals == [b \in SideBlocks |->
                    CASE b = "A1" -> {P1} [] b = "A2" -> {P2} [] b = "A3" -> {P1, P3}
                      [] OTHER -> {}]
SideUncleProposals == [b \in SideBlocks |->
                         CASE b = "A2" -> {{P3}, {P1, P2}} [] b = "S2" -> {{P3}}
                           [] OTHER -> {}]

(***************************************************************************)
(* Cells on the side tree: A1 creates t1 (one output); A2's t2 spends it   *)
(* and creates two; S2's s2 spends it too, on the other branch; A3's t3   *)
(* spends t2's second output.  The out points asked for include an index  *)
(* equal to the output count and a transaction never stored.              *)
(***************************************************************************)
CellTx(h, ins, n) == [hash |-> h, inputs |-> ins, outputs |-> n]
SideCells == [b \in SideBlocks |->
                CASE b = "A1" -> <<CellTx("t1", <<>>, 1)>>
                  [] b = "A2" -> <<CellTx("t2", <<<<"t1", 0>>>>, 2)>>
                  [] b = "S2" -> <<CellTx("s2", <<<<"t1", 0>>>>, 1)>>
                  [] b = "A3" -> <<CellTx("t3", <<<<"t2", 1>>>>, 1)>>
                  [] OTHER    -> <<>>]
SideCellPoints == {<<"t1", 0>>, <<"t1", 1>>, <<"t2", 1>>, <<"s2", 0>>, <<"zz", 0>>}

\* Trees without cells.
NoCells == [b \in SideBlocks \cup {"C1"} |-> <<>>]

(***************************************************************************)
(* G <- A1 <- A2 <- A3 and a heavier G <- C1 with two uncles: C1 takes    *)
(* over the index below the window start of A3.                            *)
(***************************************************************************)
ReorgBlocks == {"G", "A1", "A2", "A3", "C1"}
ReorgParent == [b \in ReorgBlocks \ {"G"} |->
                  CASE b = "A1" -> "G" [] b = "A2" -> "A1"
                    [] b = "A3" -> "A2" [] b = "C1" -> "G"]
ReorgDifficulty == [b \in ReorgBlocks |-> IF b = "C1" THEN 10 ELSE 1]
ReorgUncles == [b \in ReorgBlocks |-> IF b = "C1" THEN 2 ELSE 0]
ReorgProposals == [b \in ReorgBlocks |-> {}]
ReorgUncleProposals == [b \in ReorgBlocks |-> {}]

Windows4 == {<<bn, n>> : bn \in 0..4, n \in {0, 1, 2, 4}}

(***************************************************************************)
(* Stored transactions and the transactions whose fee is computed, with    *)
(* 4-bit capacities.  Fees: 2; outputs above inputs; an output index past  *)
(* the end; an unknown transaction; nothing in, nothing out.               *)
(***************************************************************************)
Tx(ins, outs) == [inputs |-> ins, outputs |-> outs]
StoredTxs == [h \in {"x1", "x2", "x3"} |->
                CASE h = "x1" -> <<3, 5>> [] h = "x2" -> <<7>> [] h = "x3" -> <<9, 9>>]
FeeCases == {Tx(<<<<"x1", 0>>, <<"x2", 0>>>>, <<4, 4>>),
             Tx(<<<<"x1", 1>>>>, <<6>>),
             Tx(<<<<"x1", 0>>, <<"x1", 2>>>>, <<1>>),
             Tx(<<<<"x9", 0>>>>, <<>>),
             Tx(<<>>, <<>>)}
\* Inputs of 9 + 9 exceed a 4-bit capacity.
OverflowCases == FeeCases \cup {Tx(<<<<"x3", 0>>, <<"x3", 1>>>>, <<1>>)}

=============================================================================
