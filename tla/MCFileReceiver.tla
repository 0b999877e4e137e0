--------------------------- MODULE MCFileReceiver ---------------------------
(***************************************************************************)
(* FileReceiver with three files: two for one worker and one for another,  *)
(* or all for one, which has fewer slots than that; and with one file for  *)
(* each of two workers.                                                    *)
(***************************************************************************)
EXTENDS FileReceiver

CONSTANTS w1, w2, t1, t2, t3

TwoAndOne == [t \in Transfer |-> IF t = t3 THEN w2 ELSE w1]
AllToOne == [t \in Transfer |-> w1]

OneEach == {[t \in Transfer |-> IF t = t1 THEN w1 ELSE w2]}

BothRoutes == {TwoAndOne, AllToOne}

\* In both routes t1 and t2 go the same way.
Symmetry == Permutations({t1, t2})
=============================================================================
