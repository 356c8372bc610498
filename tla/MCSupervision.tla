--------------------------- MODULE MCSupervision ----------------------------
(* Instances of Supervision for TLC.  A loop l<i> of process p<i>; l1b is  *)
(* a second loop of p1.                                                    *)
EXTENDS Supervision, TLC
CONSTANTS p1, p2, l1, l1b, l2
MCProcessOf == (l1 :> p1) @@ (l1b :> p1) @@ (l2 :> p2)
MCProcessOfOne == l1 :> p1
=============================================================================
