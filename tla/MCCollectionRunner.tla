------------------------- MODULE MCCollectionRunner -------------------------
(***************************************************************************)
(* Instances of CollectionRunner for TLC: two processes, one of them with  *)
(* two threads (its scheduler and a request), and a single process.        *)
(***************************************************************************)
EXTENDS CollectionRunner, TLC
CONSTANTS p1, p2, t1, t2, t3

TwoProcs     == {p1, p2}
ThreeThreads == {t1, t2, t3}
ThreeProcOf  == t1 :> p1 @@ t2 :> p1 @@ t3 :> p2
TwoThreads   == {t1, t3}
TwoProcOf    == t1 :> p1 @@ t3 :> p2

=============================================================================
