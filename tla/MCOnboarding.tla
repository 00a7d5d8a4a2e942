---------------------------- MODULE MCOnboarding ----------------------------
(***************************************************************************)
(* Instances of Onboarding for TLC.  The bounds are the constants of the   *)
(* specification: two or three background jobs, one or two requests in     *)
(* flight, a timeout of one tick.                                          *)
(***************************************************************************)
EXTENDS Onboarding
CONSTANTS r1, r2

OneRequest  == {r1}
TwoRequests == {r1, r2}
AnyHost     == Exporters
EmptyHost   == {"absent"}
OldHost     == {"old"}

=============================================================================
