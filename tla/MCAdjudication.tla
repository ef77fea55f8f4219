--------------------------- MODULE MCAdjudication ---------------------------
(***************************************************************************)
(* Small instances of the GenLayer contract for TLC.  One tick of the      *)
(* clock is a day of the code's constants, rounded so that their order is  *)
(* kept: a funding reservation ends within the day, reviews have one day   *)
(* after the deadline, the appeal window is two, the arbiter has three.    *)
(***************************************************************************)
EXTENDS AdjudicationContest, WebOffers, TLC

CONSTANTS creator, alice, bob, arbiter, attestor

MCSymmetry == Permutations(ReservationId)

=============================================================================
