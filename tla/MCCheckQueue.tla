---------------------------- MODULE MCCheckQueue ----------------------------
(* Two workers, and blocks of up to four checks, one of which fails. *)
EXTENDS CheckQueue, TLC

CONSTANTS w1, w2, c1, c2, c3, c4
=============================================================================
