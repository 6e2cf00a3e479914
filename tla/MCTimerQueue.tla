---------------------------- MODULE MCTimerQueue ----------------------------
(***************************************************************************)
(* Instances of TimerQueue for TLC: two addresses, so that the third timer *)
(* reuses one.                                                             *)
(***************************************************************************)
EXTENDS TimerQueue
=============================================================================
