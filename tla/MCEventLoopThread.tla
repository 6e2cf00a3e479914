------------------------- MODULE MCEventLoopThread -------------------------
(***************************************************************************)
(* The instances of EventLoopThread for TLC: a creator, the IO thread and  *)
(* at most one thread beside them.                                         *)
(***************************************************************************)
EXTENDS EventLoopThread
=============================================================================
