--------------------------- MODULE MCAsyncLogging ---------------------------
(***************************************************************************)
(* The instance of AsyncLogging for TLC: buffers of two lines and a        *)
(* backlog limit of three, so that a backlog is reached.                   *)
(***************************************************************************)
EXTENDS AsyncLogging
=============================================================================
