---------------------------- MODULE MCTcpServer ----------------------------
(***************************************************************************)
(* Instances of TcpServer for TLC: the programs that use the server, with  *)
(* thread pools of no, one and two loops.                                  *)
(***************************************************************************)
EXTENDS TcpServer

CONSTANTS l1, l2

Program(pool, conns, n, what) ==
  [pool |-> pool, conns |-> conns, sends |-> n, shutdown |-> "shutdown" \in what,
   thread |-> "thread" \in what, destroy |-> "destroy" \in what,
   handler |-> "handler" \in what]

\* Programs for which every assertion has to hold.
CorrectUses == {Program(<<l1>>, 2, 1, {"shutdown"}),
                Program(<<>>, 2, 1, {"destroy"}),
                Program(<<l1, l2>>, 3, 0, {})}

\* Everything at once, on one connection; and a server destroyed by a handler.
BusyUses == {Program(<<l1>>, 1, 2, {"shutdown", "thread", "destroy"}),
             Program(<<>>, 1, 1, {"destroy", "handler"})}

\* Another thread sends, nothing else.
SendUses == {Program(<<l1>>, 1, 1, {"thread"})}

\* A server of one thread, destroyed after a shutdown().
DestroyUses == {Program(<<>>, 1, 1, {"shutdown", "destroy"})}
=============================================================================
