---------------------------- MODULE MCTcpClient ----------------------------
(***************************************************************************)
(* The instance of TcpClient for TLC: every program, over each poller.     *)
(***************************************************************************)
EXTENDS TcpClient

AllUses == [poller : {"poll", "epoll"}, retry : BOOLEAN, thread : BOOLEAN, slow : BOOLEAN,
            calls : SUBSET {"stop", "disconnect", "destroy"}]
=============================================================================
