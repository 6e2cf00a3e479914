------------------------------- MODULE MCBank -------------------------------
(***************************************************************************)
(* The instance of Bank for TLC: two sessions, two accounts and a third to *)
(* be opened, requests that cross on them.                                 *)
(***************************************************************************)
EXTENDS Bank

Ask(op, a, other, money) ==
  [op |-> op, account |-> a, other |-> other, pass |-> FirstPass, newPass |-> "new",
   money |-> money, page |-> 0]

SomeBalances == <<2, 1>>

SomeRequests ==
  {Ask("Deposit", 2, 0, 1), Ask("Deposit", 3, 0, 1),
   Ask("WithDraw", 1, 0, 2), Ask("WithDraw", 2, 0, 1),
   Ask("Transfer", 1, 2, 1), Ask("Transfer", 2, 1, 1),
   Ask("CloseAccount", 2, 0, 0), Ask("ChangePassword", 1, 0, 0),
   Ask("OpenAccount", 0, 1, 1), Ask("UserLogin", 0, 1, 0),
   Ask("BalanceInquiry", 1, 0, 0), Ask("QueryDayBill", 0, 1, 0),
   Ask("QueryHistoryBill", 0, 1, 0),
   Ask("QueryAccountHistoryBill", 3, 0, 0)}
=============================================================================
