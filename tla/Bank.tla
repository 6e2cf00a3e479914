-------------------------------- MODULE Bank --------------------------------
(***************************************************************************)
(* The bank server of ABCBank: one BankThread per client session receives  *)
(* a request, hands it to the Transaction that TransactionManager has for  *)
(* its command, and answers.  The eleven commands share two tables,        *)
(* bank_account and trans, through DAL::BankService, which opens a         *)
(* database connection (MysqlDB) for every request.                        *)
(*                                                                         *)
(* One SQL statement is one step.  The database (InnoDB, not under src/)   *)
(* is modelled by what the code relies on: SELECT ... FOR UPDATE and       *)
(* UPDATE wait for the row and keep it until the transaction ends, a plain *)
(* SELECT sees what was committed, and what a transaction wrote appears,   *)
(* in both tables at once, when it commits.  A MysqlDB that is destroyed   *)
(* closes its connection, which rolls an open transaction back.            *)
(*                                                                         *)
(* Names and dates are left out, money is a natural number of cents, and   *)
(* passwords are compared as wholes.                                       *)
(***************************************************************************)
EXTENDS Integers, Sequences

CONSTANTS Sessions,     \* the client sessions, a BankThread each
          NoOne,        \* the holder of a row that is not locked
          Opening,      \* balances of the accounts that exist at first
          FirstPass,    \* their password, and that of accounts opened later
          PageSize,     \* rows of a page of a bill, 15 in the code
          MaxId,        \* bound: account numbers, enough for every request
          Requests,     \* what clients ask for, see below
          MaxRequests   \* bound: requests in all

(***************************************************************************)
(* A request has the fields op, account, pass, newPass, money, other and   *)
(* page, of which each command uses some.  Amounts are positive and nobody *)
(* transfers to himself: the forms of the client see to both.              *)
(***************************************************************************)
ASSUME BankAssumption ==
  /\ NoOne \notin Sessions
  /\ MaxId \in Nat /\ MaxRequests \in Nat /\ PageSize \in Nat \ {0}
  /\ Opening \in Seq(Nat) /\ Len(Opening) + MaxRequests <= MaxId
  /\ \A r \in Requests : r.money \in Nat /\ r.page \in Nat /\ r.other # r.account

Ids == 1..MaxId

VARIABLES accounts,   \* table bank_account, as committed
          trans,      \* table trans, as committed, in the order of the commits
          nextId,     \* the next value of the auto-increment account_id
          lock,       \* the session whose transaction has a row locked
          req,        \* the request a session is serving
          pc,         \* 0 in Recv, else the number of the statement to run
          ret,        \* what BankService is going to return
          balance,    \* the local variable balance of BankService
          balance2,   \* balance2 of BankService::Transfer
          newId,      \* account_id that OpenAccount got from GetInsertId
          isDead_,    \* sessions that ended
          received    \* bound: requests received so far

tables == <<accounts, trans, nextId>>
locals == <<balance, balance2, newId>>
vars == <<tables, lock, req, pc, ret, locals, isDead_, received>>

Account(b, p) == [balance |-> b, flag |-> 0, pass |-> p]

Row(a, other, abstract, money, b) ==
  [account |-> a, other |-> other, abstract |-> abstract, money |-> money, balance |-> b]

NoRequest == [op |-> "none"]

Init == /\ accounts = [a \in 1..Len(Opening) |-> Account(Opening[a], FirstPass)]
        /\ trans = [a \in 1..Len(Opening) |->
                       Row(a, 0, "open", Opening[a], Opening[a])]
        /\ nextId = Len(Opening) + 1
        /\ lock = [a \in Ids |-> NoOne]
        /\ req = [s \in Sessions |-> NoRequest]
        /\ pc = [s \in Sessions |-> 0]
        /\ ret = [s \in Sessions |-> 0]
        /\ balance = [s \in Sessions |-> 0]
        /\ balance2 = [s \in Sessions |-> 0]
        /\ newId = [s \in Sessions |-> 0]
        /\ isDead_ = {}
        /\ received = 0
-----------------------------------------------------------------------------
(***************************************************************************)
(* The statements of each BankService method, in order.  Those between the *)
(* last lock and the commit change nothing another session can see, and    *)
(* are one.                                                                *)
(***************************************************************************)
UserLogin == <<"teller">>
OpenAccount == <<"insert", "commit", "select">>
Deposit == <<"lock", "update", "commit", "select">>
WithDraw == <<"flag", "pass", "update", "commit", "select">>
Transfer == <<"flag", "pass", "other", "update", "commit">>
BalanceInquiry == <<"flag", "pass", "select">>
ChangePassword == <<"flag", "pass", "setPass">>
CloseAccount == <<"flag", "pass", "select", "update", "commit", "select">>
QueryDayBill == <<"select", "page">>
QueryHistoryBill == <<"select", "page">>
QueryAccountHistoryBill == <<"select", "page">>

Statements == [UserLogin |-> UserLogin, OpenAccount |-> OpenAccount, Deposit |-> Deposit,
               WithDraw |-> WithDraw, Transfer |-> Transfer,
               BalanceInquiry |-> BalanceInquiry, ChangePassword |-> ChangePassword,
               CloseAccount |-> CloseAccount, QueryDayBill |-> QueryDayBill,
               QueryHistoryBill |-> QueryHistoryBill,
               QueryAccountHistoryBill |-> QueryAccountHistoryBill]

\* A packet with another command finds no Transaction.
ASSUME CommandAssumption == \A r \in Requests : r.op \in DOMAIN Statements

Replies(s) == Len(Statements[req[s].op]) + 1

Statement(s) == IF pc[s] = 0 \/ pc[s] = Replies(s) THEN "none"
                                                   ELSE Statements[req[s].op][pc[s]]

\* Methods whose handler for exceptions calls Rollback.
RollsBack == {"OpenAccount", "Deposit", "WithDraw", "Transfer"}

\* Methods that read the account's row by its password FOR UPDATE.
LocksByPass == {"WithDraw", "Transfer", "CloseAccount"}

\* Mutant: an account that was closed counts as one.
ExistsEver(a) == a \in DOMAIN accounts

\* ... where account_id = a and flag = 0
Exists(a) == a \in DOMAIN accounts /\ accounts[a].flag = 0

\* ... where account_id = a and pass = p; p is not quoted, so that SQL compares numbers.
PassFits(a, p) == a \in DOMAIN accounts /\ accounts[a].pass = p

\* The row that the statement needs to itself, if any.
RowWanted(s) == CASE Statement(s) \in {"lock", "update", "setPass"} -> req[s].account
                  [] Statement(s) = "pass" /\ req[s].op \in LocksByPass -> req[s].account
                  [] Statement(s) = "other" -> req[s].other
                  [] OTHER -> 0

\* Mutant: SELECT without FOR UPDATE.
lockedNone(s, a) == lock

locked(s, a) == [lock EXCEPT ![a] = s]

Granted(s) == RowWanted(s) \in Ids => lock[RowWanted(s)] \in {s, NoOne}

\* Mutant: an early return leaves its transaction open.
releasedNever(s) == lock

\* The connection is closed: the rows of s are free again.
released(s) == [a \in Ids |-> IF lock[a] = s THEN NoOne ELSE lock[a]]

\* The method returns c: the MysqlDB on its stack closes the connection.
Returns(s, c) == /\ ret' = [ret EXCEPT ![s] = c]
                 /\ pc' = [pc EXCEPT ![s] = Replies(s)]
                 /\ lock' = released(s)

\* The calls that serve a request are over: their variables are gone.
Forgets(S) == /\ pc' = [s \in Sessions |-> IF s \in S THEN 0 ELSE pc[s]]
              /\ ret' = [s \in Sessions |-> IF s \in S THEN 0 ELSE ret[s]]
              /\ req' = [s \in Sessions |-> IF s \in S THEN NoRequest ELSE req[s]]
              /\ balance' = [s \in Sessions |-> IF s \in S THEN 0 ELSE balance[s]]
              /\ balance2' = [s \in Sessions |-> IF s \in S THEN 0 ELSE balance2[s]]
              /\ newId' = [s \in Sessions |-> IF s \in S THEN 0 ELSE newId[s]]

Advances(s) == pc' = [pc EXCEPT ![s] = @ + 1] /\ UNCHANGED ret
-----------------------------------------------------------------------------
(***************************************************************************)
(* BankThread::Run and BankSession: receive, dispatch, answer.             *)
(***************************************************************************)
receive(s, r) == /\ s \notin isDead_ /\ pc[s] = 0
                 /\ received < MaxRequests
                 /\ received' = received + 1
                 /\ req' = [req EXCEPT ![s] = r]
                 /\ pc' = [pc EXCEPT ![s] = 1]
                 /\ ret' = [ret EXCEPT ![s] = 0]
                 /\ UNCHANGED <<tables, lock, locals, isDead_>>

\* The client left, or the packet's hash is wrong: Run catches and kills.
recvThrows(s) == /\ s \notin isDead_ /\ pc[s] = 0
                 /\ isDead_' = isDead_ \cup {s}
                 /\ UNCHANGED <<tables, lock, req, pc, ret, locals, received>>

\* Execute sends the error code and goes back to Recv.
reply(s) == /\ s \notin isDead_ /\ pc[s] > 0 /\ pc[s] = Replies(s)
            /\ Forgets({s})
            /\ UNCHANGED <<tables, lock, isDead_, received>>
-----------------------------------------------------------------------------
(***************************************************************************)
(* Statements.                                                             *)
(***************************************************************************)
Runs(s, statement) == /\ s \notin isDead_
                      /\ Statement(s) = statement
                      /\ Granted(s)
                      /\ UNCHANGED <<req, isDead_, received>>

queryTeller(s) == /\ Runs(s, "teller")
                  /\ \/ Advances(s) /\ UNCHANGED lock
                     \/ Returns(s, 1)
                  /\ UNCHANGED <<tables, locals>>

\* A plain read, before any lock.
queryFlag(s) == /\ Runs(s, "flag")
                /\ IF Exists(req[s].account) THEN Advances(s) /\ UNCHANGED lock
                                             ELSE Returns(s, 2)
                /\ UNCHANGED <<tables, locals>>

\* Mutant: the balance is not tested.
EnoughAlways(s) == TRUE

\* WithDraw and Transfer test the balance they have just read.
Enough(s) == req[s].op \in {"WithDraw", "Transfer"}
                => req[s].money <= accounts[req[s].account].balance

queryPass(s) == LET a == req[s].account
                IN  /\ Runs(s, "pass")
                    /\ CASE ~PassFits(a, req[s].pass) -> Returns(s, 3) /\ UNCHANGED balance
                         [] PassFits(a, req[s].pass) /\ ~Enough(s)
                              -> Returns(s, 4) /\ UNCHANGED balance
                         [] OTHER
                              -> /\ balance' = [balance EXCEPT ![s] = accounts[a].balance]
                                 /\ lock' = IF req[s].op \in LocksByPass
                                            THEN locked(s, a) ELSE lock
                                 /\ Advances(s)
                    /\ UNCHANGED <<tables, balance2, newId>>

queryForUpdate(s) == LET a == req[s].account
                     IN  /\ Runs(s, "lock")
                         /\ IF Exists(a)
                            THEN /\ balance' = [balance EXCEPT ![s] = accounts[a].balance]
                                 /\ lock' = locked(s, a)
                                 /\ Advances(s)
                            ELSE Returns(s, 2) /\ UNCHANGED balance
                         /\ UNCHANGED <<tables, balance2, newId>>

queryOther(s) == LET a == req[s].other
                 IN  /\ Runs(s, "other")
                     /\ IF Exists(a)
                        THEN /\ balance2' = [balance2 EXCEPT ![s] = accounts[a].balance]
                             /\ lock' = locked(s, a)
                             /\ Advances(s)
                        ELSE Returns(s, 5) /\ UNCHANGED balance2
                     /\ UNCHANGED <<tables, balance, newId>>

\* The new row is the transaction's own until it commits.
insertAccount(s) == /\ Runs(s, "insert")
                    /\ nextId \in Ids
                    /\ newId' = [newId EXCEPT ![s] = nextId]
                    /\ nextId' = nextId + 1
                    /\ lock' = [lock EXCEPT ![nextId] = s]
                    /\ Advances(s)
                    /\ UNCHANGED <<accounts, trans, balance, balance2>>

\* UPDATE locks the row whether or not a SELECT has.
update(s) == /\ Runs(s, "update")
             /\ lock' = [lock EXCEPT ![req[s].account] = s]
             /\ Advances(s)
             /\ UNCHANGED <<tables, locals>>

\* What the updates of s make of the account a.
Updated(s, a) ==
  LET r == req[s]
  IN  CASE r.op = "Deposit" /\ a = r.account -> [accounts[a] EXCEPT !.balance = @ + r.money]
        [] r.op \in {"WithDraw", "Transfer"} /\ a = r.account
             -> [accounts[a] EXCEPT !.balance = @ - r.money]
        [] r.op = "Transfer" /\ a = r.other -> [accounts[a] EXCEPT !.balance = @ + r.money]
        [] r.op = "CloseAccount" /\ a = r.account -> [accounts[a] EXCEPT !.flag = 1]
        [] r.op = "ChangePassword" /\ a = r.account -> [accounts[a] EXCEPT !.pass = r.newPass]
        [] r.op = "OpenAccount" /\ a = newId[s] -> Account(r.money, FirstPass)
        [] OTHER -> accounts[a]

\* The rows s inserts into trans; their balances come from its local variables.
Inserted(s) ==
  LET r == req[s]
  IN  CASE r.op = "OpenAccount" -> <<Row(newId[s], 0, "open", r.money, r.money)>>
        [] r.op = "Deposit"
             -> <<Row(r.account, 0, "deposit", r.money, balance[s] + r.money)>>
        [] r.op = "WithDraw"
             -> <<Row(r.account, 0, "withdraw", r.money, balance[s] - r.money)>>
        [] r.op = "Transfer"
             -> <<Row(r.account, r.other, "out", r.money, balance[s] - r.money),
                  Row(r.other, r.account, "in", r.money, balance2[s] + r.money)>>
        [] OTHER -> <<>>

Committed(s) == /\ accounts' = [a \in DOMAIN accounts \cup ({newId[s]} \ {0}) |-> Updated(s, a)]
                /\ trans' = trans \o Inserted(s)
                /\ UNCHANGED nextId

commit(s) == /\ Runs(s, "commit")
             /\ Committed(s)
             /\ lock' = released(s)
             /\ Advances(s)
             /\ UNCHANGED locals

\* ChangePassword has no transaction: its UPDATE commits by itself.
setPass(s) == /\ Runs(s, "setPass")
              /\ Committed(s)
              /\ Advances(s)
              /\ UNCHANGED <<lock, locals>>

\* Reads that only fill the answer: receipts, the interest, the length of a bill.
querySelect(s) == /\ Runs(s, "select")
                  /\ Advances(s)
                  /\ UNCHANGED <<tables, lock, locals>>

\* The rows of a bill: of one account, or of all (of any date: dates are left out).
BillRows(r) == IF r.op = "QueryAccountHistoryBill"
               THEN SelectSeq(trans, LAMBDA row : row.account = r.account)
               ELSE trans

queryPage(s) == /\ Runs(s, "page")
                /\ IF req[s].page * PageSize < Len(BillRows(req[s]))
                   THEN Advances(s) /\ UNCHANGED lock
                   ELSE Returns(s, 6)
                /\ UNCHANGED <<tables, locals>>
-----------------------------------------------------------------------------
(***************************************************************************)
(* Errors.  A statement may fail (deadlock, lock wait timeout, connection  *)
(* lost); of a COMMIT it is then unknown whether it took effect.  Rollback *)
(* throws when the ROLLBACK succeeded, and the exception, which nobody     *)
(* expects there, ends the session without an answer; when the ROLLBACK    *)
(* failed, -1 is returned.                                                 *)
(***************************************************************************)
statementFails(s) ==
  /\ s \notin isDead_ /\ Statement(s) # "none"
  /\ \/ UNCHANGED tables
     \/ Statement(s) \in {"commit", "setPass"} /\ Committed(s)
  /\ \/ /\ req[s].op \in RollsBack
        /\ isDead_' = isDead_ \cup {s}
        /\ lock' = released(s)
        /\ Forgets({s})
     \/ Returns(s, -1) /\ UNCHANGED <<req, locals, isDead_>>
  /\ UNCHANGED received

(***************************************************************************)
(* MysqlDB::Open fails.  It leaves mysql_ NULL, and Rollback, called on it *)
(* by the handler, crashes the server.                                     *)
(***************************************************************************)
openFails(s) == /\ s \notin isDead_ /\ pc[s] = 1
                /\ IF req[s].op \in RollsBack
                   THEN /\ isDead_' = Sessions
                        /\ lock' = [a \in Ids |-> NoOne]
                        /\ Forgets(Sessions)
                   ELSE Returns(s, -1) /\ UNCHANGED <<req, locals, isDead_>>
                /\ UNCHANGED <<tables, received>>

\* The database fails a statement that takes part in a cycle of waits.
Waits(s) == s \notin isDead_ /\ Statement(s) # "none" /\ ~Granted(s)

InCycle(s) == \E S \in SUBSET Sessions :
                 /\ s \in S
                 /\ \A x \in S : Waits(x) /\ lock[RowWanted(x)] \in S

deadlockVictim(s) == InCycle(s) /\ statementFails(s)
-----------------------------------------------------------------------------
Serves(s) == \/ queryTeller(s) \/ queryFlag(s) \/ queryPass(s)
             \/ queryForUpdate(s) \/ queryOther(s) \/ insertAccount(s)
             \/ update(s) \/ commit(s) \/ setPass(s)
             \/ querySelect(s) \/ queryPage(s) \/ reply(s)

Next == \E s \in Sessions : \/ \E r \in Requests : receive(s, r)
                            \/ recvThrows(s)
                            \/ Serves(s)
                            \/ statementFails(s)
                            \/ openFails(s)

Spec == Init /\ [][Next]_vars

(***************************************************************************)
(* A thread that has a request goes on with it; the database grants a row  *)
(* to those who wait for it in turn, and breaks deadlocks.  No other       *)
(* statement has to fail.                                                  *)
(***************************************************************************)
FairSpec == /\ Spec
            /\ \A s \in Sessions : SF_vars(Serves(s))
            /\ WF_vars(\E s \in Sessions : deadlockVictim(s))
-----------------------------------------------------------------------------
(***************************************************************************)
(* TypeOK: in particular no balance is ever negative: WithDraw and         *)
(* Transfer test the balance in one statement and reduce it in another.    *)
(***************************************************************************)
Passes == {FirstPass} \cup {r.newPass : r \in Requests}
Accounts == [balance : Nat, flag : {0, 1}, pass : Passes]
Parties == {0} \cup {r.account : r \in Requests} \cup {r.other : r \in Requests}
Rows == [account : Ids, other : Parties, abstract : {"open", "deposit", "withdraw", "out", "in"},
         money : Nat, balance : Nat]

TypeOK == /\ accounts \in [DOMAIN accounts -> Accounts]
          /\ DOMAIN accounts \subseteq 1..(nextId - 1)
          /\ trans \in Seq(Rows)
          /\ nextId \in 1..(MaxId + 1)
          /\ lock \in [Ids -> Sessions \cup {NoOne}]
          /\ req \in [Sessions -> Requests \cup {NoRequest}]
          /\ pc \in [Sessions -> Nat]
          /\ \A s \in Sessions : pc[s] # 0 => req[s] \in Requests /\ pc[s] <= Replies(s)
          /\ ret \in [Sessions -> -1..6]
          /\ balance \in [Sessions -> Nat] /\ balance2 \in [Sessions -> Nat]
          /\ newId \in [Sessions -> 0..MaxId]
          /\ isDead_ \subseteq Sessions
          /\ received \in 0..MaxRequests

Signed(row) == IF row.abstract \in {"open", "deposit", "in"} THEN row.money ELSE -row.money

\* The rows of an account in a table T of transactions, by their places.
RowsOf(T, a) == {i \in 1..Len(T) : T[i].account = a}

\* T notes down how the account a came to have b.
Accounted(T, a, b) ==
  /\ \E last \in RowsOf(T, a) : T[last].balance = b /\ \A i \in RowsOf(T, a) : i <= last
  /\ \A j \in RowsOf(T, a) :
        \/ /\ \A i \in RowsOf(T, a) : j <= i
           /\ T[j].balance = Signed(T[j])
        \/ \E i \in RowsOf(T, a) : /\ i < j /\ \A k \in RowsOf(T, a) : k <= i \/ j <= k
                                   /\ T[j].balance = T[i].balance + Signed(T[j])

(***************************************************************************)
(* Books: the balance that each row of trans notes down, taken from what   *)
(* the session read before, is the balance of the row before it plus its   *)
(* own amount, and the last one is the account's: the two tables, written  *)
(* from different values by concurrent sessions, agree.                    *)
(***************************************************************************)
Books == \A a \in DOMAIN accounts : Accounted(trans, a, accounts[a].balance)

(***************************************************************************)
(* NoMoneyIntoClosed: an account that was closed stays closed and never    *)
(* gains money: Deposit and the second account of Transfer test the flag   *)
(* in the statement that locks the row to be credited.  It says nothing of *)
(* debits, nor of an account closed twice; see the README.                 *)
(***************************************************************************)
NoMoneyIntoClosed ==
  [][\A a \in DOMAIN accounts :
        accounts[a].flag = 1 => /\ accounts'[a].flag = 1
                                /\ accounts'[a].balance <= accounts[a].balance]_vars

(***************************************************************************)
(* Ends: a request is answered, or its session closed, however its locks   *)
(* cross those of others and whichever way the method returns.             *)
(***************************************************************************)
Ends == \A s \in Sessions : pc[s] > 0 ~> pc[s] = 0 \/ s \in isDead_
-----------------------------------------------------------------------------
(***************************************************************************)
(* The inductive invariant behind TypeOK, Books and NoMoneyIntoClosed.     *)
(* Between the statement that locks a row and the commit, the row is the   *)
(* session's own, so that what it read of the row still holds.             *)
(***************************************************************************)
Serving(s, op, P) == req[s].op = op /\ pc[s] \in P

HasAccount(s) == \/ Serving(s, "Deposit", 2..3) \/ Serving(s, "WithDraw", 3..4)
                 \/ Serving(s, "Transfer", 3..5) \/ Serving(s, "CloseAccount", 3..5)
HasOther(s) == Serving(s, "Transfer", 4..5)
HasNew(s) == Serving(s, "OpenAccount", {2})

\* The row of a is locked by s, and b is its balance.
Own(s, a, b) == a \in DOMAIN accounts /\ lock[a] = s /\ accounts[a].balance = b

LockInv(s) ==
  /\ HasAccount(s) => /\ Own(s, req[s].account, balance[s])
                      /\ req[s].op = "Deposit" => accounts[req[s].account].flag = 0
                      /\ req[s].op \in {"WithDraw", "Transfer"} => req[s].money <= balance[s]
  /\ HasOther(s) => /\ Own(s, req[s].other, balance2[s])
                    /\ accounts[req[s].other].flag = 0
  /\ HasNew(s) => /\ newId[s] \in 1..(nextId - 1) /\ newId[s] \notin DOMAIN accounts
                  /\ lock[newId[s]] = s
  /\ newId[s] # 0 => req[s].op = "OpenAccount" /\ pc[s] > 1

RowsInv == \A i \in 1..Len(trans) : trans[i].account \in DOMAIN accounts

IInv == TypeOK /\ RowsInv /\ Books /\ \A s \in Sessions : LockInv(s)
=============================================================================
