----------------------------- MODULE BankProofs -----------------------------
(***************************************************************************)
(* Proofs about Bank, for any number of sessions and accounts, any opening *)
(* balances and any requests.                                              *)
(***************************************************************************)
EXTENDS Bank, SequenceTheorems, TLAPS

USE BankAssumption, CommandAssumption
-----------------------------------------------------------------------------
(***************************************************************************)
(* The books of one account, row by row.                                   *)
(***************************************************************************)
\* The places of the rows of a, when one row is added.
LEMMA RowsOfAppend ==
  ASSUME NEW T \in Seq(Rows), NEW row \in Rows, NEW a, NEW n \in Nat, n = Len(T)
  PROVE  /\ Append(T, row) \in Seq(Rows) /\ Len(Append(T, row)) = n + 1
         /\ \A i \in 1..n : Append(T, row)[i] = T[i]
         /\ Append(T, row)[n + 1] = row
         /\ RowsOf(T, a) \subseteq 1..n
         /\ row.account # a => RowsOf(Append(T, row), a) = RowsOf(T, a)
         /\ row.account = a => RowsOf(Append(T, row), a) = RowsOf(T, a) \cup {n + 1}
<1>1. /\ Append(T, row) \in Seq(Rows) /\ Len(Append(T, row)) = n + 1
      /\ \A i \in 1..n : Append(T, row)[i] = T[i]
      /\ Append(T, row)[n + 1] = row
  BY AppendProperties
<1>2. 1..(n + 1) = 1..n \cup {n + 1}
  OBVIOUS
<1>3. RowsOf(T, a) = {i \in 1..n : T[i].account = a}
  BY DEF RowsOf
<1>4. RowsOf(Append(T, row), a) = {i \in 1..n \cup {n + 1} : Append(T, row)[i].account = a}
  BY <1>1, <1>2 DEF RowsOf
<1>5. RowsOf(Append(T, row), a) = RowsOf(T, a) \cup {i \in {n + 1} : row.account = a}
  BY <1>1, <1>3, <1>4
<1>. QED BY <1>1, <1>3, <1>5

\* A row of another account changes nothing.
LEMMA OtherRow ==
  ASSUME NEW T \in Seq(Rows), NEW row \in Rows, NEW a, NEW b, row.account # a, Accounted(T, a, b)
  PROVE  Accounted(Append(T, row), a, b)
<1>. PICK n \in Nat : n = Len(T)
  BY LenProperties
<1>. PICK U : U = Append(T, row)
  OBVIOUS
<1>1. RowsOf(U, a) = RowsOf(T, a) /\ \A i \in RowsOf(T, a) : U[i] = T[i]
  BY RowsOfAppend
<1>. QED BY <1>1 DEF Accounted

\* A row of the account notes the balance before it, plus its own amount.
LEMMA NextRow ==
  ASSUME NEW T \in Seq(Rows), NEW row \in Rows, NEW a, NEW b, row.account = a,
         Accounted(T, a, b), row.balance = b + Signed(row)
  PROVE  Accounted(Append(T, row), a, row.balance)
<1>. PICK n \in Nat : n = Len(T)
  BY LenProperties
<1>. PICK U : U = Append(T, row)
  OBVIOUS
<1>1. /\ RowsOf(T, a) \subseteq 1..n /\ RowsOf(U, a) = RowsOf(T, a) \cup {n + 1}
      /\ U[n + 1] = row /\ \A i \in RowsOf(T, a) : U[i] = T[i] /\ i < n + 1
  BY RowsOfAppend
<1>2. PICK last \in RowsOf(T, a) : T[last].balance = b /\ \A i \in RowsOf(T, a) : i <= last
  BY DEF Accounted
<1>3. \A i \in RowsOf(U, a) : i <= n + 1 /\ (i <= last \/ n + 1 <= i)
  BY <1>1, <1>2
<1>4. ASSUME NEW j \in RowsOf(T, a), \A i \in RowsOf(T, a) : j <= i,
             T[j].balance = Signed(T[j])
      PROVE  (\A i \in RowsOf(U, a) : j <= i) /\ U[j].balance = Signed(U[j])
  <2>1. \A i \in RowsOf(U, a) : j <= i
    BY <1>1, <1>4
  <2>. QED BY <1>1, <1>4, <2>1
<1>5. ASSUME NEW j \in RowsOf(T, a), NEW i \in RowsOf(T, a), i < j,
             \A k \in RowsOf(T, a) : k <= i \/ j <= k,
             T[j].balance = T[i].balance + Signed(T[j])
      PROVE  /\ i < j /\ \A k \in RowsOf(U, a) : k <= i \/ j <= k
             /\ U[j].balance = U[i].balance + Signed(U[j])
  <2>1. \A k \in RowsOf(U, a) : k <= i \/ j <= k
    BY <1>1, <1>5
  <2>. QED BY <1>1, <1>5, <2>1
<1>6. \A j \in RowsOf(U, a) :
        \/ /\ \A i \in RowsOf(U, a) : j <= i
           /\ U[j].balance = Signed(U[j])
        \/ \E i \in RowsOf(U, a) : /\ i < j /\ \A k \in RowsOf(U, a) : k <= i \/ j <= k
                                   /\ U[j].balance = U[i].balance + Signed(U[j])
  <2>. SUFFICES ASSUME NEW j \in RowsOf(U, a)
                PROVE  \/ /\ \A i \in RowsOf(U, a) : j <= i
                          /\ U[j].balance = Signed(U[j])
                       \/ \E i \in RowsOf(U, a) :
                             /\ i < j /\ \A k \in RowsOf(U, a) : k <= i \/ j <= k
                             /\ U[j].balance = U[i].balance + Signed(U[j])
    OBVIOUS
  <2>1. CASE j = n + 1
    <3>1. last < n + 1 /\ U[n + 1].balance = U[last].balance + Signed(U[n + 1])
      BY <1>1, <1>2
    <3>2. \A k \in RowsOf(U, a) : k <= last \/ n + 1 <= k
      BY <1>3
    <3>3. last \in RowsOf(U, a)
      BY <1>1
    <3>. QED BY <2>1, <3>1, <3>2, <3>3
  <2>2. CASE j \in RowsOf(T, a)
    <3>1. RowsOf(T, a) \subseteq RowsOf(U, a)
      BY <1>1
    <3>. QED BY <1>4, <1>5, <2>2, <3>1 DEF Accounted
  <2>. QED BY <1>1, <2>1, <2>2
<1>7. U[n + 1].balance = row.balance /\ n + 1 \in RowsOf(U, a) /\ \A i \in RowsOf(U, a) : i <= n + 1
  BY <1>1, <1>3
<1>. QED BY <1>6, <1>7 DEF Accounted

\* The first row of an account notes its own amount.
LEMMA FirstRow ==
  ASSUME NEW T \in Seq(Rows), NEW row \in Rows, NEW a, row.account = a,
         \A i \in 1..Len(T) : T[i].account # a, row.balance = Signed(row)
  PROVE  Accounted(Append(T, row), a, row.balance)
<1>. PICK n \in Nat : n = Len(T)
  BY LenProperties
<1>. PICK U : U = Append(T, row)
  OBVIOUS
<1>1. RowsOf(T, a) = {}
  BY DEF RowsOf
<1>2. RowsOf(U, a) = {n + 1} /\ U[n + 1] = row
  BY <1>1, RowsOfAppend, SMTT(60)
<1>. QED BY <1>2 DEF Accounted

\* A commit adds no row, one or two.
LEMMA ConcatRows ==
  ASSUME NEW T \in Seq(Rows)
  PROVE  /\ T \o <<>> = T
         /\ \A r \in Rows : T \o <<r>> = Append(T, r)
         /\ \A r, q \in Rows : T \o <<r, q>> = Append(Append(T, r), q)
OBVIOUS
-----------------------------------------------------------------------------
(***************************************************************************)
(* The statements of the methods, looked up the other way round.           *)
(***************************************************************************)
Bills == {"QueryDayBill", "QueryHistoryBill", "QueryAccountHistoryBill"}

LEMMA Operations ==
  DOMAIN Statements = {"UserLogin", "OpenAccount", "Deposit", "WithDraw", "Transfer",
                       "BalanceInquiry", "ChangePassword", "CloseAccount", "QueryDayBill",
                       "QueryHistoryBill", "QueryAccountHistoryBill"}
BY DEF Statements

LEMMA Lookup ==
  /\ Statements["UserLogin"] = UserLogin
  /\ Statements["OpenAccount"] = OpenAccount
  /\ Statements["Deposit"] = Deposit
  /\ Statements["WithDraw"] = WithDraw
  /\ Statements["Transfer"] = Transfer
  /\ Statements["BalanceInquiry"] = BalanceInquiry
  /\ Statements["ChangePassword"] = ChangePassword
  /\ Statements["CloseAccount"] = CloseAccount
  /\ Statements["QueryDayBill"] = QueryDayBill
  /\ Statements["QueryHistoryBill"] = QueryHistoryBill
  /\ Statements["QueryAccountHistoryBill"] = QueryAccountHistoryBill
BY DEF Statements

\* Which method is where when it runs a statement.
LEMMA StatementTable ==
  ASSUME NEW op \in DOMAIN Statements, NEW i \in 1..Len(Statements[op])
  PROVE  LET x == Statements[op][i]
         IN  /\ x # "none"
             /\ x = "lock" => op = "Deposit" /\ i = 1
             /\ x = "insert" => op = "OpenAccount" /\ i = 1
             /\ x = "flag" => i = 1 /\ op \in {"WithDraw", "Transfer", "BalanceInquiry",
                                              "ChangePassword", "CloseAccount"}
             /\ x = "pass" => i = 2 /\ op \in {"WithDraw", "Transfer", "BalanceInquiry",
                                              "ChangePassword", "CloseAccount"}
             /\ x = "other" => op = "Transfer" /\ i = 3
             /\ x = "setPass" => op = "ChangePassword" /\ i = 3
             /\ x = "teller" => op = "UserLogin" /\ i = 1
             /\ x = "page" => op \in Bills /\ i = 2
             /\ x = "update" => \/ op = "Deposit" /\ i = 2
                                \/ op = "WithDraw" /\ i = 3
                                \/ op \in {"Transfer", "CloseAccount"} /\ i = 4
             /\ x = "commit" => \/ op = "OpenAccount" /\ i = 2
                                \/ op = "Deposit" /\ i = 3
                                \/ op = "WithDraw" /\ i = 4
                                \/ op \in {"Transfer", "CloseAccount"} /\ i = 5
             /\ x = "select" => \/ op \in {"OpenAccount", "BalanceInquiry"} /\ i = 3
                                \/ op = "Deposit" /\ i = 4
                                \/ op = "WithDraw" /\ i = 5
                                \/ op = "CloseAccount" /\ i \in {3, 6}
                                \/ op \in Bills /\ i = 1
<1>. USE DEF Bills
<1>1. CASE op = "UserLogin"
  <2>1. Statements[op] = <<"teller">>
    BY <1>1, Lookup DEF UserLogin
  <2>2. i \in {1}
    BY <2>1
  <2>. QED BY <1>1, <2>1, <2>2
<1>2. CASE op = "OpenAccount"
  <2>1. Statements[op] = <<"insert", "commit", "select">>
    BY <1>2, Lookup DEF OpenAccount
  <2>2. i \in {1, 2, 3}
    BY <2>1
  <2>. QED BY <1>2, <2>1, <2>2
<1>3. CASE op = "Deposit"
  <2>1. Statements[op] = <<"lock", "update", "commit", "select">>
    BY <1>3, Lookup DEF Deposit
  <2>2. i \in {1, 2, 3, 4}
    BY <2>1
  <2>. QED BY <1>3, <2>1, <2>2
<1>4. CASE op = "WithDraw"
  <2>1. Statements[op] = <<"flag", "pass", "update", "commit", "select">>
    BY <1>4, Lookup DEF WithDraw
  <2>2. i \in {1, 2, 3, 4, 5}
    BY <2>1
  <2>. QED BY <1>4, <2>1, <2>2
<1>5. CASE op = "Transfer"
  <2>1. Statements[op] = <<"flag", "pass", "other", "update", "commit">>
    BY <1>5, Lookup DEF Transfer
  <2>2. i \in {1, 2, 3, 4, 5}
    BY <2>1
  <2>. QED BY <1>5, <2>1, <2>2
<1>6. CASE op = "BalanceInquiry"
  <2>1. Statements[op] = <<"flag", "pass", "select">>
    BY <1>6, Lookup DEF BalanceInquiry
  <2>2. i \in {1, 2, 3}
    BY <2>1
  <2>. QED BY <1>6, <2>1, <2>2
<1>7. CASE op = "ChangePassword"
  <2>1. Statements[op] = <<"flag", "pass", "setPass">>
    BY <1>7, Lookup DEF ChangePassword
  <2>2. i \in {1, 2, 3}
    BY <2>1
  <2>. QED BY <1>7, <2>1, <2>2
<1>8. CASE op = "CloseAccount"
  <2>1. Statements[op] = <<"flag", "pass", "select", "update", "commit", "select">>
    BY <1>8, Lookup DEF CloseAccount
  <2>2. i \in {1, 2, 3, 4, 5, 6}
    BY <2>1
  <2>. QED BY <1>8, <2>1, <2>2
<1>9. CASE op = "QueryDayBill"
  <2>1. Statements[op] = <<"select", "page">>
    BY <1>9, Lookup DEF QueryDayBill
  <2>2. i \in {1, 2}
    BY <2>1
  <2>. QED BY <1>9, <2>1, <2>2
<1>10. CASE op = "QueryHistoryBill"
  <2>1. Statements[op] = <<"select", "page">>
    BY <1>10, Lookup DEF QueryHistoryBill
  <2>2. i \in {1, 2}
    BY <2>1
  <2>. QED BY <1>10, <2>1, <2>2
<1>11. CASE op = "QueryAccountHistoryBill"
  <2>1. Statements[op] = <<"select", "page">>
    BY <1>11, Lookup DEF QueryAccountHistoryBill
  <2>2. i \in {1, 2}
    BY <2>1
  <2>. QED BY <1>11, <2>1, <2>2
<1>. QED BY Operations, <1>1, <1>2, <1>3, <1>4, <1>5, <1>6, <1>7, <1>8, <1>9, <1>10, <1>11

\* A session that has a statement to run serves a request.
LEMMA AtStatement ==
  ASSUME TypeOK, NEW s \in Sessions, Statement(s) # "none"
  PROVE  /\ req[s] \in Requests /\ req[s].op \in DOMAIN Statements
         /\ Len(Statements[req[s].op]) \in Nat /\ Replies(s) = Len(Statements[req[s].op]) + 1
         /\ pc[s] \in 1..Len(Statements[req[s].op]) /\ pc[s] + 1 <= Replies(s)
         /\ Statement(s) = Statements[req[s].op][pc[s]]
<1>1. /\ pc[s] # 0 /\ pc[s] # Replies(s) /\ pc[s] \in Nat
      /\ req[s] \in Requests /\ pc[s] <= Replies(s)
      /\ Statement(s) = Statements[req[s].op][pc[s]]
  BY DEF TypeOK, Statement
<1>2. req[s].op \in DOMAIN Statements
  BY <1>1
<1>3. Len(Statements[req[s].op]) \in Nat
  BY <1>2, Operations, Lookup DEF UserLogin, OpenAccount, Deposit, WithDraw, Transfer,
     BalanceInquiry, ChangePassword, CloseAccount, QueryDayBill, QueryHistoryBill,
     QueryAccountHistoryBill
<1>. QED BY <1>1, <1>2, <1>3 DEF Replies

\* The last place of a method is behind those at which it owns rows.
LEMMA AtReplies ==
  ASSUME NEW op \in DOMAIN Statements
  PROVE  /\ Len(Statements[op]) \in Nat \ {0}
         /\ op = "Deposit" => Len(Statements[op]) = 4
         /\ op = "WithDraw" => Len(Statements[op]) = 5
         /\ op = "Transfer" => Len(Statements[op]) = 5
         /\ op = "CloseAccount" => Len(Statements[op]) = 6
         /\ op = "OpenAccount" => Len(Statements[op]) = 3
<1>1. CASE op = "UserLogin"
  <2>1. Len(Statements[op]) = 1
    BY <1>1, Lookup DEF UserLogin
  <2>. QED BY <1>1, <2>1
<1>2. CASE op = "OpenAccount"
  <2>1. Len(Statements[op]) = 3
    BY <1>2, Lookup DEF OpenAccount
  <2>. QED BY <1>2, <2>1
<1>3. CASE op = "Deposit"
  <2>1. Len(Statements[op]) = 4
    BY <1>3, Lookup DEF Deposit
  <2>. QED BY <1>3, <2>1
<1>4. CASE op = "WithDraw"
  <2>1. Len(Statements[op]) = 5
    BY <1>4, Lookup DEF WithDraw
  <2>. QED BY <1>4, <2>1
<1>5. CASE op = "Transfer"
  <2>1. Len(Statements[op]) = 5
    BY <1>5, Lookup DEF Transfer
  <2>. QED BY <1>5, <2>1
<1>6. CASE op = "BalanceInquiry"
  <2>1. Len(Statements[op]) = 3
    BY <1>6, Lookup DEF BalanceInquiry
  <2>. QED BY <1>6, <2>1
<1>7. CASE op = "ChangePassword"
  <2>1. Len(Statements[op]) = 3
    BY <1>7, Lookup DEF ChangePassword
  <2>. QED BY <1>7, <2>1
<1>8. CASE op = "CloseAccount"
  <2>1. Len(Statements[op]) = 6
    BY <1>8, Lookup DEF CloseAccount
  <2>. QED BY <1>8, <2>1
<1>9. CASE op = "QueryDayBill"
  <2>1. Len(Statements[op]) = 2
    BY <1>9, Lookup DEF QueryDayBill
  <2>. QED BY <1>9, <2>1
<1>10. CASE op = "QueryHistoryBill"
  <2>1. Len(Statements[op]) = 2
    BY <1>10, Lookup DEF QueryHistoryBill
  <2>. QED BY <1>10, <2>1
<1>11. CASE op = "QueryAccountHistoryBill"
  <2>1. Len(Statements[op]) = 2
    BY <1>11, Lookup DEF QueryAccountHistoryBill
  <2>. QED BY <1>11, <2>1
<1>. QED BY Operations, <1>1, <1>2, <1>3, <1>4, <1>5, <1>6, <1>7, <1>8, <1>9, <1>10, <1>11
-----------------------------------------------------------------------------
(***************************************************************************)
(* What a step of s leaves alone.                                          *)
(***************************************************************************)
\* What the row of a says about its money.
SameRow(a) == /\ a \in DOMAIN accounts <=> a \in DOMAIN accounts'
              /\ a \in DOMAIN accounts => /\ accounts'[a].balance = accounts[a].balance
                                          /\ accounts'[a].flag = accounts[a].flag

\* The rows that other sessions have locked stay as they are, and locked.
RowsKept(s) == \A a \in Ids : a < nextId /\ lock[a] \in Sessions \ {s}
                                 => lock'[a] = lock[a] /\ SameRow(a)

LocalsKept(t) == /\ req'[t] = req[t] /\ pc'[t] = pc[t] /\ balance'[t] = balance[t]
                 /\ balance2'[t] = balance2[t] /\ newId'[t] = newId[t]

\* Account numbers that were given are below nextId.
LEMMA BelowNext ==
  ASSUME TypeOK
  PROVE  /\ nextId \in Nat /\ DOMAIN accounts \subseteq 1..(nextId - 1)
         /\ \A a \in 1..(nextId - 1) : a \in Ids /\ a < nextId
<1>1. nextId \in 1..(MaxId + 1) /\ MaxId \in Nat
  BY DEF TypeOK
<1>2. \A a \in 1..(nextId - 1) : a \in 1..MaxId /\ a < nextId
  BY <1>1
<1>. QED BY <1>1, <1>2 DEF TypeOK, Ids

LEMMA OthersKeep ==
  ASSUME TypeOK, NEW s \in Sessions, NEW t \in Sessions \ {s}, LockInv(t), RowsKept(s),
         LocalsKept(t), nextId' \in {nextId, nextId + 1}
  PROVE  LockInv(t)'
<1>. USE DEF LocalsKept
<1>1. \A a \in Ids : a < nextId /\ lock[a] = t => lock'[a] = t /\ SameRow(a)
  BY DEF RowsKept
<1>2. /\ nextId \in Nat /\ DOMAIN accounts \subseteq 1..(nextId - 1)
      /\ \A a \in 1..(nextId - 1) : a \in Ids /\ a < nextId
  BY BelowNext
<1>3. ASSUME NEW a, NEW b, Own(t, a, b)
      PROVE  Own(t, a, b)' /\ accounts'[a].flag = accounts[a].flag
  BY <1>1, <1>2, <1>3 DEF Own, SameRow
<1>4. (HasAccount(t)' <=> HasAccount(t)) /\ (HasOther(t)' <=> HasOther(t)) /\ (HasNew(t)' <=> HasNew(t))
  BY DEF HasAccount, HasOther, HasNew, Serving
<1>5. HasAccount(t)' => /\ Own(t, req[t].account, balance[t])'
                        /\ req[t].op = "Deposit" => accounts'[req[t].account].flag = 0
                        /\ req[t].op \in {"WithDraw", "Transfer"} => req[t].money <= balance[t]
  BY <1>3, <1>4 DEF LockInv
<1>6. HasOther(t)' => /\ Own(t, req[t].other, balance2[t])'
                      /\ accounts'[req[t].other].flag = 0
  BY <1>3, <1>4 DEF LockInv
<1>7. HasNew(t)' => /\ newId[t] \in 1..(nextId' - 1) /\ newId[t] \notin DOMAIN accounts'
                    /\ lock'[newId[t]] = t
  BY <1>1, <1>2, <1>4 DEF LockInv, SameRow
<1>8. newId[t] # 0 => req[t].op = "OpenAccount" /\ pc[t] > 1
  BY DEF LockInv
<1>. QED BY <1>5, <1>6, <1>7, <1>8 DEF LockInv, Own

\* The two tables, after a step.
TablesKept == /\ accounts' \in [DOMAIN accounts' -> Accounts]
              /\ DOMAIN accounts' \subseteq 1..(nextId' - 1)
              /\ trans' \in Seq(Rows)
              /\ nextId' \in {nextId, nextId + 1} /\ nextId' \in 1..(MaxId + 1)
              /\ RowsInv' /\ Books'

\* The types of the other variables, after a step.
LocalsOK == /\ lock' \in [Ids -> Sessions \cup {NoOne}]
            /\ req' \in [Sessions -> Requests \cup {NoRequest}]
            /\ pc' \in [Sessions -> Nat]
            /\ \A t \in Sessions : pc'[t] # 0 => req'[t] \in Requests /\ pc'[t] <= Replies(t)'
            /\ ret' \in [Sessions -> -1..6]
            /\ balance' \in [Sessions -> Nat] /\ balance2' \in [Sessions -> Nat]
            /\ newId' \in [Sessions -> 0..MaxId]
            /\ isDead_' \subseteq Sessions
            /\ received' \in 0..MaxRequests

LEMMA Combine ==
  ASSUME IInv, NEW s \in Sessions, TablesKept, LocalsOK, RowsKept(s),
         \A t \in Sessions \ {s} : LocalsKept(t), LockInv(s)'
  PROVE  IInv'
<1>1. TypeOK'
  BY DEF TypeOK, TablesKept, LocalsOK
<1>2. ASSUME NEW t \in Sessions PROVE LockInv(t)'
  <2>1. CASE t = s
    BY <2>1
  <2>2. CASE t # s
    BY <2>2, OthersKeep DEF IInv, TablesKept
  <2>. QED BY <2>1, <2>2
<1>. QED BY <1>1, <1>2 DEF IInv, TablesKept

LEMMA SameTables ==
  ASSUME IInv, UNCHANGED tables
  PROVE  TablesKept /\ \A a : SameRow(a)
<1>. USE DEF tables
<1>1. RowsInv'
  BY DEF IInv, RowsInv
<1>2. Books'
  BY DEF IInv, Books
<1>. QED BY <1>1, <1>2 DEF IInv, TypeOK, TablesKept, SameRow

\* The numbers of statements, when one session moves on.
LEMMA PcStep ==
  ASSUME TypeOK, NEW s \in Sessions, NEW k \in Nat, pc' = [pc EXCEPT ![s] = k], req' = req,
         req[s] \in Requests, k <= Replies(s)
  PROVE  /\ pc' \in [Sessions -> Nat]
         /\ \A t \in Sessions : pc'[t] # 0 => req'[t] \in Requests /\ pc'[t] <= Replies(t)'
         /\ pc'[s] = k /\ \A t \in Sessions \ {s} : pc'[t] = pc[t]
<1>1. \A t \in Sessions : Replies(t)' = Replies(t)
  BY DEF Replies
<1>2. pc' \in [Sessions -> Nat] /\ pc'[s] = k /\ \A t \in Sessions \ {s} : pc'[t] = pc[t]
  BY DEF TypeOK
<1>3. ASSUME NEW t \in Sessions, pc'[t] # 0
      PROVE  req'[t] \in Requests /\ pc'[t] <= Replies(t)'
  <2>1. CASE t = s
    BY <1>1, <1>2, <2>1
  <2>2. CASE t # s
    <3>1. pc'[t] = pc[t] /\ pc[t] # 0
      BY <1>2, <1>3, <2>2
    <3>2. req[t] \in Requests /\ pc[t] <= Replies(t)
      BY <3>1 DEF TypeOK
    <3>. QED BY <1>1, <3>1, <3>2
  <2>. QED BY <2>1, <2>2
<1>. QED BY <1>2, <1>3

\* What closing the connection of s does to the locks.
LEMMA Released ==
  ASSUME TypeOK, NEW s \in Sessions
  PROVE  /\ released(s) \in [Ids -> Sessions \cup {NoOne}]
         /\ \A a \in Ids : lock[a] \in Sessions \ {s} => released(s)[a] = lock[a]
BY DEF TypeOK, released
-----------------------------------------------------------------------------
(***************************************************************************)
(* COMMIT.                                                                 *)
(***************************************************************************)
RowsIn(T, D) == \A i \in 1..Len(T) : T[i].account \in D

LEMMA RowsInAppend ==
  ASSUME NEW T \in Seq(Rows), NEW row \in Rows, NEW D, RowsIn(T, D), row.account \in D
  PROVE  Append(T, row) \in Seq(Rows) /\ RowsIn(Append(T, row), D)
<1>. PICK n \in Nat : n = Len(T)
  BY LenProperties
<1>. PICK U : U = Append(T, row)
  OBVIOUS
<1>1. /\ U \in Seq(Rows) /\ Len(U) = n + 1
      /\ \A i \in 1..n : U[i] = T[i]
      /\ U[n + 1] = row
  BY AppendProperties
<1>2. 1..(n + 1) = 1..n \cup {n + 1}
  OBVIOUS
<1>. QED BY <1>1, <1>2 DEF RowsIn

\* Closed accounts stay closed and gain nothing.
ClosedStays == \A a \in DOMAIN accounts :
                  accounts[a].flag = 1 => /\ accounts'[a].flag = 1
                                          /\ accounts'[a].balance <= accounts[a].balance

\* What a commit of s is to do to the tables, for the lemmas below.
GoodCommit(s) == /\ accounts' \in [DOMAIN accounts' -> Accounts]
                 /\ DOMAIN accounts' \subseteq 1..(nextId - 1)
                 /\ trans' \in Seq(Rows)
                 /\ RowsIn(trans', DOMAIN accounts')
                 /\ Books'
                 /\ \A a \in Ids : a < nextId /\ lock[a] \in Sessions \ {s} => SameRow(a)
                 /\ ClosedStays

\* A row, by what it says of the money.
IsRow(row, a, b, m) == row \in Rows /\ row.account = a /\ row.balance = b /\ Signed(row) = m

LEMMA RowFields ==
  ASSUME NEW a \in Ids, NEW o \in Parties, NEW m \in Nat, NEW b \in Nat
  PROVE  /\ \A x \in {"open", "deposit", "in"} : IsRow(Row(a, o, x, m, b), a, b, m)
         /\ \A x \in {"withdraw", "out"} : IsRow(Row(a, o, x, m, b), a, b, -m)
BY DEF Row, Rows, Signed, IsRow

\* An account, by what its row says of the money.
IsAccount(q, b, f) == q \in Accounts /\ q.balance = b /\ q.flag = f

LEMMA AccountFields ==
  ASSUME NEW r \in Accounts
  PROVE  /\ IsAccount(r, r.balance, r.flag)
         /\ \A b \in Nat : IsAccount([r EXCEPT !.balance = b], b, r.flag)
         /\ IsAccount([r EXCEPT !.flag = 1], r.balance, 1)
         /\ \A p \in Passes : IsAccount([r EXCEPT !.pass = p], r.balance, r.flag)
BY DEF Accounts, IsAccount

\* The table holds other rows for D, and the old ones for the rest.
OnlyChanged(D) == /\ DOMAIN accounts' = DOMAIN accounts \cup D
                  /\ accounts' = [a \in DOMAIN accounts' |-> accounts'[a]]
                  /\ \A a \in DOMAIN accounts \ D : accounts'[a] = accounts[a]

LEMMA TableTyped ==
  ASSUME TypeOK, NEW D, OnlyChanged(D), \A a \in D : accounts'[a] \in Accounts
  PROVE  accounts' \in [DOMAIN accounts' -> Accounts]
<1>1. \A a \in DOMAIN accounts' : accounts'[a] \in Accounts
  BY DEF OnlyChanged, TypeOK
<1>. QED BY <1>1 DEF OnlyChanged

\* One balance changes, and a row says so: Deposit and WithDraw.
OneBalanceStep(s, x, b, row) ==
  /\ Own(s, x, balance[s]) /\ b \in Nat
  /\ IsRow(row, x, b, b - balance[s])
  /\ b <= balance[s] \/ accounts[x].flag = 0
  /\ OnlyChanged({x}) /\ IsAccount(accounts'[x], b, accounts[x].flag)
  /\ trans' = Append(trans, row)

LEMMA OneBalance ==
  ASSUME IInv, NEW s \in Sessions, NEW x, NEW b, NEW row, OneBalanceStep(s, x, b, row)
  PROVE  GoodCommit(s)
<1>. USE DEF IInv, OneBalanceStep, IsRow, IsAccount
<1>1. DOMAIN accounts' = DOMAIN accounts /\ x \in DOMAIN accounts /\ lock[x] = s
  BY DEF Own, OnlyChanged
<1>2. /\ \A a \in DOMAIN accounts : a # x => accounts'[a] = accounts[a]
      /\ accounts'[x].balance = b /\ accounts'[x].flag = accounts[x].flag
  BY DEF OnlyChanged
<1>3. accounts' \in [DOMAIN accounts' -> Accounts]
  BY TableTyped
<1>4. trans \in Seq(Rows) /\ RowsIn(trans, DOMAIN accounts)
  BY DEF TypeOK, RowsInv, RowsIn
<1>5. trans' \in Seq(Rows) /\ RowsIn(trans', DOMAIN accounts')
  BY <1>1, <1>4, RowsInAppend
<1>6. Books'
  <2>1. ASSUME NEW a \in DOMAIN accounts PROVE Accounted(trans', a, accounts'[a].balance)
    <3>1. Accounted(trans, a, accounts[a].balance)
      BY DEF Books
    <3>2. CASE a = x
      <4>1. row.balance = accounts[a].balance + Signed(row)
        <5>1. accounts[a].balance = balance[s] /\ balance[s] \in Nat
          BY <3>2 DEF Own, TypeOK
        <5>2. row.balance = b /\ Signed(row) = b - balance[s] /\ b \in Nat
          OBVIOUS
        <5>. QED BY ONLY <5>1, <5>2
      <4>2. Accounted(trans', a, row.balance)
        BY <1>4, <3>1, <3>2, <4>1, NextRow
      <4>. QED BY <1>2, <3>2, <4>2
    <3>3. CASE a # x
      BY <1>2, <1>4, <3>1, <3>3, OtherRow
    <3>. QED BY <3>2, <3>3
  <2>. QED BY <1>1, <2>1 DEF Books
<1>7. \A a \in Ids : a < nextId /\ lock[a] \in Sessions \ {s} => SameRow(a)
  BY <1>1, <1>2 DEF SameRow
<1>8. ClosedStays
  <2>1. \A a \in DOMAIN accounts : accounts[a].balance \in Nat
    BY DEF TypeOK, Accounts
  <2>2. accounts[x].flag = 1 => accounts'[x].balance <= accounts[x].balance
    BY <1>2 DEF Own
  <2>. QED BY <1>2, <2>1, <2>2 DEF ClosedStays
<1>9. DOMAIN accounts' \subseteq 1..(nextId - 1)
  BY <1>1 DEF TypeOK
<1>. QED BY <1>3, <1>5, <1>6, <1>7, <1>8, <1>9 DEF GoodCommit

\* Money moves between two accounts, and two rows say so.
TwoBalancesStep(s, x, y, m, p, q) ==
  /\ x # y /\ Own(s, x, balance[s]) /\ Own(s, y, balance2[s]) /\ accounts[y].flag = 0
  /\ m \in Nat /\ m <= balance[s]
  /\ IsRow(p, x, balance[s] - m, -m) /\ IsRow(q, y, balance2[s] + m, m)
  /\ OnlyChanged({x, y})
  /\ IsAccount(accounts'[x], balance[s] - m, accounts[x].flag)
  /\ IsAccount(accounts'[y], balance2[s] + m, accounts[y].flag)
  /\ trans' = Append(Append(trans, p), q)

LEMMA TwoBalances ==
  ASSUME IInv, NEW s \in Sessions, NEW x, NEW y, NEW m, NEW p, NEW q,
         TwoBalancesStep(s, x, y, m, p, q)
  PROVE  GoodCommit(s)
<1>. USE DEF IInv, TwoBalancesStep, IsRow, IsAccount
<1>1. /\ DOMAIN accounts' = DOMAIN accounts /\ x \in DOMAIN accounts /\ y \in DOMAIN accounts
      /\ lock[x] = s /\ lock[y] = s
      /\ accounts[x].balance = balance[s] /\ accounts[y].balance = balance2[s]
  BY DEF Own, OnlyChanged
<1>2. balance[s] \in Nat /\ balance2[s] \in Nat
  BY DEF TypeOK
<1>3. /\ \A a \in DOMAIN accounts : a # x /\ a # y => accounts'[a] = accounts[a]
      /\ accounts'[x].balance = balance[s] - m /\ accounts'[x].flag = accounts[x].flag
      /\ accounts'[y].balance = balance2[s] + m /\ accounts'[y].flag = accounts[y].flag
  BY DEF OnlyChanged
<1>4. accounts' \in [DOMAIN accounts' -> Accounts]
  BY TableTyped
<1>5. trans \in Seq(Rows) /\ RowsIn(trans, DOMAIN accounts)
  BY DEF TypeOK, RowsInv, RowsIn
<1>6. Append(trans, p) \in Seq(Rows) /\ RowsIn(Append(trans, p), DOMAIN accounts)
  BY <1>1, <1>5, RowsInAppend
<1>7. trans' \in Seq(Rows) /\ RowsIn(trans', DOMAIN accounts')
  BY <1>1, <1>6, RowsInAppend
<1>8. Books'
  <2>1. ASSUME NEW a \in DOMAIN accounts PROVE Accounted(trans', a, accounts'[a].balance)
    <3>1. Accounted(trans, a, accounts[a].balance)
      BY DEF Books
    <3>2. CASE a = x
      <4>1. p.balance = accounts[a].balance + Signed(p)
        BY <1>1, <1>2, <3>2
      <4>2. Accounted(Append(trans, p), a, p.balance)
        BY <1>5, <3>1, <3>2, <4>1, NextRow
      <4>. QED BY <1>3, <1>6, <3>2, <4>2, OtherRow
    <3>3. CASE a = y
      <4>1. Accounted(Append(trans, p), a, accounts[a].balance)
        BY <1>5, <3>1, <3>3, OtherRow
      <4>2. q.balance = accounts[a].balance + Signed(q)
        BY <1>1, <1>2, <3>3
      <4>3. Accounted(trans', a, q.balance)
        BY <1>6, <3>3, <4>1, <4>2, NextRow
      <4>. QED BY <1>3, <3>3, <4>3
    <3>4. CASE a # x /\ a # y
      <4>1. Accounted(Append(trans, p), a, accounts[a].balance)
        BY <1>5, <3>1, <3>4, OtherRow
      <4>. QED BY <1>3, <1>6, <3>4, <4>1, OtherRow
    <3>. QED BY <3>2, <3>3, <3>4
  <2>. QED BY <1>1, <2>1 DEF Books
<1>9. \A a \in Ids : a < nextId /\ lock[a] \in Sessions \ {s} => SameRow(a)
  BY <1>1, <1>3 DEF SameRow
<1>10. ClosedStays
  <2>1. \A a \in DOMAIN accounts : accounts[a].balance \in Nat
    BY DEF TypeOK, Accounts
  <2>2. accounts'[x].balance <= accounts[x].balance
    BY <1>1, <1>2, <1>3
  <2>3. /\ \A a \in DOMAIN accounts : a # x /\ a # y => accounts'[a] = accounts[a]
        /\ accounts'[x].flag = accounts[x].flag /\ accounts[y].flag # 1
    BY <1>3
  <2>. QED BY ONLY <2>1, <2>2, <2>3 DEF ClosedStays
<1>11. DOMAIN accounts' \subseteq 1..(nextId - 1)
  BY <1>1 DEF TypeOK
<1>. QED BY <1>4, <1>7, <1>8, <1>9, <1>10, <1>11 DEF GoodCommit

\* A new account, with its first row.
OneMoreStep(s, x, m, row) ==
  /\ x \in 1..(nextId - 1) /\ x \notin DOMAIN accounts /\ lock[x] = s
  /\ IsRow(row, x, m, m)
  /\ OnlyChanged({x}) /\ IsAccount(accounts'[x], m, 0)
  /\ trans' = Append(trans, row)

LEMMA OneMore ==
  ASSUME IInv, NEW s \in Sessions, NEW x, NEW m, NEW row, OneMoreStep(s, x, m, row)
  PROVE  GoodCommit(s)
<1>. USE DEF IInv, OneMoreStep, IsRow, IsAccount
<1>1. /\ DOMAIN accounts' = DOMAIN accounts \cup {x}
      /\ \A a \in DOMAIN accounts : a # x /\ accounts'[a] = accounts[a]
  BY DEF OnlyChanged
<1>2. accounts'[x].balance = m
  OBVIOUS
<1>3. accounts' \in [DOMAIN accounts' -> Accounts]
  BY TableTyped
<1>4. trans \in Seq(Rows) /\ RowsIn(trans, DOMAIN accounts) /\ RowsIn(trans, DOMAIN accounts')
  BY <1>1 DEF TypeOK, RowsInv, RowsIn
<1>5. trans' \in Seq(Rows) /\ RowsIn(trans', DOMAIN accounts')
  BY <1>1, <1>4, RowsInAppend
<1>6. Books'
  <2>1. ASSUME NEW a \in DOMAIN accounts PROVE Accounted(trans', a, accounts'[a].balance)
    <3>1. Accounted(trans, a, accounts[a].balance)
      BY DEF Books
    <3>. QED BY <1>1, <1>4, <3>1, OtherRow
  <2>2. Accounted(trans', x, accounts'[x].balance)
    <3>1. \A i \in 1..Len(trans) : trans[i].account # x
      BY <1>4 DEF RowsIn
    <3>2. Accounted(trans', x, row.balance)
      BY <1>4, <3>1, FirstRow
    <3>. QED BY <1>2, <3>2
  <2>. QED BY <1>1, <2>1, <2>2 DEF Books
<1>7. \A a \in Ids : a < nextId /\ lock[a] \in Sessions \ {s} => SameRow(a)
  BY <1>1 DEF SameRow
<1>8. ClosedStays
  <2>1. \A a \in DOMAIN accounts : accounts[a].balance \in Nat
    BY DEF TypeOK, Accounts
  <2>. QED BY <1>1, <2>1 DEF ClosedStays
<1>9. DOMAIN accounts' \subseteq 1..(nextId - 1)
  BY <1>1 DEF TypeOK
<1>. QED BY <1>3, <1>5, <1>6, <1>7, <1>8, <1>9 DEF GoodCommit

\* No money moves: CloseAccount, which has the row, and ChangePassword.
NoBalanceStep(s) ==
  /\ OnlyChanged(DOMAIN accounts) /\ trans' = trans
  /\ \A a \in DOMAIN accounts :
        /\ IsAccount(accounts'[a], accounts[a].balance, accounts'[a].flag)
        /\ accounts'[a].flag = accounts[a].flag \/ (accounts'[a].flag = 1 /\ lock[a] = s)

LEMMA NoBalance ==
  ASSUME IInv, NEW s \in Sessions, NoBalanceStep(s)
  PROVE  GoodCommit(s)
<1>. USE DEF IInv, NoBalanceStep, IsAccount
<1>0. DOMAIN accounts' = DOMAIN accounts
  BY DEF OnlyChanged
<1>1. accounts' \in [DOMAIN accounts' -> Accounts]
  BY TableTyped
<1>2. trans' \in Seq(Rows) /\ RowsIn(trans', DOMAIN accounts')
  BY <1>0 DEF TypeOK, RowsInv, RowsIn
<1>3. Books'
  BY <1>0 DEF Books
<1>4. \A a \in Ids : a < nextId /\ lock[a] \in Sessions \ {s} => SameRow(a)
  BY <1>0 DEF SameRow
<1>5. ClosedStays
  <2>1. \A a \in DOMAIN accounts : accounts[a].balance \in Nat
    BY DEF TypeOK, Accounts
  <2>. QED BY <1>0, <2>1 DEF ClosedStays
<1>6. DOMAIN accounts' \subseteq 1..(nextId - 1)
  BY <1>0 DEF TypeOK
<1>. QED BY <1>1, <1>2, <1>3, <1>4, <1>5, <1>6 DEF GoodCommit

(***************************************************************************)
(* The commit of each method.                                              *)
(***************************************************************************)
LEMMA CommitKeeps ==
  ASSUME IInv, NEW s \in Sessions, Statement(s) \in {"commit", "setPass"}, Committed(s)
  PROVE  GoodCommit(s) /\ nextId' = nextId
<1>. PICK r : r = req[s]
  OBVIOUS
<1>1. TypeOK /\ LockInv(s)
  BY DEF IInv
<1>2. /\ r \in Requests /\ r.op \in DOMAIN Statements /\ r.money \in Nat /\ r.other # r.account
      /\ pc[s] \in 1..Len(Statements[r.op]) /\ Statement(s) = Statements[r.op][pc[s]]
  BY <1>1, AtStatement
<1>3. \/ r.op = "OpenAccount" /\ pc[s] = 2
      \/ r.op = "Deposit" /\ pc[s] = 3
      \/ r.op = "WithDraw" /\ pc[s] = 4
      \/ r.op = "Transfer" /\ pc[s] = 5
      \/ r.op = "CloseAccount" /\ pc[s] = 5
      \/ r.op = "ChangePassword" /\ pc[s] = 3
  BY <1>2, StatementTable, SMTT(60)
<1>4. /\ accounts' = [a \in DOMAIN accounts \cup ({newId[s]} \ {0}) |-> Updated(s, a)]
      /\ trans' = trans \o Inserted(s) /\ nextId' = nextId
  BY DEF Committed
<1>5. /\ trans \in Seq(Rows) /\ balance[s] \in Nat /\ balance2[s] \in Nat
      /\ \A a \in DOMAIN accounts : a \in Ids /\ accounts[a] \in Accounts
  BY <1>1, BelowNext DEF TypeOK
<1>6. r.account \in Parties /\ r.other \in Parties /\ 0 \in Parties
  BY <1>2 DEF Parties
<1>7. r.op # "OpenAccount" => accounts' = [a \in DOMAIN accounts |-> Updated(s, a)]
  BY <1>1, <1>4 DEF LockInv
<1>8. CASE r.op = "OpenAccount"
  <2>. PICK x : x = newId[s]
    OBVIOUS
  <2>1. x \in 1..(nextId - 1) /\ x \notin DOMAIN accounts /\ lock[x] = s
    BY <1>1, <1>3, <1>8 DEF LockInv, HasNew, Serving
  <2>2. x \in Ids
    BY <1>1, <2>1, BelowNext
  <2>. PICK row : row = Row(x, 0, "open", r.money, r.money)
    OBVIOUS
  <2>3. IsRow(row, x, r.money, r.money)
    BY <1>2, <1>6, <2>2, RowFields
  <2>4. Inserted(s) = <<row>>
    BY <1>8 DEF Inserted
  <2>5. trans' = Append(trans, row)
    BY <1>4, <1>5, <2>3, <2>4, ConcatRows DEF IsRow
  <2>6. \A a : Updated(s, a) = IF a = x THEN Account(r.money, FirstPass) ELSE accounts[a]
    BY <1>8 DEF Updated
  <2>7. DOMAIN accounts \cup ({newId[s]} \ {0}) = DOMAIN accounts \cup {x}
    BY <1>1, <2>1, BelowNext
  <2>8. OnlyChanged({x}) /\ accounts'[x] = Account(r.money, FirstPass)
    BY <1>4, <2>6, <2>7 DEF OnlyChanged
  <2>9. IsAccount(accounts'[x], r.money, 0)
    BY <1>2, <2>8 DEF IsAccount, Account, Accounts, Passes
  <2>10. OneMoreStep(s, x, r.money, row)
    BY <2>1, <2>3, <2>5, <2>8, <2>9 DEF OneMoreStep
  <2>. QED BY <1>4, <2>10, OneMore
<1>9. CASE r.op = "Deposit"
  <2>. PICK x : x = r.account
    OBVIOUS
  <2>1. Own(s, x, balance[s]) /\ accounts[x].flag = 0
    BY <1>1, <1>3, <1>9 DEF LockInv, HasAccount, Serving
  <2>2. x \in DOMAIN accounts /\ x \in Ids /\ accounts[x].balance = balance[s]
    BY <1>5, <2>1 DEF Own
  <2>. PICK b : b = balance[s] + r.money
    OBVIOUS
  <2>3. b \in Nat
    BY <1>2, <1>5, SMTT(60)
  <2>. PICK row : row = Row(x, 0, "deposit", r.money, b)
    OBVIOUS
  <2>4. IsRow(row, x, b, r.money)
    BY <1>2, <1>6, <2>2, <2>3, RowFields
  <2>5. Inserted(s) = <<row>>
    BY <1>9 DEF Inserted
  <2>6. trans' = Append(trans, row)
    BY <1>4, <1>5, <2>4, <2>5, ConcatRows DEF IsRow
  <2>7. \A a \in DOMAIN accounts :
           Updated(s, a) = IF a = x THEN [accounts[a] EXCEPT !.balance = b] ELSE accounts[a]
    BY <1>9, <2>2 DEF Updated
  <2>8. OnlyChanged({x}) /\ accounts'[x] = [accounts[x] EXCEPT !.balance = b]
    BY <1>7, <1>9, <2>2, <2>7 DEF OnlyChanged
  <2>9. IsAccount(accounts'[x], b, accounts[x].flag)
    <3>. PICK o, n : o = accounts[x] /\ n = accounts'[x]
      OBVIOUS
    <3>1. o \in Accounts /\ b \in Nat /\ n = [o EXCEPT !.balance = b]
      BY <1>5, <2>2, <2>3, <2>8
    <3>2. IsAccount(n, b, o.flag)
      BY ONLY <3>1, AccountFields
    <3>. QED BY <3>2
  <2>10. r.money = b - balance[s]
    BY <1>2, <1>5
  <2>11. OneBalanceStep(s, x, b, row)
    BY <2>1, <2>3, <2>4, <2>6, <2>8, <2>9, <2>10 DEF OneBalanceStep
  <2>. QED BY <1>4, <2>11, OneBalance
<1>10. CASE r.op = "WithDraw"
  <2>. PICK x : x = r.account
    OBVIOUS
  <2>1. Own(s, x, balance[s]) /\ r.money <= balance[s]
    BY <1>1, <1>3, <1>10 DEF LockInv, HasAccount, Serving
  <2>2. x \in DOMAIN accounts /\ x \in Ids /\ accounts[x].balance = balance[s]
    BY <1>5, <2>1 DEF Own
  <2>. PICK b : b = balance[s] - r.money
    OBVIOUS
  <2>3. b \in Nat /\ b <= balance[s]
    BY <1>2, <1>5, <2>1, SMTT(60)
  <2>. PICK row : row = Row(x, 0, "withdraw", r.money, b)
    OBVIOUS
  <2>4. IsRow(row, x, b, -r.money)
    BY <1>2, <1>6, <2>2, <2>3, RowFields
  <2>5. Inserted(s) = <<row>>
    BY <1>10 DEF Inserted
  <2>6. trans' = Append(trans, row)
    BY <1>4, <1>5, <2>4, <2>5, ConcatRows DEF IsRow
  <2>7. \A a \in DOMAIN accounts :
           Updated(s, a) = IF a = x THEN [accounts[a] EXCEPT !.balance = b] ELSE accounts[a]
    BY <1>10, <2>2 DEF Updated
  <2>8. OnlyChanged({x}) /\ accounts'[x] = [accounts[x] EXCEPT !.balance = b]
    BY <1>7, <1>10, <2>2, <2>7, ZenonT(60) DEF OnlyChanged
  <2>9. IsAccount(accounts'[x], b, accounts[x].flag)
    <3>. PICK o, n : o = accounts[x] /\ n = accounts'[x]
      OBVIOUS
    <3>1. o \in Accounts /\ b \in Nat /\ n = [o EXCEPT !.balance = b]
      BY <1>5, <2>2, <2>3, <2>8
    <3>2. IsAccount(n, b, o.flag)
      BY ONLY <3>1, AccountFields
    <3>. QED BY <3>2
  <2>10. -r.money = b - balance[s]
    BY <1>2, <1>5
  <2>11. OneBalanceStep(s, x, b, row)
    BY <2>1, <2>3, <2>4, <2>6, <2>8, <2>9, <2>10 DEF OneBalanceStep
  <2>. QED BY <1>4, <2>11, OneBalance
<1>11. CASE r.op = "Transfer"
  <2>. PICK x, y : x = r.account /\ y = r.other
    OBVIOUS
  <2>1. /\ Own(s, x, balance[s]) /\ r.money <= balance[s]
        /\ Own(s, y, balance2[s]) /\ accounts[y].flag = 0
    BY <1>1, <1>3, <1>11 DEF LockInv, HasAccount, HasOther, Serving
  <2>2. /\ x \in Ids /\ y \in Ids /\ x # y
        /\ balance[s] - r.money \in Nat /\ balance2[s] + r.money \in Nat
    <3>1. x \in DOMAIN accounts /\ y \in DOMAIN accounts
      BY <2>1 DEF Own
    <3>2. x \in Ids /\ y \in Ids /\ x # y
      BY <1>2, <1>5, <3>1
    <3>3. r.money \in Nat /\ r.money <= balance[s] /\ balance[s] \in Nat /\ balance2[s] \in Nat
      BY <1>2, <1>5, <2>1
    <3>4. balance[s] - r.money \in Nat /\ balance2[s] + r.money \in Nat
      BY ONLY <3>3
    <3>. QED BY <3>2, <3>4
  <2>. PICK p, q : /\ p = Row(x, y, "out", r.money, balance[s] - r.money)
                   /\ q = Row(y, x, "in", r.money, balance2[s] + r.money)
    OBVIOUS
  <2>3. IsRow(p, x, balance[s] - r.money, -r.money)
    BY <1>2, <1>6, <2>2, RowFields
  <2>4. IsRow(q, y, balance2[s] + r.money, r.money)
    BY <1>2, <1>6, <2>2, RowFields
  <2>5. Inserted(s) = <<p, q>>
    BY <1>11 DEF Inserted
  <2>6. trans' = Append(Append(trans, p), q)
    BY <1>4, <1>5, <2>3, <2>4, <2>5, ConcatRows DEF IsRow
  <2>7. \A a \in DOMAIN accounts :
           Updated(s, a) = IF a = x THEN [accounts[a] EXCEPT !.balance = @ - r.money]
                           ELSE IF a = y THEN [accounts[a] EXCEPT !.balance = @ + r.money]
                           ELSE accounts[a]
    BY <1>11, <2>2 DEF Updated
  <2>8. /\ OnlyChanged({x, y})
        /\ accounts'[x] = [accounts[x] EXCEPT !.balance = balance[s] - r.money]
        /\ accounts'[y] = [accounts[y] EXCEPT !.balance = balance2[s] + r.money]
    <3>1. /\ x \in DOMAIN accounts /\ y \in DOMAIN accounts
          /\ accounts[x].balance = balance[s] /\ accounts[y].balance = balance2[s]
      BY <2>1 DEF Own
    <3>2. accounts' = [a \in DOMAIN accounts |-> Updated(s, a)]
      BY <1>7, <1>11
    <3>3. DOMAIN accounts' = DOMAIN accounts /\ \A a \in DOMAIN accounts : accounts'[a] = Updated(s, a)
      BY ONLY <3>2
    <3>4. /\ accounts'[x] = [accounts[x] EXCEPT !.balance = @ - r.money]
          /\ accounts'[y] = [accounts[y] EXCEPT !.balance = @ + r.money]
          /\ \A a \in DOMAIN accounts \ {x, y} : accounts'[a] = accounts[a]
      BY ONLY <2>2, <2>7, <3>1, <3>3
    <3>5. OnlyChanged({x, y})
      <4>1. accounts' = [a \in DOMAIN accounts' |-> accounts'[a]]
        BY ONLY <3>2
      <4>. QED BY ONLY <3>1, <3>3, <3>4, <4>1 DEF OnlyChanged
    <3>. QED BY ONLY <3>1, <3>4, <3>5
  <2>9. accounts[x] \in Accounts /\ accounts[y] \in Accounts
    BY <1>5, <2>1 DEF Own
  <2>10. /\ IsAccount(accounts'[x], balance[s] - r.money, accounts[x].flag)
         /\ IsAccount(accounts'[y], balance2[s] + r.money, accounts[y].flag)
    <3>. PICK o, n, b : o = accounts[x] /\ n = accounts'[x] /\ b = balance[s] - r.money
      OBVIOUS
    <3>. PICK q1, n1, b1 : /\ q1 = accounts[y] /\ n1 = accounts'[y] /\ b1 = balance2[s] + r.money
      OBVIOUS
    <3>1. o \in Accounts /\ b \in Nat /\ n = [o EXCEPT !.balance = b]
      BY <2>2, <2>8, <2>9
    <3>2. q1 \in Accounts /\ b1 \in Nat /\ n1 = [q1 EXCEPT !.balance = b1]
      BY <2>2, <2>8, <2>9
    <3>3. IsAccount(n, b, o.flag)
      BY ONLY <3>1, AccountFields
    <3>4. IsAccount(n1, b1, q1.flag)
      BY ONLY <3>2, AccountFields
    <3>. QED BY <3>3, <3>4
  <2>11. TwoBalancesStep(s, x, y, r.money, p, q)
    BY <1>2, <2>1, <2>2, <2>3, <2>4, <2>6, <2>8, <2>10 DEF TwoBalancesStep
  <2>. QED BY <1>4, <2>11, TwoBalances
<1>12. CASE r.op = "CloseAccount"
  <2>1. lock[r.account] = s
    BY <1>1, <1>3, <1>12 DEF LockInv, HasAccount, Serving, Own
  <2>2. Inserted(s) = <<>>
    BY <1>12 DEF Inserted
  <2>3. trans' = trans
    BY <1>4, <1>5, <2>2, ConcatRows
  <2>4. \A a \in DOMAIN accounts :
           Updated(s, a) = IF a = r.account THEN [accounts[a] EXCEPT !.flag = 1] ELSE accounts[a]
    BY <1>12 DEF Updated
  <2>5. OnlyChanged(DOMAIN accounts) /\ \A a \in DOMAIN accounts : accounts'[a] = Updated(s, a)
    BY <1>7, <1>12 DEF OnlyChanged
  <2>6. ASSUME NEW a \in DOMAIN accounts
        PROVE  /\ IsAccount(accounts'[a], accounts[a].balance, accounts'[a].flag)
               /\ accounts'[a].flag = accounts[a].flag \/ (accounts'[a].flag = 1 /\ lock[a] = s)
    <3>1. \/ accounts'[a] = accounts[a]
          \/ a = r.account /\ accounts'[a] = [accounts[a] EXCEPT !.flag = 1]
      BY <2>4, <2>5
    <3>2. \/ IsAccount(accounts'[a], accounts[a].balance, accounts[a].flag)
          \/ a = r.account /\ IsAccount(accounts'[a], accounts[a].balance, 1)
      BY <1>5, <3>1, AccountFields
    <3>. QED BY <2>1, <3>2 DEF IsAccount
  <2>7. NoBalanceStep(s)
    BY <2>3, <2>5, <2>6 DEF NoBalanceStep
  <2>. QED BY <1>4, <2>7, NoBalance
<1>13. CASE r.op = "ChangePassword"
  <2>1. Inserted(s) = <<>>
    BY <1>13 DEF Inserted
  <2>2. trans' = trans
    BY <1>4, <1>5, <2>1, ConcatRows
  <2>3. \A a \in DOMAIN accounts :
           Updated(s, a) = IF a = r.account THEN [accounts[a] EXCEPT !.pass = r.newPass] ELSE accounts[a]
    BY <1>13 DEF Updated
  <2>4. r.newPass \in Passes
    BY <1>2 DEF Passes
  <2>5. OnlyChanged(DOMAIN accounts) /\ \A a \in DOMAIN accounts : accounts'[a] = Updated(s, a)
    BY <1>7, <1>13 DEF OnlyChanged
  <2>6. ASSUME NEW a \in DOMAIN accounts
        PROVE  /\ IsAccount(accounts'[a], accounts[a].balance, accounts'[a].flag)
               /\ accounts'[a].flag = accounts[a].flag \/ (accounts'[a].flag = 1 /\ lock[a] = s)
    <3>1. \/ accounts'[a] = accounts[a]
          \/ a = r.account /\ accounts'[a] = [accounts[a] EXCEPT !.pass = r.newPass]
      BY <2>3, <2>5
    <3>2. \/ IsAccount(accounts'[a], accounts[a].balance, accounts[a].flag)
          \/ a = r.account /\ IsAccount(accounts'[a], accounts[a].balance, accounts[a].flag)
      BY <1>5, <2>4, <3>1, AccountFields, ZenonT(60)
    <3>. QED BY <3>2 DEF IsAccount
  <2>7. NoBalanceStep(s)
    BY <2>2, <2>5, <2>6 DEF NoBalanceStep
  <2>. QED BY <1>4, <2>7, NoBalance
<1>. QED BY <1>3, <1>8, <1>9, <1>10, <1>11, <1>12, <1>13
-----------------------------------------------------------------------------
(***************************************************************************)
(* The ways to go on.                                                      *)
(***************************************************************************)
\* The rows others have locked stay as they are.
OthersRows(s) == \A a \in Ids : a < nextId /\ lock[a] \in Sessions \ {s} => SameRow(a)

\* A commit, or none, as the steps below need it.
LEMMA TablesAfter ==
  ASSUME IInv, NEW s \in Sessions,
         \/ UNCHANGED tables
         \/ Statement(s) \in {"commit", "setPass"} /\ Committed(s)
  PROVE  TablesKept /\ OthersRows(s) /\ ClosedStays
<1>1. CASE UNCHANGED tables
  <2>1. \A a \in DOMAIN accounts : accounts[a].balance \in Nat
    BY DEF IInv, TypeOK, Accounts
  <2>2. ClosedStays
    BY <1>1, <2>1 DEF ClosedStays, tables
  <2>. QED BY <1>1, <2>2, SameTables DEF OthersRows
<1>2. CASE Statement(s) \in {"commit", "setPass"} /\ Committed(s)
  <2>1. GoodCommit(s) /\ nextId' = nextId
    BY <1>2, CommitKeeps
  <2>2. nextId' \in {nextId, nextId + 1} /\ nextId' \in 1..(MaxId + 1)
    BY <2>1 DEF IInv, TypeOK
  <2>3. RowsInv'
    BY <2>1 DEF GoodCommit, RowsIn, RowsInv
  <2>. QED BY <2>1, <2>2, <2>3 DEF GoodCommit, TablesKept, OthersRows
<1>. QED BY <1>1, <1>2

\* The method returns.
LEMMA ReturnsKeeps ==
  ASSUME IInv, NEW s \in Sessions, NEW c \in -1..6, req[s] \in Requests, Returns(s, c),
         TablesKept, OthersRows(s), UNCHANGED <<req, locals, isDead_, received>>
  PROVE  IInv'
<1>1. TypeOK /\ LockInv(s)
  BY DEF IInv
<1>2. req' = req /\ balance' = balance /\ balance2' = balance2 /\ newId' = newId
      /\ isDead_' = isDead_ /\ received' = received
  BY DEF locals
<1>3. req[s].op \in DOMAIN Statements /\ Replies(s) = Len(Statements[req[s].op]) + 1
  BY DEF Replies
<1>4. Replies(s) \in Nat /\ Replies(s) > 1
  BY <1>3, AtReplies
<1>5. /\ pc' \in [Sessions -> Nat]
      /\ \A t \in Sessions : pc'[t] # 0 => req'[t] \in Requests /\ pc'[t] <= Replies(t)'
      /\ pc'[s] = Replies(s) /\ \A t \in Sessions \ {s} : pc'[t] = pc[t]
  <2>. PICK k : k = Replies(s)
    OBVIOUS
  <2>1. k \in Nat /\ k <= Replies(s) /\ pc' = [pc EXCEPT ![s] = k]
    BY <1>4 DEF Returns
  <2>. QED BY <1>1, <1>2, <2>1, PcStep
<1>6. LocalsOK
  <2>1. lock' \in [Ids -> Sessions \cup {NoOne}]
    BY <1>1, Released DEF Returns
  <2>2. ret' \in [Sessions -> -1..6]
    BY <1>1 DEF Returns, TypeOK
  <2>. QED BY <1>1, <1>2, <1>5, <2>1, <2>2 DEF LocalsOK, TypeOK
<1>7. RowsKept(s)
  BY <1>1, Released DEF Returns, OthersRows, RowsKept
<1>8. LockInv(s)'
  <2>1. ~HasAccount(s)' /\ ~HasOther(s)' /\ ~HasNew(s)'
    <3>. PICK op, k, n : op = req[s].op /\ k = pc'[s] /\ n = Len(Statements[op])
      OBVIOUS
    <3>0. k = n + 1 /\ n \in Nat
      BY <1>3, <1>5, AtReplies
    <3>1. /\ op = "Deposit" => n = 4
          /\ op = "WithDraw" => n = 5
          /\ op = "Transfer" => n = 5
          /\ op = "CloseAccount" => n = 6
          /\ op = "OpenAccount" => n = 3
      BY <1>3, AtReplies
    <3>2. /\ op = "Deposit" => k = 5
          /\ op = "WithDraw" => k = 6
          /\ op = "Transfer" => k = 6
          /\ op = "CloseAccount" => k = 7
          /\ op = "OpenAccount" => k = 4
      BY ONLY <3>0, <3>1
    <3>3. ~HasAccount(s)'
      BY <1>2, <3>2 DEF HasAccount, Serving
    <3>4. ~HasOther(s)' /\ ~HasNew(s)'
      BY <1>2, <3>2 DEF HasOther, HasNew, Serving
    <3>. QED BY <3>3, <3>4
  <2>2. newId'[s] # 0 => req'[s].op = "OpenAccount" /\ pc'[s] > 1
    BY <1>1, <1>2, <1>4, <1>5 DEF LockInv
  <2>. QED BY <2>1, <2>2 DEF LockInv
<1>9. \A t \in Sessions \ {s} : LocalsKept(t)
  BY <1>2, <1>5 DEF LocalsKept
<1>. QED BY <1>6, <1>7, <1>8, <1>9, Combine

\* The request is over.
LEMMA ForgetsKeeps ==
  ASSUME IInv, NEW s \in Sessions, Forgets({s}), TablesKept, OthersRows(s),
         lock' \in {lock, released(s)}, isDead_' \subseteq Sessions, received' = received
  PROVE  IInv'
<1>1. TypeOK
  BY DEF IInv
<1>2. /\ pc' \in [Sessions -> Nat] /\ ret' \in [Sessions -> -1..6]
      /\ balance' \in [Sessions -> Nat] /\ balance2' \in [Sessions -> Nat]
      /\ newId' \in [Sessions -> 0..MaxId]
  BY <1>1 DEF Forgets, TypeOK
<1>3. req' \in [Sessions -> Requests \cup {NoRequest}]
  BY <1>1 DEF Forgets, TypeOK
<1>4. \A t \in Sessions \ {s} : LocalsKept(t)
  BY DEF Forgets, LocalsKept
<1>5. pc'[s] = 0 /\ newId'[s] = 0
  BY DEF Forgets
<1>6. ASSUME NEW t \in Sessions, pc'[t] # 0
      PROVE  req'[t] \in Requests /\ pc'[t] <= Replies(t)'
  <2>1. t # s
    BY <1>5, <1>6
  <2>2. req'[t] = req[t] /\ pc'[t] = pc[t]
    BY <1>4, <2>1 DEF LocalsKept
  <2>. QED BY <1>1, <1>6, <2>2 DEF TypeOK, Replies
<1>7. /\ lock' \in [Ids -> Sessions \cup {NoOne}]
      /\ \A a \in Ids : lock[a] \in Sessions \ {s} => lock'[a] = lock[a]
  BY <1>1, Released DEF TypeOK
<1>8. received' \in 0..MaxRequests
  BY <1>1 DEF TypeOK
<1>9. LocalsOK
  BY <1>2, <1>3, <1>6, <1>7, <1>8 DEF LocalsOK
<1>10. RowsKept(s)
  BY <1>7 DEF OthersRows, RowsKept
<1>11. LockInv(s)'
  BY <1>5 DEF LockInv, HasAccount, HasOther, HasNew, Serving
<1>. QED BY <1>4, <1>9, <1>10, <1>11, Combine

\* The values a statement of s may leave in the local variables and the locks.
StatementFrame(s) ==
  /\ req' = req /\ isDead_' = isDead_ /\ received' = received
  /\ balance' \in [Sessions -> Nat] /\ balance2' \in [Sessions -> Nat]
  /\ newId' \in [Sessions -> 0..MaxId]
  /\ \A t \in Sessions \ {s} :
        balance'[t] = balance[t] /\ balance2'[t] = balance2[t] /\ newId'[t] = newId[t]
  /\ lock' \in [Ids -> Sessions \cup {NoOne}]
  /\ \A a \in Ids : a < nextId /\ lock[a] \in Sessions \ {s} => lock'[a] = lock[a]

\* The next statement's turn.
LEMMA AdvancesKeeps ==
  ASSUME IInv, NEW s \in Sessions, Statement(s) # "none", Advances(s), TablesKept, OthersRows(s),
         StatementFrame(s), LockInv(s)'
  PROVE  IInv'
<1>. USE DEF StatementFrame
<1>1. TypeOK
  BY DEF IInv
<1>2. req[s] \in Requests /\ pc[s] \in Nat /\ pc[s] + 1 <= Replies(s)
  BY <1>1, AtStatement DEF TypeOK
<1>3. /\ pc' \in [Sessions -> Nat]
      /\ \A t \in Sessions : pc'[t] # 0 => req'[t] \in Requests /\ pc'[t] <= Replies(t)'
      /\ pc'[s] = pc[s] + 1 /\ \A t \in Sessions \ {s} : pc'[t] = pc[t]
  <2>. PICK k : k = pc[s] + 1
    OBVIOUS
  <2>1. k \in Nat /\ k <= Replies(s) /\ pc' = [pc EXCEPT ![s] = k]
    BY <1>2 DEF Advances
  <2>. QED BY <1>1, <1>2, <2>1, PcStep
<1>4. LocalsOK
  BY <1>1, <1>3 DEF LocalsOK, TypeOK, Advances
<1>5. RowsKept(s)
  BY DEF OthersRows, RowsKept
<1>6. \A t \in Sessions \ {s} : LocalsKept(t)
  BY <1>3 DEF LocalsKept
<1>. QED BY <1>4, <1>5, <1>6, Combine

\* Where s is when it runs a statement, and then.
LEMMA Turn ==
  ASSUME IInv, NEW s \in Sessions, Statement(s) # "none", Advances(s)
  PROVE  pc'[s] = pc[s] + 1 /\ pc[s] \in Nat \ {0}
<1>1. TypeOK
  BY DEF IInv
<1>2. pc \in [Sessions -> Nat] /\ pc[s] \in Nat /\ pc[s] # 0
  BY <1>1 DEF TypeOK, Statement
<1>. QED BY <1>2 DEF Advances
-----------------------------------------------------------------------------
(***************************************************************************)
(* The actions.                                                            *)
(***************************************************************************)
\* Where a session is that runs a statement other than SELECT and UPDATE.
LEMMA Place ==
  ASSUME TypeOK, NEW s \in Sessions, Statement(s) # "none"
  PROVE  LET x == Statement(s)
             op == req[s].op
             i == pc[s]
         IN  /\ x = "lock" => op = "Deposit" /\ i = 1
             /\ x = "insert" => op = "OpenAccount" /\ i = 1
             /\ x = "flag" => i = 1 /\ op # "Deposit" /\ op # "OpenAccount"
             /\ x = "pass" => i = 2 /\ op # "Deposit" /\ op # "OpenAccount"
             /\ x = "other" => op = "Transfer" /\ i = 3
             /\ x = "setPass" => op = "ChangePassword" /\ i = 3
             /\ x = "teller" => op = "UserLogin" /\ i = 1
             /\ x = "page" => op \in Bills /\ i = 2
             /\ x = "update" => \/ op = "Deposit" /\ i = 2
                                \/ op = "WithDraw" /\ i = 3
                                \/ op \in {"Transfer", "CloseAccount"} /\ i = 4
             /\ x = "commit" => \/ op = "OpenAccount" /\ i = 2
                                \/ op = "Deposit" /\ i = 3
                                \/ op = "WithDraw" /\ i = 4
                                \/ op \in {"Transfer", "CloseAccount"} /\ i = 5
             /\ x = "select" => \/ op \in {"OpenAccount", "BalanceInquiry"} /\ i = 3
                                \/ op = "Deposit" /\ i = 4
                                \/ op = "WithDraw" /\ i = 5
                                \/ op = "CloseAccount" /\ i \in {3, 6}
                                \/ op \in Bills /\ i = 1
<1>. PICK op, i, x : op = req[s].op /\ i = pc[s] /\ x = Statement(s)
  OBVIOUS
<1>1. op \in DOMAIN Statements /\ i \in 1..Len(Statements[op]) /\ x = Statements[op][i]
  BY AtStatement
<1>2. x \in {"flag", "pass"} =>
         op \in {"WithDraw", "Transfer", "BalanceInquiry", "ChangePassword", "CloseAccount"}
  BY ONLY <1>1, StatementTable
<1>3. x \in {"flag", "pass"} => op # "Deposit" /\ op # "OpenAccount"
  BY ONLY <1>2
<1>4. /\ x = "lock" => op = "Deposit" /\ i = 1
      /\ x = "insert" => op = "OpenAccount" /\ i = 1
      /\ x = "flag" => i = 1
      /\ x = "pass" => i = 2
      /\ x = "other" => op = "Transfer" /\ i = 3
      /\ x = "setPass" => op = "ChangePassword" /\ i = 3
      /\ x = "teller" => op = "UserLogin" /\ i = 1
      /\ x = "page" => op \in Bills /\ i = 2
  BY ONLY <1>1, StatementTable
<1>5. x = "update" => \/ op = "Deposit" /\ i = 2
                      \/ op = "WithDraw" /\ i = 3
                      \/ op \in {"Transfer", "CloseAccount"} /\ i = 4
  BY ONLY <1>1, StatementTable
<1>6. x = "commit" => \/ op = "OpenAccount" /\ i = 2
                      \/ op = "Deposit" /\ i = 3
                      \/ op = "WithDraw" /\ i = 4
                      \/ op \in {"Transfer", "CloseAccount"} /\ i = 5
  BY ONLY <1>1, StatementTable
<1>7. x = "select" => \/ op \in {"OpenAccount", "BalanceInquiry"} /\ i = 3
                      \/ op = "Deposit" /\ i = 4
                      \/ op = "WithDraw" /\ i = 5
                      \/ op = "CloseAccount" /\ i \in {3, 6}
                      \/ op \in Bills /\ i = 1
  BY ONLY <1>1, StatementTable
<1>. QED BY <1>3, <1>4, <1>5, <1>6, <1>7, Zenon

\* A session owns afterwards what it owned before, or less.
OwnsNoMore(s) == /\ HasAccount(s)' => HasAccount(s)
                 /\ HasOther(s)' => HasOther(s)
                 /\ HasNew(s)' => HasNew(s)

\* A statement that only reads.
LEMMA ReadKeeps ==
  ASSUME IInv, NEW s \in Sessions, Statement(s) # "none", Advances(s), OwnsNoMore(s),
         UNCHANGED <<tables, lock, locals, req, isDead_, received>>
  PROVE  IInv'
<1>1. TypeOK /\ LockInv(s)
  BY DEF IInv
<1>2. /\ accounts' = accounts /\ trans' = trans /\ nextId' = nextId /\ lock' = lock /\ req' = req
      /\ balance' = balance /\ balance2' = balance2 /\ newId' = newId
      /\ isDead_' = isDead_ /\ received' = received
  BY DEF tables, locals
<1>3. TablesKept /\ OthersRows(s)
  BY TablesAfter
<1>4. StatementFrame(s)
  BY <1>1, <1>2 DEF StatementFrame, TypeOK
<1>5. pc'[s] = pc[s] + 1 /\ pc[s] \in Nat \ {0}
  BY Turn
<1>6. LockInv(s)'
  <2>1. /\ Own(s, req[s].account, balance[s])' <=> Own(s, req[s].account, balance[s])
        /\ Own(s, req[s].other, balance2[s])' <=> Own(s, req[s].other, balance2[s])
    BY <1>2 DEF Own
  <2>2. HasAccount(s)' => /\ Own(s, req[s].account, balance[s])'
                          /\ req'[s].op = "Deposit" => accounts'[req'[s].account].flag = 0
                          /\ req'[s].op \in {"WithDraw", "Transfer"} => req'[s].money <= balance'[s]
    BY <1>1, <1>2, <2>1 DEF LockInv, OwnsNoMore
  <2>3. HasOther(s)' => Own(s, req[s].other, balance2[s])' /\ accounts'[req'[s].other].flag = 0
    BY <1>1, <1>2, <2>1 DEF LockInv, OwnsNoMore
  <2>4. HasNew(s)' => /\ newId'[s] \in 1..(nextId' - 1) /\ newId'[s] \notin DOMAIN accounts'
                      /\ lock'[newId'[s]] = s
    BY <1>1, <1>2 DEF LockInv, OwnsNoMore
  <2>5. newId'[s] # 0 => req'[s].op = "OpenAccount" /\ pc'[s] > 1
    BY <1>1, <1>2, <1>5 DEF LockInv
  <2>. QED BY <2>2, <2>3, <2>4, <2>5 DEF LockInv
<1>. QED BY <1>3, <1>4, <1>6, AdvancesKeeps

LEMMA ReadPlaces ==
  ASSUME IInv, NEW s \in Sessions, Advances(s), req' = req,
         Statement(s) \in {"teller", "flag", "select", "page"}
  PROVE  OwnsNoMore(s)
<1>. PICK op, i, k, x : op = req[s].op /\ i = pc[s] /\ k = pc'[s] /\ x = Statement(s)
  OBVIOUS
<1>1. k = i + 1 /\ i \in Nat
  BY Turn
<1>2. \/ i = 1 /\ op # "Deposit" /\ op # "OpenAccount"
      \/ op \in Bills
      \/ op = "OpenAccount" /\ i = 3
      \/ op = "BalanceInquiry"
      \/ op = "Deposit" /\ i = 4
      \/ op = "WithDraw" /\ i = 5
      \/ op = "CloseAccount" /\ i \in {3, 6}
  BY Place DEF IInv
<1>3. HasAccount(s)' => HasAccount(s)
  <2>. DEFINE Has(j) == \/ op = "Deposit" /\ j \in 2..3
                        \/ op = "WithDraw" /\ j \in 3..4
                        \/ op \in {"Transfer", "CloseAccount"} /\ j \in 3..5
  <2>1. HasAccount(s)' => Has(k)
    BY DEF HasAccount, Serving
  <2>2. Has(i) => HasAccount(s)
    BY DEF HasAccount, Serving
  <2>3. Has(k) => Has(i)
    BY ONLY <1>1, <1>2 DEF Bills
  <2>. QED BY <2>1, <2>2, <2>3
<1>4. HasOther(s)' => HasOther(s)
  BY <1>1, <1>2 DEF HasOther, Serving, Bills
<1>5. HasNew(s)' => HasNew(s)
  BY <1>1, <1>2 DEF HasNew, Serving, Bills
<1>. QED BY <1>3, <1>4, <1>5 DEF OwnsNoMore

\* The row a statement needs is free, or the session's own.
LEMMA RowFree ==
  ASSUME NEW s \in Sessions, Granted(s)
  PROVE  /\ Statement(s) \in {"lock", "update"} /\ req[s].account \in Ids
              => lock[req[s].account] \in {s, NoOne}
         /\ Statement(s) = "pass" /\ req[s].op \in LocksByPass /\ req[s].account \in Ids
              => lock[req[s].account] \in {s, NoOne}
         /\ Statement(s) = "other" /\ req[s].other \in Ids => lock[req[s].other] \in {s, NoOne}
<1>1. Statement(s) \in {"lock", "update"} => RowWanted(s) = req[s].account
  BY DEF RowWanted
<1>2. Statement(s) = "pass" /\ req[s].op \in LocksByPass => RowWanted(s) = req[s].account
  BY DEF RowWanted
<1>3. Statement(s) = "other" => RowWanted(s) = req[s].other
  BY DEF RowWanted
<1>. QED BY <1>1, <1>2, <1>3 DEF Granted

\* A row is locked for s.
LEMMA RowTaken ==
  ASSUME TypeOK, NEW s \in Sessions, NEW a \in Ids, lock' = locked(s, a), lock[a] \in {s, NoOne}
  PROVE  /\ lock' \in [Ids -> Sessions \cup {NoOne}] /\ lock'[a] = s
         /\ \A x \in Ids : lock[x] \in Sessions \ {s} => lock'[x] = lock[x]
         /\ \A x \in Ids : lock[x] = s => lock'[x] = s
BY DEF TypeOK, locked

LEMMA TellerKeeps ==
  ASSUME IInv, NEW s \in Sessions, queryTeller(s)
  PROVE  IInv'
<1>1. Statement(s) = "teller" /\ UNCHANGED <<req, isDead_, received>> /\ UNCHANGED <<tables, locals>>
  BY DEF queryTeller, Runs
<1>2. req[s] \in Requests /\ TablesKept /\ OthersRows(s)
  BY <1>1, AtStatement, TablesAfter DEF IInv
<1>3. CASE Advances(s) /\ UNCHANGED lock
  BY <1>1, <1>3, ReadPlaces, ReadKeeps
<1>4. CASE Returns(s, 1)
  BY <1>1, <1>2, <1>4, ReturnsKeeps
<1>. QED BY <1>3, <1>4 DEF queryTeller

LEMMA FlagKeeps ==
  ASSUME IInv, NEW s \in Sessions, queryFlag(s)
  PROVE  IInv'
<1>1. Statement(s) = "flag" /\ UNCHANGED <<req, isDead_, received>> /\ UNCHANGED <<tables, locals>>
  BY DEF queryFlag, Runs
<1>2. req[s] \in Requests /\ TablesKept /\ OthersRows(s)
  BY <1>1, AtStatement, TablesAfter DEF IInv
<1>3. CASE Advances(s) /\ UNCHANGED lock
  BY <1>1, <1>3, ReadPlaces, ReadKeeps
<1>4. CASE Returns(s, 2)
  BY <1>1, <1>2, <1>4, ReturnsKeeps
<1>. QED BY <1>3, <1>4 DEF queryFlag

LEMMA SelectKeeps ==
  ASSUME IInv, NEW s \in Sessions, querySelect(s)
  PROVE  IInv'
<1>1. /\ Statement(s) = "select" /\ Advances(s) /\ UNCHANGED <<req, isDead_, received>>
      /\ UNCHANGED <<tables, lock, locals>>
  BY DEF querySelect, Runs
<1>. QED BY <1>1, ReadPlaces, ReadKeeps

LEMMA PageKeeps ==
  ASSUME IInv, NEW s \in Sessions, queryPage(s)
  PROVE  IInv'
<1>1. Statement(s) = "page" /\ UNCHANGED <<req, isDead_, received>> /\ UNCHANGED <<tables, locals>>
  BY DEF queryPage, Runs
<1>2. req[s] \in Requests /\ TablesKept /\ OthersRows(s)
  BY <1>1, AtStatement, TablesAfter DEF IInv
<1>3. CASE Advances(s) /\ UNCHANGED lock
  BY <1>1, <1>3, ReadPlaces, ReadKeeps
<1>4. CASE Returns(s, 6)
  BY <1>1, <1>2, <1>4, ReturnsKeeps
<1>. QED BY <1>3, <1>4 DEF queryPage

\* SELECT ... FOR UPDATE of WithDraw, Transfer and CloseAccount.
LEMMA PassKeeps ==
  ASSUME IInv, NEW s \in Sessions, queryPass(s)
  PROVE  IInv'
<1>. PICK r, a : r = req[s] /\ a = req[s].account
  OBVIOUS
<1>1. /\ Statement(s) = "pass" /\ Granted(s) /\ UNCHANGED <<req, isDead_, received>>
      /\ UNCHANGED <<tables, balance2, newId>>
  BY DEF queryPass, Runs
<1>2. TypeOK /\ LockInv(s)
  BY DEF IInv
<1>3. r \in Requests /\ TablesKept /\ OthersRows(s) /\ r.money \in Nat
  BY <1>1, <1>2, AtStatement, TablesAfter
<1>4. CASE Returns(s, 3) /\ UNCHANGED balance
  BY <1>1, <1>3, <1>4, ReturnsKeeps DEF locals
<1>5. CASE Returns(s, 4) /\ UNCHANGED balance
  BY <1>1, <1>3, <1>5, ReturnsKeeps DEF locals
<1>6. CASE /\ PassFits(a, r.pass) /\ Enough(s)
           /\ balance' = [balance EXCEPT ![s] = accounts[a].balance]
           /\ lock' = IF r.op \in LocksByPass THEN locked(s, a) ELSE lock
           /\ Advances(s)
  <2>1. /\ accounts' = accounts /\ trans' = trans /\ nextId' = nextId /\ req' = req
        /\ balance2' = balance2 /\ newId' = newId /\ isDead_' = isDead_ /\ received' = received
    BY <1>1 DEF tables
  <2>2. a \in DOMAIN accounts /\ a \in Ids /\ accounts[a].balance \in Nat
    BY <1>2, <1>6, BelowNext DEF PassFits, TypeOK, Accounts
  <2>3. balance' \in [Sessions -> Nat] /\ balance'[s] = accounts[a].balance
        /\ \A t \in Sessions \ {s} : balance'[t] = balance[t]
    BY <1>2, <1>6, <2>2 DEF TypeOK
  <2>4. /\ lock' \in [Ids -> Sessions \cup {NoOne}]
        /\ \A x \in Ids : lock[x] \in Sessions \ {s} => lock'[x] = lock[x]
        /\ r.op \in LocksByPass => lock'[a] = s
    <3>1. CASE r.op \in LocksByPass
      BY <1>1, <1>2, <1>6, <2>2, <3>1, RowFree, RowTaken
    <3>2. CASE r.op \notin LocksByPass
      BY <1>2, <1>6, <3>2 DEF TypeOK
    <3>. QED BY <3>1, <3>2
  <2>5. StatementFrame(s)
    BY <1>2, <2>1, <2>3, <2>4 DEF StatementFrame, TypeOK
  <2>6. pc'[s] = 3 /\ r.op # "Deposit" /\ r.op # "OpenAccount"
    BY <1>1, <1>2, <1>6, Turn, Place
  <2>7. LockInv(s)'
    <3>1. ~HasOther(s)' /\ ~HasNew(s)'
      BY <2>1, <2>6 DEF HasOther, HasNew, Serving
    <3>2. HasAccount(s)' => r.op \in LocksByPass
      BY <2>1, <2>6 DEF HasAccount, Serving, LocksByPass
    <3>3. r.op \in LocksByPass => Own(s, req[s].account, balance[s])'
      BY <2>1, <2>2, <2>3, <2>4 DEF Own
    <3>4. r.op \in {"WithDraw", "Transfer"} => r.money <= balance'[s]
      BY <1>6, <2>3 DEF Enough
    <3>5. newId'[s] = 0
      BY <1>2, <2>1, <2>6 DEF LockInv
    <3>. QED BY <2>1, <2>6, <3>1, <3>2, <3>3, <3>4, <3>5 DEF LockInv
  <2>. QED BY <1>1, <1>3, <1>6, <2>5, <2>7, AdvancesKeeps
<1>. QED BY <1>4, <1>5, <1>6 DEF queryPass

\* SELECT ... FOR UPDATE of Deposit.
LEMMA ForUpdateKeeps ==
  ASSUME IInv, NEW s \in Sessions, queryForUpdate(s)
  PROVE  IInv'
<1>. PICK r, a : r = req[s] /\ a = req[s].account
  OBVIOUS
<1>1. /\ Statement(s) = "lock" /\ Granted(s) /\ UNCHANGED <<req, isDead_, received>>
      /\ UNCHANGED <<tables, balance2, newId>>
  BY DEF queryForUpdate, Runs
<1>2. TypeOK /\ LockInv(s)
  BY DEF IInv
<1>3. r \in Requests /\ TablesKept /\ OthersRows(s)
  BY <1>1, <1>2, AtStatement, TablesAfter
<1>4. CASE Returns(s, 2) /\ UNCHANGED balance
  BY <1>1, <1>3, <1>4, ReturnsKeeps DEF locals
<1>5. CASE /\ Exists(a) /\ balance' = [balance EXCEPT ![s] = accounts[a].balance]
           /\ lock' = locked(s, a) /\ Advances(s)
  <2>1. /\ accounts' = accounts /\ trans' = trans /\ nextId' = nextId /\ req' = req
        /\ balance2' = balance2 /\ newId' = newId /\ isDead_' = isDead_ /\ received' = received
    BY <1>1 DEF tables
  <2>2. a \in DOMAIN accounts /\ a \in Ids /\ accounts[a].balance \in Nat /\ accounts[a].flag = 0
    BY <1>2, <1>5, BelowNext DEF Exists, TypeOK, Accounts
  <2>3. balance' \in [Sessions -> Nat] /\ balance'[s] = accounts[a].balance
        /\ \A t \in Sessions \ {s} : balance'[t] = balance[t]
    BY <1>2, <1>5, <2>2 DEF TypeOK
  <2>4. /\ lock' \in [Ids -> Sessions \cup {NoOne}] /\ lock'[a] = s
        /\ \A x \in Ids : lock[x] \in Sessions \ {s} => lock'[x] = lock[x]
    BY <1>1, <1>2, <1>5, <2>2, RowFree, RowTaken
  <2>5. StatementFrame(s)
    BY <1>2, <2>1, <2>3, <2>4 DEF StatementFrame, TypeOK
  <2>6. pc'[s] = 2 /\ r.op = "Deposit"
    BY <1>1, <1>2, <1>5, Turn, Place
  <2>7. LockInv(s)'
    <3>1. ~HasOther(s)' /\ ~HasNew(s)'
      BY <2>1, <2>6 DEF HasOther, HasNew, Serving
    <3>2. Own(s, req[s].account, balance[s])' /\ accounts'[a].flag = 0
      BY <2>1, <2>2, <2>3, <2>4 DEF Own
    <3>3. newId'[s] = 0
      BY <1>2, <2>1, <2>6 DEF LockInv
    <3>. QED BY <2>1, <2>6, <3>1, <3>2, <3>3 DEF LockInv
  <2>. QED BY <1>1, <1>3, <1>5, <2>5, <2>7, AdvancesKeeps
<1>. QED BY <1>4, <1>5 DEF queryForUpdate

\* SELECT ... FOR UPDATE of the account that a transfer goes to.
LEMMA OtherKeeps ==
  ASSUME IInv, NEW s \in Sessions, queryOther(s)
  PROVE  IInv'
<1>. PICK r, a : r = req[s] /\ a = req[s].other
  OBVIOUS
<1>1. /\ Statement(s) = "other" /\ Granted(s) /\ UNCHANGED <<req, isDead_, received>>
      /\ UNCHANGED <<tables, balance, newId>>
  BY DEF queryOther, Runs
<1>2. TypeOK /\ LockInv(s)
  BY DEF IInv
<1>3. r \in Requests /\ TablesKept /\ OthersRows(s)
  BY <1>1, <1>2, AtStatement, TablesAfter
<1>4. CASE Returns(s, 5) /\ UNCHANGED balance2
  BY <1>1, <1>3, <1>4, ReturnsKeeps DEF locals
<1>5. CASE /\ Exists(a) /\ balance2' = [balance2 EXCEPT ![s] = accounts[a].balance]
           /\ lock' = locked(s, a) /\ Advances(s)
  <2>1. /\ accounts' = accounts /\ trans' = trans /\ nextId' = nextId /\ req' = req
        /\ balance' = balance /\ newId' = newId /\ isDead_' = isDead_ /\ received' = received
    BY <1>1 DEF tables
  <2>2. a \in DOMAIN accounts /\ a \in Ids /\ accounts[a].balance \in Nat /\ accounts[a].flag = 0
    BY <1>2, <1>5, BelowNext DEF Exists, TypeOK, Accounts
  <2>3. balance2' \in [Sessions -> Nat] /\ balance2'[s] = accounts[a].balance
        /\ \A t \in Sessions \ {s} : balance2'[t] = balance2[t]
    BY <1>2, <1>5, <2>2 DEF TypeOK
  <2>4. /\ lock' \in [Ids -> Sessions \cup {NoOne}] /\ lock'[a] = s
        /\ \A x \in Ids : lock[x] \in Sessions \ {s} => lock'[x] = lock[x]
        /\ \A x \in Ids : lock[x] = s => lock'[x] = s
    BY <1>1, <1>2, <1>5, <2>2, RowFree, RowTaken
  <2>5. StatementFrame(s)
    BY <1>2, <2>1, <2>3, <2>4 DEF StatementFrame, TypeOK
  <2>6. pc[s] = 3 /\ pc'[s] = 4 /\ r.op = "Transfer"
    BY <1>1, <1>2, <1>5, Turn, Place
  <2>7. LockInv(s)'
    <3>1. ~HasNew(s)'
      BY <2>1, <2>6 DEF HasNew, Serving
    <3>2. Own(s, r.account, balance[s]) /\ r.money <= balance[s]
      BY <1>2, <2>6 DEF LockInv, HasAccount, Serving
    <3>3. Own(s, req[s].account, balance[s])' /\ r.money <= balance'[s]
      BY <1>2, <2>1, <2>4, <3>2, BelowNext DEF Own
    <3>4. Own(s, req[s].other, balance2[s])' /\ accounts'[a].flag = 0
      BY <2>1, <2>2, <2>3, <2>4 DEF Own
    <3>5. newId'[s] = 0
      BY <1>2, <2>1, <2>6 DEF LockInv
    <3>. QED BY <2>1, <2>6, <3>1, <3>3, <3>4, <3>5 DEF LockInv
  <2>. QED BY <1>1, <1>3, <1>5, <2>5, <2>7, AdvancesKeeps
<1>. QED BY <1>4, <1>5 DEF queryOther

\* INSERT of a new account.
LEMMA InsertKeeps ==
  ASSUME IInv, NEW s \in Sessions, insertAccount(s)
  PROVE  IInv'
<1>1. /\ Statement(s) = "insert" /\ Advances(s) /\ nextId \in Ids
      /\ req' = req /\ isDead_' = isDead_ /\ received' = received
      /\ accounts' = accounts /\ trans' = trans /\ balance' = balance /\ balance2' = balance2
      /\ newId' = [newId EXCEPT ![s] = nextId] /\ nextId' = nextId + 1
      /\ lock' = [lock EXCEPT ![nextId] = s]
  BY DEF insertAccount, Runs
<1>2. TypeOK /\ LockInv(s)
  BY DEF IInv
<1>3. /\ MaxId \in Nat /\ nextId \in 1..MaxId /\ nextId' \in 1..(MaxId + 1)
      /\ nextId' \in {nextId, nextId + 1} /\ DOMAIN accounts \subseteq 1..(nextId - 1)
  BY <1>1, <1>2, BelowNext DEF Ids
<1>4. nextId \notin DOMAIN accounts /\ DOMAIN accounts' \subseteq 1..(nextId' - 1)
      /\ nextId \in 1..(nextId' - 1)
  BY <1>1, <1>3
<1>5. TablesKept /\ OthersRows(s)
  <2>1. RowsInv' /\ Books'
    BY <1>1 DEF IInv, RowsInv, Books
  <2>2. \A a : SameRow(a)
    BY <1>1 DEF SameRow
  <2>. QED BY <1>1, <1>2, <1>3, <1>4, <2>1, <2>2 DEF TablesKept, OthersRows, TypeOK
<1>6. StatementFrame(s)
  <2>1. newId' \in [Sessions -> 0..MaxId] /\ \A t \in Sessions \ {s} : newId'[t] = newId[t]
    BY <1>1, <1>2, <1>3, SMTT(60) DEF TypeOK
  <2>2. /\ lock' \in [Ids -> Sessions \cup {NoOne}]
        /\ \A a \in Ids : a # nextId => lock'[a] = lock[a]
    BY <1>1, <1>2 DEF TypeOK
  <2>3. \A a \in Ids : a < nextId => a # nextId
    BY <1>3
  <2>. QED BY <1>1, <1>2, <2>1, <2>2, <2>3 DEF StatementFrame, TypeOK
<1>7. pc'[s] = 2 /\ req[s].op = "OpenAccount"
  BY <1>1, <1>2, Turn, Place
<1>8. LockInv(s)'
  <2>1. ~HasAccount(s)' /\ ~HasOther(s)'
    BY <1>1, <1>7 DEF HasAccount, HasOther, Serving
  <2>2. newId'[s] = nextId /\ lock'[nextId] = s
    BY <1>1, <1>2 DEF TypeOK
  <2>. QED BY <1>1, <1>4, <1>7, <2>1, <2>2 DEF LockInv
<1>. QED BY <1>1, <1>5, <1>6, <1>8, AdvancesKeeps

\* UPDATE: the session has the row already.
LEMMA UpdateKeeps ==
  ASSUME IInv, NEW s \in Sessions, update(s)
  PROVE  IInv'
<1>1. /\ Statement(s) = "update" /\ Advances(s) /\ UNCHANGED <<req, isDead_, received>>
      /\ UNCHANGED <<tables, locals>> /\ lock' = [lock EXCEPT ![req[s].account] = s]
  BY DEF update, Runs
<1>2. TypeOK /\ LockInv(s)
  BY DEF IInv
<1>. PICK op, i, k : op = req[s].op /\ i = pc[s] /\ k = pc'[s]
  OBVIOUS
<1>3. k = i + 1 /\ i \in Nat
  BY <1>1, Turn
<1>4. \/ op = "Deposit" /\ i = 2
      \/ op = "WithDraw" /\ i = 3
      \/ op = "Transfer" /\ i = 4
      \/ op = "CloseAccount" /\ i = 4
  BY <1>1, <1>2, Place
<1>5. HasAccount(s)
  BY <1>4 DEF HasAccount, Serving
<1>6. lock' = lock
  <2>1. lock[req[s].account] = s
    BY <1>2, <1>5 DEF LockInv, Own
  <2>. QED BY <1>1, <1>2, <2>1 DEF TypeOK
<1>7. HasOther(s)' => HasOther(s)
  BY <1>1, <1>3, <1>4 DEF HasOther, Serving
<1>8. ~HasNew(s)'
  BY <1>1, <1>4 DEF HasNew, Serving
<1>. QED BY <1>1, <1>5, <1>6, <1>7, <1>8, ReadKeeps DEF OwnsNoMore

\* COMMIT, and the UPDATE of ChangePassword that commits by itself.
LEMMA CommitStepKeeps ==
  ASSUME IInv, NEW s \in Sessions, Statement(s) \in {"commit", "setPass"}, Committed(s),
         Advances(s), lock' \in {lock, released(s)},
         UNCHANGED <<req, isDead_, received>>, UNCHANGED locals
  PROVE  IInv'
<1>1. TypeOK /\ LockInv(s)
  BY DEF IInv
<1>2. TablesKept /\ OthersRows(s)
  BY TablesAfter
<1>3. /\ req' = req /\ isDead_' = isDead_ /\ received' = received
      /\ balance' = balance /\ balance2' = balance2 /\ newId' = newId
  BY DEF locals
<1>4. /\ lock' \in [Ids -> Sessions \cup {NoOne}]
      /\ \A a \in Ids : lock[a] \in Sessions \ {s} => lock'[a] = lock[a]
  <2>1. CASE lock' = lock
    BY <1>1, <2>1 DEF TypeOK
  <2>2. CASE lock' = released(s)
    BY <1>1, <2>2, Released
  <2>. QED BY <2>1, <2>2
<1>5. StatementFrame(s)
  BY <1>1, <1>3, <1>4 DEF StatementFrame, TypeOK
<1>. PICK op, i, k : op = req[s].op /\ i = pc[s] /\ k = pc'[s]
  OBVIOUS
<1>6. k = i + 1 /\ i \in Nat \ {0}
  BY Turn
<1>7. \/ op = "OpenAccount" /\ i = 2
      \/ op = "Deposit" /\ i = 3
      \/ op = "WithDraw" /\ i = 4
      \/ op = "Transfer" /\ i = 5
      \/ op = "CloseAccount" /\ i = 5
      \/ op = "ChangePassword" /\ i = 3
  BY <1>1, Place
<1>8. LockInv(s)'
  <2>1. ~HasAccount(s)'
    <3>1. HasAccount(s)' => \/ op = "Deposit" /\ k \in 2..3
                            \/ op = "WithDraw" /\ k \in 3..4
                            \/ op \in {"Transfer", "CloseAccount"} /\ k \in 3..5
      BY <1>3 DEF HasAccount, Serving
    <3>. QED BY ONLY <1>6, <1>7, <3>1
  <2>2. ~HasOther(s)'
    BY <1>3, <1>6, <1>7 DEF HasOther, Serving
  <2>3. ~HasNew(s)'
    BY <1>3, <1>6, <1>7 DEF HasNew, Serving
  <2>4. newId'[s] # 0 => req'[s].op = "OpenAccount" /\ pc'[s] > 1
    BY <1>1, <1>3, <1>6 DEF LockInv
  <2>. QED BY <2>1, <2>2, <2>3, <2>4 DEF LockInv
<1>. QED BY <1>2, <1>5, <1>8, AdvancesKeeps

LEMMA ReceiveKeeps ==
  ASSUME IInv, NEW s \in Sessions, NEW r \in Requests, receive(s, r)
  PROVE  IInv'
<1>1. TypeOK /\ LockInv(s)
  BY DEF IInv
<1>2. /\ pc[s] = 0 /\ received < MaxRequests /\ received' = received + 1
      /\ req' = [req EXCEPT ![s] = r] /\ pc' = [pc EXCEPT ![s] = 1] /\ ret' = [ret EXCEPT ![s] = 0]
      /\ UNCHANGED tables /\ lock' = lock /\ isDead_' = isDead_
      /\ balance' = balance /\ balance2' = balance2 /\ newId' = newId
  BY DEF receive, locals
<1>3. TablesKept /\ \A a : SameRow(a)
  BY <1>2, SameTables
<1>4. /\ pc' \in [Sessions -> Nat] /\ req' \in [Sessions -> Requests \cup {NoRequest}]
      /\ pc'[s] = 1 /\ req'[s] = r
      /\ \A t \in Sessions \ {s} : pc'[t] = pc[t] /\ req'[t] = req[t]
  BY <1>1, <1>2 DEF TypeOK
<1>5. ASSUME NEW t \in Sessions, pc'[t] # 0
      PROVE  req'[t] \in Requests /\ pc'[t] <= Replies(t)'
  <2>1. CASE t = s
    <3>. PICK n : n = Len(Statements[r.op])
      OBVIOUS
    <3>1. n \in Nat
      BY AtReplies
    <3>2. Replies(s)' = n + 1
      BY <1>4 DEF Replies
    <3>. QED BY <1>4, <2>1, <3>1, <3>2
  <2>2. CASE t # s
    BY <1>1, <1>4, <1>5, <2>2 DEF TypeOK, Replies
  <2>. QED BY <2>1, <2>2
<1>6. received' \in 0..MaxRequests
  BY <1>1, <1>2 DEF TypeOK
<1>7. ret' \in [Sessions -> -1..6]
  BY <1>1, <1>2 DEF TypeOK
<1>8. LocalsOK
  BY <1>1, <1>2, <1>4, <1>5, <1>6, <1>7 DEF LocalsOK, TypeOK
<1>9. RowsKept(s) /\ \A t \in Sessions \ {s} : LocalsKept(t)
  BY <1>2, <1>3, <1>4 DEF RowsKept, LocalsKept
<1>10. LockInv(s)'
  <2>1. ~HasAccount(s)' /\ ~HasOther(s)' /\ ~HasNew(s)'
    BY <1>4 DEF HasAccount, HasOther, HasNew, Serving
  <2>2. newId'[s] = 0
    BY <1>1, <1>2 DEF LockInv
  <2>. QED BY <2>1, <2>2 DEF LockInv
<1>. QED BY <1>3, <1>8, <1>9, <1>10, Combine

\* Only isDead_ changes.
LEMMA ThrowsKeeps ==
  ASSUME IInv, isDead_' \subseteq Sessions,
         UNCHANGED <<tables, lock, req, pc, ret, locals, received>>
  PROVE  IInv'
<1>. USE DEF tables, locals
<1>1. TypeOK'
  BY DEF IInv, TypeOK, Replies
<1>2. RowsInv' /\ Books'
  BY DEF IInv, RowsInv, Books
<1>3. ASSUME NEW s \in Sessions PROVE LockInv(s)'
  BY DEF IInv, LockInv, HasAccount, HasOther, HasNew, Serving, Own
<1>. QED BY <1>1, <1>2, <1>3 DEF IInv

\* A statement fails.
LEMMA FailsKeeps ==
  ASSUME IInv, NEW s \in Sessions, statementFails(s)
  PROVE  IInv'
<1>1. Statement(s) # "none" /\ received' = received
  BY DEF statementFails
<1>2. TablesKept /\ OthersRows(s)
  BY TablesAfter DEF statementFails
<1>3. TypeOK
  BY DEF IInv
<1>4. CASE isDead_' = isDead_ \cup {s} /\ lock' = released(s) /\ Forgets({s})
  BY <1>1, <1>2, <1>3, <1>4, ForgetsKeeps DEF TypeOK
<1>5. CASE Returns(s, -1) /\ UNCHANGED <<req, locals, isDead_>>
  BY <1>1, <1>2, <1>3, <1>5, AtStatement, ReturnsKeeps
<1>. QED BY <1>4, <1>5 DEF statementFails

\* The server goes down, or the method returns.
LEMMA OpenFailsKeeps ==
  ASSUME IInv, NEW s \in Sessions, openFails(s)
  PROVE  IInv'
<1>1. pc[s] = 1 /\ UNCHANGED tables /\ received' = received
  BY DEF openFails
<1>2. TypeOK /\ req[s] \in Requests
  <2>1. TypeOK
    BY DEF IInv
  <2>2. \A t \in Sessions : pc[t] # 0 => req[t] \in Requests
    BY <2>1 DEF TypeOK
  <2>3. pc[s] # 0
    BY <1>1
  <2>. QED BY <2>1, <2>2, <2>3
<1>3. TablesKept /\ OthersRows(s)
  BY <1>1, TablesAfter
<1>4. CASE isDead_' = Sessions /\ lock' = [a \in Ids |-> NoOne] /\ Forgets(Sessions)
  <2>1. /\ pc' = [t \in Sessions |-> 0] /\ ret' = [t \in Sessions |-> 0]
        /\ req' = [t \in Sessions |-> NoRequest] /\ balance' = [t \in Sessions |-> 0]
        /\ balance2' = [t \in Sessions |-> 0] /\ newId' = [t \in Sessions |-> 0]
    BY <1>4 DEF Forgets
  <2>2. TypeOK'
    <3>1. LocalsOK
      BY <1>1, <1>2, <1>4, <2>1 DEF LocalsOK, TypeOK
    <3>. QED BY <1>3, <3>1 DEF TypeOK, LocalsOK, TablesKept
  <2>3. ASSUME NEW t \in Sessions PROVE LockInv(t)'
    BY <2>1 DEF LockInv, HasAccount, HasOther, HasNew, Serving
  <2>. QED BY <1>3, <2>2, <2>3 DEF IInv, TablesKept
<1>5. CASE Returns(s, -1) /\ UNCHANGED <<req, locals, isDead_>>
  BY <1>1, <1>2, <1>3, <1>5, ReturnsKeeps
<1>. QED BY <1>4, <1>5 DEF openFails
-----------------------------------------------------------------------------
(***************************************************************************)
(* The theorems.                                                           *)
(***************************************************************************)
LEMMA InitInv == Init => IInv
<1>. SUFFICES ASSUME Init PROVE IInv
  OBVIOUS
<1>. PICK n : n = Len(Opening)
  OBVIOUS
<1>1. n \in Nat /\ MaxId \in Nat /\ n <= MaxId /\ MaxRequests \in Nat /\ n + 1 \in 1..(MaxId + 1)
      /\ \A a \in 1..n : a \in Ids /\ Opening[a] \in Nat
  BY DEF Ids
<1>2. /\ accounts = [a \in 1..n |-> Account(Opening[a], FirstPass)]
      /\ trans = [a \in 1..n |-> Row(a, 0, "open", Opening[a], Opening[a])]
      /\ nextId = n + 1
  BY DEF Init
<1>3. \A a \in 1..n : Account(Opening[a], FirstPass) \in Accounts
  BY <1>1 DEF Account, Accounts, Passes
<1>4. \A a \in 1..n : IsRow(Row(a, 0, "open", Opening[a], Opening[a]), a, Opening[a], Opening[a])
  <2>1. 0 \in Parties
    BY DEF Parties
  <2>. QED BY <1>1, <2>1, RowFields
<1>5. trans \in Seq(Rows) /\ Len(trans) = n
  <2>1. trans \in [1..n -> Rows]
    BY <1>2, <1>4 DEF IsRow
  <2>. QED BY <1>1, <2>1
<1>6. /\ DOMAIN accounts = 1..n /\ accounts \in [DOMAIN accounts -> Accounts]
      /\ 1..n = 1..(nextId - 1)
  BY <1>1, <1>2, <1>3
<1>7. TypeOK
  BY <1>1, <1>2, <1>5, <1>6 DEF Init, TypeOK
<1>8. RowsInv
  <2>1. \A a \in 1..n : trans[a].account = a
    BY <1>2, <1>4 DEF IsRow
  <2>. QED BY <1>5, <1>6, <2>1 DEF RowsInv
<1>9. Books
  <2>. SUFFICES ASSUME NEW a \in 1..n PROVE Accounted(trans, a, accounts[a].balance)
    BY <1>6 DEF Books
  <2>1. RowsOf(trans, a) = {a}
    BY <1>2, <1>4, <1>5 DEF RowsOf, IsRow
  <2>2. trans[a].balance = Opening[a] /\ Signed(trans[a]) = Opening[a]
    BY <1>2, <1>4 DEF IsRow
  <2>3. accounts[a].balance = Opening[a]
    BY <1>2 DEF Account
  <2>. QED BY <2>1, <2>2, <2>3 DEF Accounted
<1>10. ASSUME NEW s \in Sessions PROVE LockInv(s)
  BY DEF Init, LockInv, HasAccount, HasOther, HasNew, Serving
<1>. QED BY <1>7, <1>8, <1>9, <1>10 DEF IInv

LEMMA NextInv == IInv /\ [Next]_vars => IInv'
<1>. SUFFICES ASSUME IInv, [Next]_vars PROVE IInv'
  OBVIOUS
<1>1. CASE UNCHANGED vars
  BY <1>1, ThrowsKeeps DEF vars, IInv, TypeOK
<1>2. ASSUME NEW s \in Sessions, NEW r \in Requests, receive(s, r) PROVE IInv'
  BY <1>2, ReceiveKeeps
<1>3. ASSUME NEW s \in Sessions, recvThrows(s) PROVE IInv'
  BY <1>3, ThrowsKeeps DEF recvThrows, IInv, TypeOK
<1>4. ASSUME NEW s \in Sessions, Serves(s) PROVE IInv'
  <2>1. CASE commit(s)
    BY <2>1, CommitStepKeeps DEF commit, Runs
  <2>2. CASE setPass(s)
    BY <2>2, CommitStepKeeps DEF setPass, Runs
  <2>3. CASE reply(s)
    BY <2>3, TablesAfter, ForgetsKeeps DEF reply, IInv, TypeOK
  <2>. QED BY <1>4, <2>1, <2>2, <2>3, TellerKeeps, FlagKeeps, PassKeeps, ForUpdateKeeps,
           OtherKeeps, InsertKeeps, UpdateKeeps, SelectKeeps, PageKeeps DEF Serves
<1>5. ASSUME NEW s \in Sessions, statementFails(s) PROVE IInv'
  BY <1>5, FailsKeeps
<1>6. ASSUME NEW s \in Sessions, openFails(s) PROVE IInv'
  BY <1>6, OpenFailsKeeps
<1>. QED BY <1>1, <1>2, <1>3, <1>4, <1>5, <1>6 DEF Next

(***************************************************************************)
(* Whatever the order in which sessions run their statements, and          *)
(* whichever of these fail, a session's row is still what it read when it  *)
(* commits.                                                                *)
(***************************************************************************)
THEOREM Inductive == Spec => []IInv
BY InitInv, NextInv, PTL DEF Spec

(***************************************************************************)
(* No balance is ever negative, although WithDraw and Transfer test it in  *)
(* one statement and reduce it in another; no account number is given      *)
(* twice.                                                                  *)
(***************************************************************************)
THEOREM Typed == Spec => []TypeOK
<1>1. IInv => TypeOK
  BY DEF IInv
<1>. QED BY <1>1, Inductive, PTL

(***************************************************************************)
(* bank_account and trans agree: no deposit, withdrawal or transfer is     *)
(* lost between the SELECT whose balance a row of trans is computed from   *)
(* and the commit.                                                         *)
(***************************************************************************)
THEOREM BooksBalance == Spec => []Books
<1>1. IInv => Books
  BY DEF IInv
<1>. QED BY <1>1, Inductive, PTL

\* Only a commit changes bank_account.
LEMMA StepCloses == IInv /\ [Next]_vars => ClosedStays
<1>. SUFFICES ASSUME IInv, [Next]_vars PROVE ClosedStays
  OBVIOUS
<1>1. CASE accounts' = accounts
  <2>1. \A a \in DOMAIN accounts : accounts[a].balance \in Nat
    BY DEF IInv, TypeOK, Accounts
  <2>. QED BY <1>1, <2>1 DEF ClosedStays
<1>2. ASSUME NEW s \in Sessions, Statement(s) \in {"commit", "setPass"}, Committed(s)
      PROVE  ClosedStays
  BY <1>2, TablesAfter
<1>3. \/ accounts' = accounts
      \/ \E s \in Sessions : Statement(s) \in {"commit", "setPass"} /\ Committed(s)
  <2>1. CASE UNCHANGED vars
    BY <2>1 DEF vars, tables
  <2>2. ASSUME NEW s \in Sessions, Serves(s)
        PROVE  accounts' = accounts \/ (Statement(s) \in {"commit", "setPass"} /\ Committed(s))
    BY <2>2 DEF Serves, queryTeller, queryFlag, queryPass, queryForUpdate, queryOther,
       insertAccount, update, commit, setPass, querySelect, queryPage, reply, Runs, tables
  <2>3. ASSUME NEW s \in Sessions, statementFails(s)
        PROVE  accounts' = accounts \/ (Statement(s) \in {"commit", "setPass"} /\ Committed(s))
    BY <2>3 DEF statementFails, tables
  <2>. QED BY <2>1, <2>2, <2>3 DEF Next, receive, recvThrows, openFails, tables
<1>. QED BY <1>1, <1>2, <1>3

(***************************************************************************)
(* Nothing is paid into a closed account, by whichever session and however *)
(* its statements fall between those of CloseAccount.                      *)
(***************************************************************************)
THEOREM ClosedGainsNothing == Spec => NoMoneyIntoClosed
<1>1. IInv /\ [Next]_vars
        => [\A a \in DOMAIN accounts :
              accounts[a].flag = 1 => /\ accounts'[a].flag = 1
                                      /\ accounts'[a].balance <= accounts[a].balance]_vars
  BY StepCloses DEF ClosedStays
<1>. QED BY <1>1, Inductive, PTL DEF Spec, NoMoneyIntoClosed
=============================================================================
