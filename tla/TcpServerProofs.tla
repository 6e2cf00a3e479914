-------------------------- MODULE TcpServerProofs --------------------------
(***************************************************************************)
(* Proofs about TcpServer and TcpConnection, for any pool, any number of   *)
(* connections, any program that uses the server and any size of the       *)
(* buffer.                                                                 *)
(***************************************************************************)
EXTENDS TcpServer, FiniteSetTheorems, SequenceTheorems, TLAPS

-----------------------------------------------------------------------------
(***************************************************************************)
(* Sequences of functors.  Shift(P, Q, d, N): Q is P without its first d   *)
(* functors, followed by those of N, of which only connectDestroyed may be *)
(* there twice.                                                            *)
(***************************************************************************)
Shift(P, Q, d, N) ==
  /\ \A j \in 1..Len(Q) : \/ j + d \in 1..Len(P) /\ Q[j] = P[j + d]
                          \/ j + d > Len(P) /\ Q[j] \in N
  /\ \A i \in 1..Len(P) : i > d => i - d \in 1..Len(Q) /\ Q[i - d] = P[i]
  /\ \A f \in N : \E j \in 1..Len(Q) : Q[j] = f
  /\ \A j, k \in 1..Len(Q) :
        j + d > Len(P) /\ k + d > Len(P) /\ Q[j] = Q[k] => j = k \/ Q[j].op = "connectDestroyed"

LEMMA WaitsKept ==
  ASSUME NEW P, NEW Q, Len(P) \in Nat, Len(Q) \in Nat, NEW d \in {0, 1}, NEW N,
         Shift(P, Q, d, N), NEW op, NEW c, Waits(P, op, c),
         d = 1 => P[1] # Functor(op, c)
  PROVE  Waits(Q, op, c)
<1>1. PICK i \in 1..Len(P) : P[i] = Functor(op, c)
  BY DEF Waits
<1>2. i > d
  BY <1>1
<1>3. i - d \in 1..Len(Q) /\ Q[i - d] = P[i]
  BY <1>2 DEF Shift
<1>. QED BY <1>1, <1>3 DEF Waits

LEMMA WaitsNew ==
  ASSUME NEW P, NEW Q, NEW d, NEW N, Shift(P, Q, d, N),
         NEW op, NEW c, Functor(op, c) \in N
  PROVE  Waits(Q, op, c)
BY DEF Shift, Waits

LEMMA WaitsOld ==
  ASSUME NEW P, NEW Q, NEW d, NEW N, Shift(P, Q, d, N),
         NEW op, NEW c, Waits(Q, op, c)
  PROVE  Waits(P, op, c) \/ Functor(op, c) \in N
<1>1. PICK j \in 1..Len(Q) : Q[j] = Functor(op, c)
  BY DEF Waits
<1>2. \/ j + d \in 1..Len(P) /\ Q[j] = P[j + d]
      \/ Q[j] \in N
  BY DEF Shift
<1>. QED BY <1>1, <1>2 DEF Waits

LEMMA UniqueKept ==
  ASSUME NEW P, NEW Q, Len(P) \in Nat, Len(Q) \in Nat, NEW d \in {0, 1}, NEW N,
         Shift(P, Q, d, N), NEW op, NEW c, op # "connectDestroyed",
         Unique(P, op, c), Functor(op, c) \in N => ~Waits(P, op, c)
  PROVE  Unique(Q, op, c)
<1>1. SUFFICES ASSUME NEW i \in 1..Len(Q), NEW j \in 1..Len(Q),
                      Q[i] = Functor(op, c), Q[j] = Functor(op, c)
               PROVE  i = j
  BY DEF Unique
<1>2. Functor(op, c).op # "connectDestroyed"
  BY DEF Functor
<1>3. CASE i + d \in 1..Len(P) /\ j + d \in 1..Len(P)
  <2>1. P[i + d] = Functor(op, c) /\ P[j + d] = Functor(op, c)
    BY <1>1, <1>3 DEF Shift
  <2>2. i + d = j + d
    BY <1>3, <2>1 DEF Unique
  <2>. QED BY <2>2
<1>4. CASE i + d \notin 1..Len(P) /\ j + d \notin 1..Len(P)
  BY <1>1, <1>2, <1>4 DEF Shift
<1>5. CASE i + d \in 1..Len(P) /\ j + d \notin 1..Len(P)
  BY <1>1, <1>5 DEF Shift, Waits
<1>6. CASE i + d \notin 1..Len(P) /\ j + d \in 1..Len(P)
  BY <1>1, <1>6 DEF Shift, Waits
<1>. QED BY <1>3, <1>4, <1>5, <1>6

LEMMA CalledGone ==
  ASSUME NEW P, NEW Q, Len(P) \in Nat, Len(Q) \in Nat, NEW N,
         Shift(P, Q, 1, N), NEW op, NEW c, P[1] = Functor(op, c), Len(P) > 0,
         Unique(P, op, c), Functor(op, c) \notin N
  PROVE  ~Waits(Q, op, c)
<1>1. SUFFICES ASSUME NEW j \in 1..Len(Q), Q[j] = Functor(op, c) PROVE FALSE
  BY DEF Waits
<1>2. j + 1 \in 1..Len(P) /\ P[j + 1] = Functor(op, c)
  BY <1>1 DEF Shift
<1>3. j + 1 = 1
  BY <1>2 DEF Unique
<1>. QED BY <1>3

LEMMA FirstKept ==
  ASSUME NEW P, NEW Q, Len(P) \in Nat, Len(Q) \in Nat, NEW d \in {0, 1}, NEW N,
         Shift(P, Q, d, N), NEW c, EstablishedFirst(P, c),
         d = 1 => P[1] # Functor("connectEstablished", c),
         Functor("connectDestroyed", c) \in N => Waits(P, "connectEstablished", c)
  PROVE  EstablishedFirst(Q, c)
<1>1. SUFFICES ASSUME NEW i \in 1..Len(Q), Q[i] = Functor("connectDestroyed", c)
               PROVE  \E j \in 1..(i - 1) : Q[j] = Functor("connectEstablished", c)
  BY DEF EstablishedFirst
<1>2. PICK k \in 1..Len(P) : P[k] = Functor("connectEstablished", c) /\ k < i + d
  <2>1. CASE i + d \in 1..Len(P) /\ Q[i] = P[i + d]
    <3>1. PICK k \in 1..((i + d) - 1) : P[k] = Functor("connectEstablished", c)
      BY <1>1, <2>1 DEF EstablishedFirst
    <3>. QED BY <2>1, <3>1, SMTT(60)
  <2>2. CASE i + d > Len(P) /\ Q[i] \in N
    <3>1. PICK k \in 1..Len(P) : P[k] = Functor("connectEstablished", c)
      BY <1>1, <2>2 DEF Waits
    <3>. QED BY <2>2, <3>1
  <2>. QED BY <2>1, <2>2 DEF Shift
<1>3. k > d
  BY <1>2
<1>4. k - d \in 1..Len(Q) /\ Q[k - d] = P[k]
  BY <1>3 DEF Shift
<1>5. k - d \in 1..(i - 1)
  BY <1>2, <1>3, <1>4
<1>. QED BY <1>2, <1>4, <1>5

LEMMA DestroyedNotFirst ==
  ASSUME NEW P, Len(P) \in Nat, Len(P) > 0, NEW c, EstablishedFirst(P, c)
  PROVE  P[1] # Functor("connectDestroyed", c)
BY DEF EstablishedFirst
-----------------------------------------------------------------------------
(***************************************************************************)
(* How Left changes.                                                       *)
(***************************************************************************)
IsLeft(P, b, m, n, q, k) ==
  /\ m \in Nat /\ n \in Nat /\ k \in Nat /\ n <= m
  /\ Len(P) = (m - n) + k
  /\ \A i \in 1..(m - n) : P[i] = b[n + i]
  /\ \A i \in 1..k : P[(m - n) + i] = q[i]

LEMMA LeftShape ==
  ASSUME NEW S, NEW b \in Seq(S), NEW q \in Seq(S), NEW n \in Nat, n <= Len(b)
  PROVE  IsLeft(Left(b, n, q), b, Len(b), n, q, Len(q))
<1>. DEFINE r == SubSeq(b, n + 1, Len(b))
<1>. PICK m \in Nat, k \in Nat : m = Len(b) /\ k = Len(q)
  BY LenProperties
<1>1. r \in Seq(S) /\ Len(r) = m - n /\ \A i \in 1..(m - n) : r[i] = b[n + i]
  <2>1. r = [i \in 1..(m - n) |-> b[n + i]]
    <3>1. (1 + m) - (n + 1) = m - n
      OBVIOUS
    <3>2. \A i \in 1..(m - n) : ((n + 1) + i) - 1 = n + i
      OBVIOUS
    <3>. QED BY <3>1, <3>2, SubSeqProperties
  <2>2. \A i \in 1..(m - n) : n + i \in 1..m
    OBVIOUS
  <2>3. \A i \in 1..(m - n) : b[n + i] \in S
    BY <2>2, ElementOfSeq
  <2>4. m - n \in Nat
    OBVIOUS
  <2>5. r \in [1..(m - n) -> S]
    BY <2>1, <2>3
  <2>. QED BY <2>1, <2>4, <2>5
<1>. HIDE DEF r
<1>2. Len(r \o q) = (m - n) + k
  BY <1>1, ConcatProperties
<1>3. \A i \in 1..(m - n) : (r \o q)[i] = b[n + i]
  BY <1>1, ConcatProperties
<1>4. ASSUME NEW i \in 1..k PROVE (r \o q)[(m - n) + i] = q[i]
  <2>. PICK j \in Nat : j = (m - n) + i
    OBVIOUS
  <2>1. j \in 1..(Len(r) + Len(q)) /\ ~(j <= Len(r)) /\ j - Len(r) = i
    BY <1>1
  <2>2. (r \o q)[j] = q[j - Len(r)]
    BY <1>1, <2>1, ConcatProperties
  <2>. QED BY <2>1, <2>2
<1>. QED BY <1>2, <1>3, <1>4 DEF IsLeft, Left, r

LEMMA ShiftNone ==
  ASSUME NEW P, NEW S, P \in Seq(S)
  PROVE  Shift(P, P, 0, {})
BY LenProperties DEF Shift

\* r, of length n, is q, of length k, followed by the functors of N.
Grown(q, k, r, n, N) ==
  /\ k \in Nat /\ n \in Nat /\ k <= n
  /\ \A i \in 1..k : r[i] = q[i]
  /\ \A i \in (k + 1)..n : r[i] \in N
  /\ \A f \in N : \E i \in (k + 1)..n : r[i] = f
  /\ \A i, j \in (k + 1)..n : i = j \/ r[i].op = "connectDestroyed"

LEMMA GrownNone ==
  ASSUME NEW S, NEW q \in Seq(S)
  PROVE  Grown(q, Len(q), q, Len(q), {})
BY LenProperties DEF Grown

LEMMA GrownOne ==
  ASSUME NEW S, NEW q \in Seq(S), NEW f \in S
  PROVE  Grown(q, Len(q), Append(q, f), Len(Append(q, f)), {f})
<1>1. /\ Len(Append(q, f)) = Len(q) + 1
      /\ \A i \in 1..Len(q) : Append(q, f)[i] = q[i]
      /\ Append(q, f)[Len(q) + 1] = f
  BY AppendProperties
<1>2. Len(q) \in Nat
  BY LenProperties
<1>3. \A i \in (Len(q) + 1)..Len(Append(q, f)) : i = Len(q) + 1
  BY <1>1, <1>2
<1>4. Len(q) + 1 \in (Len(q) + 1)..Len(Append(q, f))
  BY <1>1, <1>2
<1>. QED BY <1>1, <1>2, <1>3, <1>4 DEF Grown

LEMMA GrownMany ==
  ASSUME NEW S, NEW q \in Seq(S), NEW s \in Seq(S), NEW N,
         \A i \in 1..Len(s) : s[i] \in N /\ s[i].op = "connectDestroyed",
         \A f \in N : \E i \in 1..Len(s) : s[i] = f
  PROVE  Grown(q, Len(q), q \o s, Len(q \o s), N)
<1>. PICK k \in Nat, m \in Nat : k = Len(q) /\ m = Len(s)
  BY LenProperties
<1>1. /\ Len(q \o s) = k + m
      /\ \A i \in 1..(k + m) : (q \o s)[i] = IF i <= k THEN q[i] ELSE s[i - k]
  BY ConcatProperties
<1>2. \A i \in 1..k : (q \o s)[i] = q[i]
  BY <1>1
<1>3. ASSUME NEW i \in (k + 1)..(k + m)
      PROVE  (q \o s)[i] \in N /\ (q \o s)[i].op = "connectDestroyed"
  <2>1. i - k \in 1..m /\ (q \o s)[i] = s[i - k]
    BY <1>1
  <2>. QED BY <2>1
<1>4. ASSUME NEW f \in N PROVE \E i \in (k + 1)..(k + m) : (q \o s)[i] = f
  <2>1. PICK j \in 1..m : s[j] = f
    OBVIOUS
  <2>2. k + j \in (k + 1)..(k + m) /\ k + j \in 1..(k + m) /\ ~(k + j <= k) /\ (k + j) - k = j
    OBVIOUS
  <2>3. (q \o s)[k + j] = s[(k + j) - k]
    BY <1>1, <2>2
  <2>. QED BY <2>1, <2>2, <2>3
<1>. PICK r, n : r = q \o s /\ n = k + m
  OBVIOUS
<1>5. k \in Nat /\ n \in Nat /\ k <= n
  OBVIOUS
<1>6. /\ \A i \in 1..k : r[i] = q[i]
      /\ \A i \in (k + 1)..n : r[i] \in N /\ r[i].op = "connectDestroyed"
      /\ \A f \in N : \E i \in (k + 1)..n : r[i] = f
  BY <1>2, <1>3, <1>4
<1>7. Grown(q, k, r, n, N)
  BY ONLY <1>5, <1>6 DEF Grown
<1>. QED BY <1>1, <1>7

LEMMA LeftShift ==
  ASSUME NEW P, NEW Q, NEW b, NEW m, NEW n, NEW d \in {0, 1},
         NEW q, NEW k, NEW r, NEW j, NEW N,
         IsLeft(P, b, m, n, q, k), IsLeft(Q, b, m, n + d, r, j), Grown(q, k, r, j, N)
  PROVE  Shift(P, Q, d, N)
<1>. DEFINE a == m - n
<1>0. /\ m \in Nat /\ n \in Nat /\ k \in Nat /\ j \in Nat /\ k <= j /\ n + d <= m
      /\ a \in Nat /\ d <= a /\ m - (n + d) = a - d
  <2>1. /\ m \in Nat /\ n \in Nat /\ k \in Nat /\ j \in Nat /\ k <= j /\ n <= m /\ n + d <= m
        /\ d \in Nat
    BY DEF IsLeft, Grown
  <2>2. a \in Nat /\ d <= a /\ m - (n + d) = a - d
    BY ONLY <2>1
  <2>. QED BY <2>1, <2>2
<1>1. /\ Len(P) = a + k /\ Len(Q) = (a - d) + j
      /\ \A i \in 1..a : P[i] = b[n + i]
      /\ \A i \in 1..k : P[a + i] = q[i]
      /\ \A i \in 1..(a - d) : Q[i] = b[(n + d) + i]
      /\ \A i \in 1..j : Q[(a - d) + i] = r[i]
  BY <1>0 DEF IsLeft
<1>2. /\ \A i \in 1..k : r[i] = q[i]
      /\ \A i \in (k + 1)..j : r[i] \in N
      /\ \A f \in N : \E i \in (k + 1)..j : r[i] = f
      /\ \A i, h \in (k + 1)..j : i = h \/ r[i].op = "connectDestroyed"
  BY DEF Grown
<1>. HIDE DEF a
\* The old functors.
<1>3. ASSUME NEW i \in 1..(a + k), i > d
      PROVE  i - d \in 1..((a - d) + j) /\ Q[i - d] = P[i]
  <2>1. i - d \in 1..((a - d) + j)
    BY <1>0, <1>3
  <2>2. CASE i <= a
    <3>1. i \in 1..a /\ i - d \in 1..(a - d) /\ (n + d) + (i - d) = n + i
      BY <1>0, <1>3, <2>2
    <3>. QED BY <1>1, <2>1, <3>1
  <2>3. CASE i > a
    <3>. PICK h \in 1..k : h = i - a
      BY <1>0, <2>3
    <3>1. i = a + h /\ i - d = (a - d) + h /\ h \in 1..j
      BY <1>0
    <3>. QED BY <1>1, <1>2, <2>1, <3>1
  <2>. QED BY <1>0, <2>2, <2>3
\* The new ones.
<1>4. ASSUME NEW i \in 1..((a - d) + j), i + d > a + k
      PROVE  \E h \in (k + 1)..j : i = (a - d) + h /\ Q[i] = r[h]
  <2>. PICK h \in (k + 1)..j : h = i - (a - d)
    BY <1>0, <1>4
  <2>1. i = (a - d) + h /\ h \in 1..j
    BY <1>0
  <2>. QED BY <1>1, <2>1
<1>5. ASSUME NEW i \in 1..((a - d) + j)
      PROVE  \/ i + d \in 1..(a + k) /\ Q[i] = P[i + d]
             \/ i + d > a + k /\ Q[i] \in N
  <2>1. CASE i + d > a + k
    BY <1>2, <1>4, <2>1
  <2>2. CASE ~(i + d > a + k)
    <3>1. i + d \in 1..(a + k) /\ i + d > d /\ (i + d) - d = i
      BY <1>0, <2>2
    <3>2. Q[(i + d) - d] = P[i + d]
      BY <1>3, <3>1
    <3>. QED BY <3>1, <3>2
  <2>. QED BY <2>1, <2>2
<1>6. ASSUME NEW f \in N PROVE \E i \in 1..((a - d) + j) : Q[i] = f
  <2>1. PICK h \in (k + 1)..j : r[h] = f
    BY <1>2
  <2>2. h \in 1..j /\ (a - d) + h \in 1..((a - d) + j)
    BY <1>0
  <2>. QED BY <1>1, <2>1, <2>2
<1>7. ASSUME NEW i \in 1..((a - d) + j), NEW h \in 1..((a - d) + j),
             i + d > a + k, h + d > a + k, Q[i] = Q[h]
      PROVE  i = h \/ Q[i].op = "connectDestroyed"
  <2>1. PICK x \in (k + 1)..j : i = (a - d) + x /\ Q[i] = r[x]
    BY <1>4, <1>7
  <2>2. PICK y \in (k + 1)..j : h = (a - d) + y /\ Q[h] = r[y]
    BY <1>4, <1>7
  <2>. QED BY <1>2, <2>1, <2>2
<1>. QED BY <1>1, <1>3, <1>5, <1>6, <1>7 DEF Shift
-----------------------------------------------------------------------------
(***************************************************************************)
(* TcpConnection.  Sending and writing change events, out and fin only.    *)
(***************************************************************************)
Callbacks == {"writeComplete", "highWaterMark"}

SameLife(k, j) ==
  /\ j \in Connection
  /\ j.state_ = k.state_ /\ j.added = k.added /\ j.revents = k.revents
  /\ j.ups = k.ups /\ j.downs = k.downs

\* The part of LifeInv that is about the buffer.
BufferInv(k) ==
  /\ k.state_ \in {"kConnecting", "kDisconnected"} => k.events = {}
  /\ k.state_ = "kConnecting" => k.out = 0
  /\ k.state_ # "kDisconnected" /\ k.out > 0 => isWriting(k)

Good(k, o) == /\ SameLife(k, o.k) /\ BufferInv(o.k)
              /\ o.callbacks \subseteq Callbacks

LEMMA LifeOfBuffer ==
  ASSUME NEW k \in Connection, LifeInv(k), NEW j, SameLife(k, j), BufferInv(j)
  PROVE  LifeInv(j)
BY DEF LifeInv, SameLife, BufferInv, Connection, States

LEMMA BufferOfLife ==
  ASSUME NEW k \in Connection, LifeInv(k)
  PROVE  BufferInv(k)
BY DEF LifeInv, BufferInv

LEMMA SameOutcome ==
  ASSUME NEW k \in Connection, BufferInv(k), NEW S, S \subseteq Callbacks
  PROVE  Good(k, Outcome(k, S))
BY DEF Good, Outcome, SameLife

LEMMA Buffered ==
  ASSUME NEW k \in Connection, BufferInv(k), NEW n \in Nat, n > 0,
         k.state_ \notin {"kConnecting", "kDisconnected"}
  PROVE  Good(k, buffered(k, n))
<1>. PICK j : j = [k EXCEPT !.out = @ + n, !.events = @ \cup {"W"}]
  OBVIOUS
<1>1. buffered(k, n).k = j
  BY DEF buffered, Outcome
<1>2. buffered(k, n).callbacks \subseteq Callbacks
  BY DEF buffered, Outcome, Callbacks
<1>3. j \in Connection /\ j.state_ = k.state_ /\ "W" \in j.events /\ j.fin = k.fin
  <2>1. k.events \cup {"W"} \in SUBSET {"R", "W"} /\ k.out + n \in Nat
    BY DEF Connection
  <2>2. j \in Connection
    BY <2>1 DEF Connection
  <2>3. j.events = k.events \cup {"W"} /\ j.state_ = k.state_ /\ j.fin = k.fin
    BY DEF Connection
  <2>. QED BY <2>2, <2>3
<1>4. SameLife(k, j)
  BY <1>3 DEF SameLife, Connection
<1>5. BufferInv(j)
  BY <1>3 DEF BufferInv, isWriting
<1>. QED BY <1>1, <1>2, <1>4, <1>5 DEF Good

LEMMA Sent ==
  ASSUME NEW k \in Connection, BufferInv(k), NEW n \in Nat, n > 0,
         k.state_ # "kConnecting", NEW open, NEW o \in sendInLoop(k, n, open)
  PROVE  Good(k, o)
<1>1. CASE k.state_ = "kDisconnected"
  BY <1>1, SameOutcome DEF sendInLoop
<1>2. CASE k.state_ # "kDisconnected" /\ (isWriting(k) \/ k.out > 0)
  <2>1. o = buffered(k, n)
    BY <1>2 DEF sendInLoop
  <2>. QED BY <1>2, <2>1, Buffered
<1>3. CASE k.state_ # "kDisconnected" /\ ~(isWriting(k) \/ k.out > 0) /\ k.fin
  <2>1. o = Outcome(k, {}) \/ o = buffered(k, n)
    BY <1>3 DEF sendInLoop
  <2>. QED BY <1>3, <2>1, Buffered, SameOutcome
<1>4. CASE k.state_ # "kDisconnected" /\ ~(isWriting(k) \/ k.out > 0) /\ ~k.fin
  <2>1. \/ \E nwrote \in 0..(n - 1) : o = buffered(k, n - nwrote)
        \/ o = Outcome(k, {"writeComplete"})
        \/ o = Outcome(k, {})
    BY <1>4 DEF sendInLoop
  <2>2. ASSUME NEW nwrote \in 0..(n - 1) PROVE Good(k, buffered(k, n - nwrote))
    <3>1. n - nwrote \in Nat /\ n - nwrote > 0
      OBVIOUS
    <3>. QED BY <1>4, <3>1, Buffered
  <2>. QED BY <2>1, <2>2, SameOutcome DEF Callbacks
<1>. QED BY <1>1, <1>2, <1>3, <1>4

LEMMA Drained ==
  ASSUME NEW k \in Connection, BufferInv(k), isWriting(k)
  PROVE  Good(k, drained(k))
<1>. DEFINE quiet == [k EXCEPT !.out = 0, !.events = @ \ {"W"}]
<1>1. quiet \in Connection /\ ~isWriting(quiet)
  BY DEF Connection, isWriting
<1>2. drained(k).k = quiet \/ drained(k).k = [quiet EXCEPT !.fin = TRUE]
  BY <1>1 DEF drained, Outcome, shutdownInLoop
<1>3. drained(k).callbacks \subseteq Callbacks
  BY DEF drained, Outcome, Callbacks
<1>4. k.state_ \notin {"kConnecting", "kDisconnected"}
  BY DEF BufferInv, isWriting
<1>5. quiet.out = 0 /\ SameLife(k, quiet)
  BY <1>1 DEF SameLife, Connection
<1>6. ASSUME NEW j, j = quiet \/ j = [quiet EXCEPT !.fin = TRUE]
      PROVE  SameLife(k, j) /\ BufferInv(j)
  <2>1. j.out = 0 /\ j.events = quiet.events /\ SameLife(k, j)
    BY <1>1, <1>5, <1>6 DEF SameLife, Connection
  <2>. QED BY <1>1, <1>4, <2>1 DEF BufferInv, SameLife, isWriting
<1>. QED BY <1>2, <1>3, <1>6 DEF Good

LEMMA Written ==
  ASSUME NEW k \in Connection, BufferInv(k), NEW open, NEW o \in handleWrite(k, open)
  PROVE  Good(k, o)
<1>1. CASE ~(isWriting(k) /\ ~k.fin)
  BY <1>1, SameOutcome DEF handleWrite
<1>2. CASE isWriting(k) /\ ~k.fin
  <2>1. \/ o = drained(k)
        \/ \E left \in Nat : left > 0 /\ o = Outcome([k EXCEPT !.out = left], {})
    <3>1. k.out \in Nat
      BY DEF Connection
    <3>2. \A left \in 1..(IF open THEN k.out - 1 ELSE k.out) : left \in Nat /\ left > 0
      BY <3>1
    <3>. QED BY <1>2, <3>2 DEF handleWrite
  <2>2. ASSUME NEW left \in Nat, left > 0
        PROVE  Good(k, Outcome([k EXCEPT !.out = left], {}))
    <3>1. k.state_ \notin {"kConnecting", "kDisconnected"}
      BY <1>2 DEF BufferInv, isWriting
    <3>. QED BY <1>2, <2>2, <3>1
         DEF Good, Outcome, SameLife, BufferInv, isWriting, Connection, Callbacks
  <2>. QED BY <1>2, <2>1, <2>2, Drained
<1>. QED BY <1>1, <1>2
-----------------------------------------------------------------------------
(***************************************************************************)
(* What the type invariant says of one connection and one loop.            *)
(***************************************************************************)
Functors == [op : Operations, conn : Made]

LEMMA UseTypes ==
  ASSUME TypeOK
  PROVE  /\ Base \in Loops /\ PoolLoops(use) \subseteq Loops
         /\ use.pool \in Seq(PoolLoops(use)) /\ Base \notin PoolLoops(use)
         /\ use.conns \in Nat /\ use.sends \in Nat
         /\ use.shutdown \in BOOLEAN /\ use.thread \in BOOLEAN
         /\ use.destroy \in BOOLEAN /\ use.handler \in BOOLEAN
BY UseAssumption DEF TypeOK, Loops

LEMMA ConnTypes ==
  ASSUME TypeOK, NEW c \in Made
  PROVE  /\ conn[c] \in Connection /\ loopOf[c] \in Loops
         /\ peer[c] \in {"open", "reset", "closed"}
         /\ sends[c] \in Nat /\ c \in Nat /\ c \in 1..Len(conn)
BY SMTT(60) DEF TypeOK, Made

LEMMA LoopTypes ==
  ASSUME TypeOK, NEW l \in Loops
  PROVE  /\ queue[l] \in Seq(Functors) /\ batch[l] \in Seq(Functors)
         /\ called[l] \in Nat /\ called[l] <= Len(batch[l])
         /\ Len(queue[l]) \in Nat /\ Len(batch[l]) \in Nat
<1>1. queue[l] \in Seq(Functors) /\ batch[l] \in Seq(Functors)
  BY DEF TypeOK, Functors
<1>2. called[l] \in Nat /\ called[l] <= Len(batch[l])
  BY DEF TypeOK
<1>. QED BY <1>1, <1>2, LenProperties

LEMMA PendingShape ==
  TypeOK => \A l \in Loops :
     /\ IsLeft(Pending(l), batch[l], Len(batch[l]), called[l], queue[l], Len(queue[l]))
     /\ Len(Pending(l)) \in Nat
<1>. SUFFICES ASSUME TypeOK, NEW l \in Loops
              PROVE  /\ IsLeft(Pending(l), batch[l], Len(batch[l]), called[l],
                               queue[l], Len(queue[l]))
                     /\ Len(Pending(l)) \in Nat
  OBVIOUS
<1>1. IsLeft(Pending(l), batch[l], Len(batch[l]), called[l], queue[l], Len(queue[l]))
  BY LoopTypes, LeftShape DEF Pending
<1>. QED BY <1>1 DEF IsLeft

LEMMA PendingShapeNext ==
  TypeOK' => \A l \in Loops' :
     /\ IsLeft(Pending(l)', batch'[l], Len(batch'[l]), called'[l], queue'[l], Len(queue'[l]))
     /\ Len(Pending(l)') \in Nat
<1>1. TypeOK' => (\A l \in Loops :
     /\ IsLeft(Pending(l), batch[l], Len(batch[l]), called[l], queue[l], Len(queue[l]))
     /\ Len(Pending(l)) \in Nat)'
  BY PendingShape, PTL
<1>. QED BY <1>1

\* In this step loop l calls d functors, and those of N are queued.
Moves(l, d, N) == /\ d \in {0, 1}
                  /\ Len(Pending(l)) \in Nat /\ Len(Pending(l)') \in Nat
                  /\ Shift(Pending(l), Pending(l)', d, N)

LEMMA StepMoves ==
  ASSUME TypeOK, TypeOK', UNCHANGED use, NEW l \in Loops, NEW d \in {0, 1}, NEW N,
         batch'[l] = batch[l], called'[l] = called[l] + d,
         Grown(queue[l], Len(queue[l]), queue'[l], Len(queue'[l]), N)
  PROVE  Moves(l, d, N)
<1>1. l \in Loops'
  BY DEF Loops
<1>2. IsLeft(Pending(l), batch[l], Len(batch[l]), called[l], queue[l], Len(queue[l]))
  BY PendingShape
<1>3. IsLeft(Pending(l)', batch[l], Len(batch[l]), called[l] + d, queue'[l], Len(queue'[l]))
  BY <1>1, PendingShapeNext
<1>4. Shift(Pending(l), Pending(l)', d, N)
  BY <1>2, <1>3, LeftShift
<1>. QED BY <1>1, <1>4, PendingShape, PendingShapeNext DEF Moves

\* The functor that a loop calls is the first of those it has yet to call.
LEMMA CallsFirst ==
  ASSUME TypeOK, NEW l \in Loops, NEW op, NEW c, calls(l, op, c)
  PROVE  /\ Pending(l)[1] = Functor(op, c) /\ Len(Pending(l)) > 0
         /\ Awaits(l, op, c) /\ batch[l] # <<>>
<1>. PICK n \in Nat, m \in Nat, k \in Nat :
       n = called[l] /\ m = Len(batch[l]) /\ k = Len(queue[l])
  BY LoopTypes
<1>1. IsLeft(Pending(l), batch[l], m, n, queue[l], k)
  BY PendingShape
<1>2. n < m /\ batch[l][n + 1] = Functor(op, c)
  BY DEF calls
<1>3. 1 \in 1..(m - n) /\ Len(Pending(l)) = (m - n) + k
  BY <1>1, <1>2 DEF IsLeft
<1>4. Pending(l)[1] = Functor(op, c)
  BY <1>1, <1>2, <1>3 DEF IsLeft
<1>5. 1 \in 1..Len(Pending(l)) /\ Len(Pending(l)) > 0
  <2>. PICK p : p = Len(Pending(l))
    OBVIOUS
  <2>1. p = (m - n) + k /\ m - n \in Nat /\ m - n >= 1
    BY <1>2, <1>3
  <2>2. 1 \in 1..p /\ p > 0
    BY ONLY <2>1, k \in Nat
  <2>. QED BY <2>2
<1>6. batch[l] # <<>>
  BY <1>2
<1>. QED BY <1>4, <1>5, <1>6 DEF Awaits, Waits

\* A place behind the rest of the batch is one of the queue.
LEMMA InQueue ==
  ASSUME NEW m \in Nat, NEW n \in Nat, NEW k \in Nat, n <= m,
         NEW i \in 1..((m - n) + k), ~(i <= m - n)
  PROVE  i - (m - n) \in 1..k
OBVIOUS

\* A functor that waits, and holds a shared pointer, keeps its connection alive.
LEMMA AwaitedAlive ==
  ASSUME TypeOK, NEW l \in Loops, NEW op \in Strong, NEW c, Awaits(l, op, c)
  PROVE  Alive(c)
<1>. PICK n \in Nat, m \in Nat, k \in Nat :
       n = called[l] /\ m = Len(batch[l]) /\ k = Len(queue[l])
  BY LoopTypes
<1>1. IsLeft(Pending(l), batch[l], m, n, queue[l], k)
  BY PendingShape
<1>2. PICK i \in 1..Len(Pending(l)) : Pending(l)[i] = Functor(op, c)
  BY DEF Awaits, Waits
<1>3. n <= m /\ Len(Pending(l)) = (m - n) + k
  BY <1>1 DEF IsLeft
<1>4. CASE i <= m - n
  <2>1. i \in 1..(m - n) /\ n + i \in 1..m
    BY <1>3, <1>4
  <2>2. batch[l][n + i] = Functor(op, c)
    BY <1>1, <1>2, <2>1 DEF IsLeft
  <2>3. batch[l][n + i].conn = c /\ batch[l][n + i].op \in Strong
    BY <2>2 DEF Functor
  <2>4. Mentions(batch[l], c)
    BY <2>1, <2>3 DEF Mentions
  <2>. QED BY <2>4 DEF Alive
<1>5. CASE ~(i <= m - n)
  <2>0. i - (m - n) \in 1..k
    <3>1. i \in 1..((m - n) + k)
      BY <1>3
    <3>. QED BY <1>3, <1>5, <3>1, InQueue
  <2>. PICK j \in 1..k : j = i - (m - n)
    BY <2>0
  <2>1. i = (m - n) + j
    BY <1>3
  <2>2. queue[l][j] = Functor(op, c)
    BY <1>1, <1>2, <2>1 DEF IsLeft
  <2>. QED BY <2>2 DEF Alive, Mentions, Functor
<1>. QED BY <1>4, <1>5
-----------------------------------------------------------------------------
(***************************************************************************)
(* When a step keeps what is true of the functors of connection c that     *)
(* wait in loop l.                                                         *)
(***************************************************************************)
Connecting(c) == conn[c].state_ = "kConnecting"
Closed(c) == conn[c].state_ = "kDisconnected"

LEMMA EstablishKept ==
  ASSUME NEW l, NEW c, NEW d, NEW N, Moves(l, d, N), EstablishInv(l, c),
         loopOf'[c] = loopOf[c], Connecting(c) => Connecting(c)',
         Functor("connectEstablished", c) \notin N
  PROVE  EstablishInv(l, c)'
<1>1. Awaits(l, "connectEstablished", c)' => Awaits(l, "connectEstablished", c)
  BY WaitsOld DEF Moves, Awaits
<1>2. Unique(Pending(l), "connectEstablished", c)'
  BY UniqueKept DEF Moves, EstablishInv
<1>. QED BY <1>1, <1>2 DEF EstablishInv, Connecting

LEMMA DestroyKept ==
  ASSUME UNCHANGED use, NEW l, NEW c, NEW d, NEW N, Moves(l, d, N), DestroyInv(l, c),
         loopOf'[c] = loopOf[c], Closed(c) => Closed(c)', Connecting(c)' => Connecting(c),
         d = 1 => Pending(l)[1] # Functor("connectEstablished", c),
         Functor("connectDestroyed", c) \in N =>
            /\ l = loopOf[c] /\ (ClosedFirst => Closed(c)')
            /\ Connecting(c)' => Awaits(l, "connectEstablished", c)
  PROVE  DestroyInv(l, c)'
<1>1. Awaits(l, "connectDestroyed", c)' =>
        Awaits(l, "connectDestroyed", c) \/ Functor("connectDestroyed", c) \in N
  BY WaitsOld DEF Moves, Awaits
<1>2. ClosedFirst' = ClosedFirst
  BY DEF ClosedFirst
<1>3. ASSUME Connecting(c)' PROVE EstablishedFirst(Pending(l), c)'
  <2>1. EstablishedFirst(Pending(l), c)
    BY <1>3 DEF DestroyInv, Connecting
  <2>2. Functor("connectDestroyed", c) \in N => Waits(Pending(l), "connectEstablished", c)
    BY <1>3 DEF Awaits
  <2>. QED BY <2>1, <2>2, FirstKept DEF Moves
<1>4. Awaits(l, "connectDestroyed", c)' =>
        loopOf'[c] = l /\ (ClosedFirst' => Closed(c)')
  BY <1>1, <1>2 DEF DestroyInv, Closed
<1>. QED BY <1>3, <1>4 DEF DestroyInv, Connecting, Closed

LEMMA RemoveKept ==
  ASSUME NEW l, NEW c, NEW d, NEW N, Moves(l, d, N), RemoveInv(l, c),
         loopOf'[c] = loopOf[c], Closed(c) => Closed(c)',
         loopOf[c] # Base /\ server' = "up" /\ (server = "up" => c \in connections_)
            => c \in connections_',
         Functor("removeConnectionInLoop", c) \in N =>
            /\ l = Base /\ loopOf[c] # Base /\ Closed(c)'
            /\ server' = "up" => c \in connections_'
            /\ ~Awaits(l, "removeConnectionInLoop", c)
  PROVE  RemoveInv(l, c)'
<1>1. Awaits(l, "removeConnectionInLoop", c)' =>
        Awaits(l, "removeConnectionInLoop", c) \/ Functor("removeConnectionInLoop", c) \in N
  BY WaitsOld DEF Moves, Awaits
<1>2. Unique(Pending(l), "removeConnectionInLoop", c)'
  BY UniqueKept DEF Moves, RemoveInv, Awaits
<1>. QED BY <1>1, <1>2 DEF RemoveInv, Closed

LEMMA SendKept ==
  ASSUME UNCHANGED use, NEW l, NEW c, NEW d, NEW N, Moves(l, d, N), SendInv(l, c),
         Connecting(c)' => Connecting(c),
         Functor("sendInLoop", c) \in N => use.thread /\ ~Connecting(c)'
  PROVE  SendInv(l, c)'
<1>1. Awaits(l, "sendInLoop", c)' =>
        Awaits(l, "sendInLoop", c) \/ Functor("sendInLoop", c) \in N
  BY WaitsOld DEF Moves, Awaits
<1>. QED BY <1>1 DEF SendInv, Connecting

\* The functors of a connection that c is not, and the callbacks.
Foreign(N, c) ==
  \A op \in {"connectEstablished", "connectDestroyed", "removeConnectionInLoop", "sendInLoop"} :
     Functor(op, c) \notin N

\* What a step does to a connection, its connectEstablished and its removal apart.
Settled(c) ==
  /\ loopOf'[c] = loopOf[c]
  /\ Closed(c) => Closed(c)'
  /\ Connecting(c)' <=> Connecting(c)
  /\ loopOf[c] # Base /\ server' = "up" /\ (server = "up" => c \in connections_)
       => c \in connections_'

LEMMA FunctorsKept ==
  ASSUME UNCHANGED use, NEW l, NEW c, NEW d, NEW N, Moves(l, d, N), FunctorInv(l, c),
         Settled(c), Foreign(N, c),
         d = 1 => Pending(l)[1] # Functor("connectEstablished", c)
  PROVE  FunctorInv(l, c)'
<1>1. EstablishInv(l, c)'
  BY EstablishKept DEF FunctorInv, Settled, Foreign
<1>2. DestroyInv(l, c)'
  BY DestroyKept DEF FunctorInv, Settled, Foreign
<1>3. RemoveInv(l, c)'
  BY RemoveKept DEF FunctorInv, Settled, Foreign
<1>4. SendInv(l, c)'
  BY SendKept DEF FunctorInv, Settled, Foreign
<1>. QED BY <1>1, <1>2, <1>3, <1>4 DEF FunctorInv
-----------------------------------------------------------------------------
(***************************************************************************)
(* When a step keeps what is true of connection c.                         *)
(***************************************************************************)
LEMMA AwaitsKept ==
  ASSUME NEW l, NEW c, NEW op, NEW d, NEW N, Moves(l, d, N), Awaits(l, op, c),
         d = 1 => Pending(l)[1] # Functor(op, c)
  PROVE  Awaits(l, op, c)'
BY WaitsKept DEF Moves, Awaits

LEMMA AwaitsNew ==
  ASSUME NEW l, NEW c, NEW op, NEW d, NEW N, Moves(l, d, N), Functor(op, c) \in N
  PROVE  Awaits(l, op, c)'
BY WaitsNew DEF Moves, Awaits

\* No functor of c that matters to it is called.
Waiting(c) ==
  /\ Awaits(loopOf[c], "connectEstablished", c) => Awaits(loopOf[c], "connectEstablished", c)'
  /\ Awaits(Base, "removeConnectionInLoop", c) => Awaits(Base, "removeConnectionInLoop", c)'
  /\ Awaits(loopOf[c], "connectDestroyed", c) => Awaits(loopOf[c], "connectDestroyed", c)'

LEMMA WaitingKept ==
  ASSUME TypeOK, NEW c \in Made,
         NEW D, NEW N, \A l \in Loops : Moves(l, D[l], N[l]),
         \A l \in Loops : D[l] = 1 =>
            \A op \in {"connectEstablished", "removeConnectionInLoop", "connectDestroyed"} :
               Pending(l)[1] # Functor(op, c),
         loopOf'[c] = loopOf[c]
  PROVE  Waiting(c)
<1>1. loopOf[c] \in Loops /\ Base \in Loops
  BY UseTypes, ConnTypes
<1>2. ASSUME NEW l \in Loops, Awaits(l, "connectEstablished", c)
      PROVE  Awaits(l, "connectEstablished", c)'
  BY <1>2, AwaitsKept
<1>3. ASSUME NEW l \in Loops, Awaits(l, "removeConnectionInLoop", c)
      PROVE  Awaits(l, "removeConnectionInLoop", c)'
  BY <1>3, AwaitsKept
<1>4. ASSUME NEW l \in Loops, Awaits(l, "connectDestroyed", c)
      PROVE  Awaits(l, "connectDestroyed", c)'
  BY <1>4, AwaitsKept
<1>. QED BY <1>1, <1>2, <1>3, <1>4 DEF Waiting

Covered(c) == \/ c \in connections_
              \/ Awaits(Base, "removeConnectionInLoop", c)
              \/ Awaits(loopOf[c], "connectDestroyed", c)

LEMMA CoverKept ==
  ASSUME NEW c, CoverInv(c), Waiting(c), loopOf'[c] = loopOf[c], stopped \subseteq stopped',
         Connecting(c)' => Connecting(c),
         conn'[c].added => conn[c].added \/ Connecting(c),
         c \in connections_ => c \in connections_'
  PROVE  CoverInv(c)'
<1>1. SUFFICES ASSUME loopOf'[c] \notin stopped'
               PROVE  /\ Connecting(c)' => Awaits(loopOf[c], "connectEstablished", c)'
                      /\ conn'[c].added \/ Connecting(c)' => Covered(c)'
  BY DEF CoverInv, Covered, Connecting
<1>2. loopOf[c] \notin stopped
  BY <1>1
<1>3. Connecting(c) => Awaits(loopOf[c], "connectEstablished", c)
  BY <1>2 DEF CoverInv, Connecting
<1>4. conn[c].added \/ Connecting(c) => Covered(c)
  BY <1>2 DEF CoverInv, Connecting, Covered
<1>5. Covered(c) => Covered(c)'
  BY DEF Covered, Waiting
<1>. QED BY <1>3, <1>4, <1>5 DEF Waiting

LEMMA OtherKept ==
  ASSUME UNCHANGED <<use, server, stopped>>, NEW c, ConnInv(c),
         conn'[c] = conn[c], loopOf'[c] = loopOf[c],
         c \in connections_' <=> c \in connections_,
         c \in user' => c \in user,
         batch'[loopOf[c]] = batch[loopOf[c]] \/ conn[c].revents = {} \/ batch'[loopOf[c]] = <<>>,
         Waiting(c)
  PROVE  ConnInv(c)' /\ Settled(c)
<1>1. LifeInv(conn[c])' /\ EventInv(c)'
  BY DEF ConnInv, EventInv
<1>2. MapInv(c)' /\ ShutInv(c)' /\ UserInv(c)'
  BY DEF ConnInv, MapInv, ShutInv, UserInv
<1>3. CoverInv(c)'
  BY CoverKept DEF ConnInv, Connecting
<1>4. Settled(c)
  BY DEF Settled, Connecting, Closed
<1>. QED BY <1>1, <1>2, <1>3, <1>4 DEF ConnInv
-----------------------------------------------------------------------------
(***************************************************************************)
(* Steps that touch one connection, c: the others keep what is true of     *)
(* them.                                                                   *)
(***************************************************************************)
LEMMA Updated ==
  ASSUME TypeOK, NEW c \in Made, NEW k \in Connection, conn' = [conn EXCEPT ![c] = k]
  PROVE  /\ conn' \in Seq(Connection) /\ Len(conn') = Len(conn)
         /\ conn'[c] = k
         /\ \A x \in Made : x # c => conn'[x] = conn[x]
BY DEF TypeOK, Made

LEMMA Posted ==
  ASSUME TypeOK, NEW l \in Loops, NEW f \in Functors,
         queue' = [queue EXCEPT ![l] = Append(@, f)]
  PROVE  /\ queue' \in [Loops -> Seq(Functors)]
         /\ queue'[l] = Append(queue[l], f)
         /\ \A m \in Loops : m # l => queue'[m] = queue[m]
<1>1. queue \in [Loops -> Seq(Functors)]
  BY DEF TypeOK, Functors
<1>2. Append(queue[l], f) \in Seq(Functors)
  BY <1>1, AppendProperties
<1>. QED BY <1>1, <1>2

Names == {"connectEstablished", "handleClose", "Channel::remove", "EventLoop::removeChannel",
          "removeConnectionInLoop", "sendInLoop", "runInLoop"}

LEMMA TypeKept ==
  ASSUME TypeOK, UNCHANGED <<use, loopOf, next_, server, batch, stopped>>,
         conn' \in Seq(Connection), Len(conn') = Len(conn),
         peer' \in Seq({"open", "reset", "closed"}), Len(peer') = Len(peer),
         connections_' \subseteq connections_,
         queue' \in [Loops -> Seq(Functors)],
         called' \in [Loops -> Nat], \A l \in Loops : called'[l] <= Len(batch[l]),
         held' \subseteq Made, user' \subseteq held',
         sends' \in Seq(Nat), Len(sends') = Len(sends),
         failed' \subseteq {"connectEstablished", "handleClose", "Channel::remove",
                            "EventLoop::removeChannel", "removeConnectionInLoop",
                            "sendInLoop", "runInLoop"}
  PROVE  TypeOK' /\ Made' = Made /\ Loops' = Loops /\ Functors' = Functors
<1>1. Made' = Made /\ Loops' = Loops
  BY DEF Made, Loops
<1>2. Functors' = Functors
  BY <1>1 DEF Functors
<1>3. queue' \in [Loops -> Seq([op : Operations, conn : Made])]
  BY DEF Functors
<1>4. batch' \in [Loops' -> Seq([op : Operations, conn : Made'])]
  BY <1>1 DEF TypeOK
<1>5. queue' \in [Loops' -> Seq([op : Operations, conn : Made'])]
  BY <1>1, <1>3
<1>6. loopOf' \in Seq(Loops') /\ Len(loopOf') = Len(conn') /\ stopped' \subseteq Loops' \ {Base}
  BY <1>1 DEF TypeOK
<1>7. /\ use' \in Uses /\ server' \in {"up", "gone"}
      /\ next_' = 0 \/ next_' \in 1..(Len(use'.pool) - 1)
  BY DEF TypeOK
<1>8. connections_' \subseteq Made' /\ held' \subseteq Made'
  BY <1>1 DEF TypeOK
<1>9. called' \in [Loops' -> Nat] /\ \A l \in Loops' : called'[l] <= Len(batch'[l])
  BY <1>1
<1>10. Len(peer') = Len(conn') /\ Len(sends') = Len(conn')
  BY DEF TypeOK
<1>11. TypeOK'
  BY <1>4, <1>5, <1>6, <1>7, <1>8, <1>9, <1>10 DEF TypeOK
<1>. QED BY <1>1, <1>2, <1>11

LEMMA AssertKept ==
  ASSUME TypeOK, FailuresExplained, UNCHANGED use, NEW condition, NEW name, Assert_(condition, name),
         condition \/ name \in MayFail(use)
  PROVE  FailuresExplained'
BY DEF FailuresExplained, Assert_

\* Every functor of s is one of c.
Only(s, c) == \A f \in s : f.conn = c

LEMMA TouchStep ==
  ASSUME IInv, TypeOK', UNCHANGED <<use, loopOf, server, batch, stopped>>,
         Len(conn') = Len(conn), NEW c \in Made,
         \A x \in Made : x # c => /\ conn'[x] = conn[x]
                                  /\ x \in connections_' <=> x \in connections_
                                  /\ x \in user' => x \in user,
         NEW D, NEW N,
         \A l \in Loops : /\ Moves(l, D[l], N[l]) /\ Only(N[l], c)
                          /\ D[l] = 1 => Pending(l)[1].conn = c,
         UseInv', FailuresExplained', ConnInv(c)', \A l \in Loops : FunctorInv(l, c)'
  PROVE  IInv'
<1>1. Made' = Made /\ Loops' = Loops
  BY DEF Made, Loops
<1>2. ASSUME NEW x \in Made, x # c PROVE ConnInv(x)' /\ Settled(x)
  <2>1. \A op : Functor(op, x).conn = x
    BY DEF Functor
  <2>2. Waiting(x)
    BY <1>2, <2>1, WaitingKept DEF IInv
  <2>. QED BY <1>2, <2>2, OtherKept DEF IInv
<1>3. ASSUME NEW x \in Made, x # c, NEW l \in Loops PROVE FunctorInv(l, x)'
  <2>1. \A op : Functor(op, x).conn = x
    BY DEF Functor
  <2>2. Foreign(N[l], x)
    BY <1>3, <2>1 DEF Foreign, Only
  <2>3. D[l] = 1 => Pending(l)[1] # Functor("connectEstablished", x)
    BY <1>3, <2>1
  <2>4. Moves(l, D[l], N[l]) /\ FunctorInv(l, x)
    BY DEF IInv
  <2>5. Settled(x)
    BY <1>2, <1>3
  <2>. QED BY <2>2, <2>3, <2>4, <2>5, FunctorsKept
<1>4. \A x \in Made' : ConnInv(x)'
  BY <1>1, <1>2
<1>5. \A l \in Loops' : \A x \in Made' : FunctorInv(l, x)'
  BY <1>1, <1>3
<1>. QED BY <1>4, <1>5 DEF IInv

\* Loop m calls d functors, and those of S, at most one, are queued in loop q.
At(m, d) == [l \in Loops |-> IF l = m THEN d ELSE 0]
News(q, S) == [l \in Loops |-> IF l = q THEN S ELSE {}]

Queues(q, S) == \/ S = {} /\ queue' = queue
                \/ \E f \in Functors : S = {f} /\ queue' = [queue EXCEPT ![q] = Append(@, f)]

Counts(m, d) == \/ d = 0 /\ called' = called
                \/ d = 1 /\ called' = [called EXCEPT ![m] = @ + 1]

LEMMA QueuesType ==
  ASSUME TypeOK, NEW q \in Loops, NEW S, Queues(q, S)
  PROVE  queue' \in [Loops -> Seq(Functors)]
<1>1. CASE queue' = queue
  BY <1>1 DEF TypeOK, Functors
<1>2. CASE \E f \in Functors : queue' = [queue EXCEPT ![q] = Append(@, f)]
  BY <1>2, Posted
<1>. QED BY <1>1, <1>2 DEF Queues

LEMMA QueuesGrown ==
  ASSUME TypeOK, NEW q \in Loops, NEW S, Queues(q, S), NEW l \in Loops
  PROVE  Grown(queue[l], Len(queue[l]), queue'[l], Len(queue'[l]), News(q, S)[l])
<1>0. queue[l] \in Seq(Functors)
  BY LoopTypes
<1>1. CASE S = {} /\ queue' = queue
  <2>1. News(q, S)[l] = {}
    BY <1>1 DEF News
  <2>. QED BY <1>0, <1>1, <2>1, GrownNone
<1>2. ASSUME NEW f \in Functors, S = {f}, queue' = [queue EXCEPT ![q] = Append(@, f)]
      PROVE  Grown(queue[l], Len(queue[l]), queue'[l], Len(queue'[l]), News(q, S)[l])
  <2>1. CASE l = q
    <3>1. News(q, S)[l] = {f} /\ queue'[l] = Append(queue[l], f)
      BY <1>2, <2>1, Posted DEF News
    <3>. QED BY <1>0, <3>1, GrownOne
  <2>2. CASE l # q
    <3>1. News(q, S)[l] = {} /\ queue'[l] = queue[l]
      BY <1>2, <2>2, Posted DEF News
    <3>. QED BY <1>0, <3>1, GrownNone
  <2>. QED BY <2>1, <2>2
<1>. QED BY <1>1, <1>2 DEF Queues

LEMMA AllMove ==
  ASSUME TypeOK, TypeOK', UNCHANGED <<use, batch>>, NEW m \in Loops, NEW d \in {0, 1},
         Counts(m, d), NEW q \in Loops, NEW S, Queues(q, S)
  PROVE  \A l \in Loops : Moves(l, At(m, d)[l], News(q, S)[l])
<1>. SUFFICES ASSUME NEW l \in Loops PROVE Moves(l, At(m, d)[l], News(q, S)[l])
  OBVIOUS
<1>1. called \in [Loops -> Nat]
  BY DEF TypeOK
<1>2. called'[l] = called[l] + At(m, d)[l] /\ At(m, d)[l] \in {0, 1}
  BY <1>1 DEF Counts, At
<1>3. Grown(queue[l], Len(queue[l]), queue'[l], Len(queue'[l]), News(q, S)[l])
  BY QueuesGrown
<1>4. batch'[l] = batch[l]
  OBVIOUS
<1>. QED BY <1>2, <1>3, <1>4, StepMoves

(***************************************************************************)
(* The same with everything that does not depend on the action.            *)
(***************************************************************************)
LEMMA OneStep ==
  ASSUME IInv, TypeOK', UNCHANGED <<use, loopOf, server, batch, stopped>>,
         Len(conn') = Len(conn), NEW c \in Made,
         \A x \in Made : x # c => /\ conn'[x] = conn[x]
                                  /\ x \in connections_' <=> x \in connections_
                                  /\ x \in user' => x \in user,
         NEW m \in Loops, NEW d \in {0, 1}, Counts(m, d), d = 1 => Pending(m)[1].conn = c,
         NEW q \in Loops, NEW S, Queues(q, S), Only(S, c),
         UseInv', FailuresExplained', ConnInv(c)', \A l \in Loops : FunctorInv(l, c)'
  PROVE  IInv'
<1>1. \A l \in Loops : Moves(l, At(m, d)[l], News(q, S)[l])
  BY AllMove DEF IInv
<1>2. \A l \in Loops : Only(News(q, S)[l], c)
  BY DEF News, Only
<1>3. \A l \in Loops : At(m, d)[l] = 1 => Pending(l)[1].conn = c
  BY DEF At
<1>. QED BY <1>1, <1>2, <1>3, TouchStep

(***************************************************************************)
(* Steps after which c is as open, as much in the map and as much known to *)
(* the poller as before.                                                   *)
(***************************************************************************)
LEMMA CalmStep ==
  ASSUME IInv, TypeOK', UNCHANGED <<use, loopOf, server, batch, stopped, connections_>>,
         Len(conn') = Len(conn), NEW c \in Made,
         \A x \in Made : x # c => conn'[x] = conn[x] /\ (x \in user' => x \in user),
         NEW m \in Loops, NEW d \in {0, 1}, Counts(m, d),
         d = 1 => \E op \in {"sendInLoop"} \cup Callbacks : Pending(m)[1] = Functor(op, c),
         NEW q \in Loops, NEW S, Queues(q, S),
         \A f \in S : \/ \E op \in Callbacks : f = Functor(op, c)
                      \/ f = Functor("sendInLoop", c) /\ use.thread /\ ~Connecting(c),
         Connecting(c)' <=> Connecting(c), Closed(c)' <=> Closed(c),
         conn'[c].added = conn[c].added,
         LifeInv(conn[c])', EventInv(c)', ShutInv(c)', UserInv(c)', UseInv', FailuresExplained'
  PROVE  IInv'
<1>1. \A l \in Loops : Moves(l, At(m, d)[l], News(q, S)[l])
  BY AllMove DEF IInv
<1>2. \A op, op2 : Functor(op, c) = Functor(op2, c) => op = op2
  BY DEF Functor
<1>3. \A op : Functor(op, c).conn = c
  BY DEF Functor
<1>4. Only(S, c) /\ (d = 1 => Pending(m)[1].conn = c)
  BY <1>3 DEF Only
<1>5. ConnInv(c) /\ TypeOK
  BY DEF IInv
<1>6. Waiting(c)
  <2>1. \A l \in Loops : At(m, d)[l] = 1 =>
            \A op \in {"connectEstablished", "removeConnectionInLoop", "connectDestroyed"} :
               Pending(l)[1] # Functor(op, c)
    BY <1>2 DEF At, Callbacks
  <2>. QED BY <1>1, <1>5, <2>1, WaitingKept
<1>7. CoverInv(c)'
  BY <1>5, <1>6, CoverKept DEF ConnInv
<1>8. MapInv(c)'
  BY <1>5 DEF ConnInv, MapInv, Connecting, Closed
<1>9. ConnInv(c)'
  BY <1>7, <1>8 DEF ConnInv
<1>10. ASSUME NEW l \in Loops PROVE FunctorInv(l, c)'
  <2>1. Moves(l, At(m, d)[l], News(q, S)[l]) /\ FunctorInv(l, c)
    BY <1>1 DEF IInv
  <2>2. /\ Functor("connectEstablished", c) \notin News(q, S)[l]
        /\ Functor("connectDestroyed", c) \notin News(q, S)[l]
        /\ Functor("removeConnectionInLoop", c) \notin News(q, S)[l]
    BY <1>2 DEF News, Callbacks
  <2>3. Functor("sendInLoop", c) \in News(q, S)[l] => use.thread /\ ~Connecting(c)
    BY <1>2 DEF News, Callbacks
  <2>4. At(m, d)[l] = 1 => Pending(l)[1] # Functor("connectEstablished", c)
    BY <1>2 DEF At, Callbacks
  <2>5. EstablishInv(l, c)'
    BY <2>1, <2>2, EstablishKept DEF FunctorInv
  <2>6. DestroyInv(l, c)'
    BY <2>1, <2>2, <2>4, DestroyKept DEF FunctorInv
  <2>7. RemoveInv(l, c)'
    BY <2>1, <2>2, RemoveKept DEF FunctorInv
  <2>8. SendInv(l, c)'
    BY <2>1, <2>3, SendKept DEF FunctorInv
  <2>. QED BY <2>5, <2>6, <2>7, <2>8 DEF FunctorInv
<1>. QED BY <1>4, <1>9, <1>10, OneStep
-----------------------------------------------------------------------------
(***************************************************************************)
(* The steps of users, peers and poll().                                   *)
(***************************************************************************)
LEMMA NoQueue ==
  ASSUME TypeOK, UNCHANGED <<queue, called>>
  PROVE  /\ Base \in Loops /\ Counts(Base, 0) /\ Queues(Base, {})
         /\ queue' \in [Loops -> Seq(Functors)] /\ called' \in [Loops -> Nat]
         /\ \A l \in Loops : called'[l] <= Len(batch[l])
<1>1. Base \in Loops
  BY DEF Loops
<1>2. Counts(Base, 0) /\ Queues(Base, {})
  BY DEF Counts, Queues
<1>. QED BY <1>1, <1>2 DEF TypeOK, Functors

LEMMA SameParts ==
  ASSUME IInv, NEW c \in Made
  PROVE  /\ TypeOK /\ UseInv /\ FailuresExplained /\ ConnInv(c) /\ conn[c] \in Connection
         /\ LifeInv(conn[c]) /\ EventInv(c) /\ MapInv(c) /\ CoverInv(c) /\ ShutInv(c) /\ UserInv(c)
BY ConnTypes DEF IInv, ConnInv

LEMMA StillStep ==
  ASSUME IInv, TypeOK',
         UNCHANGED <<use, loopOf, server, queue, batch, called, stopped, connections_>>,
         Len(conn') = Len(conn), NEW c \in Made,
         \A x \in Made : x # c => conn'[x] = conn[x] /\ (x \in user' => x \in user),
         Connecting(c)' <=> Connecting(c), Closed(c)' <=> Closed(c),
         conn'[c].added = conn[c].added,
         LifeInv(conn[c])', EventInv(c)', ShutInv(c)', UserInv(c)', UseInv', FailuresExplained'
  PROVE  IInv'
<1>1. Base \in Loops /\ Counts(Base, 0) /\ Queues(Base, {})
  BY NoQueue DEF IInv
<1>. DEFINE d == 0
            S == {}
<1>2. d \in {0, 1} /\ Counts(Base, d) /\ Queues(Base, S) /\ d # 1 /\ \A f \in S : FALSE
  BY <1>1
<1>. HIDE DEF d, S
<1>. QED BY <1>1, <1>2, CalmStep

LEMMA PeerStep ==
  ASSUME IInv, UNCHANGED use, NEW c \in Made, peerLeaves(c)
  PROVE  IInv'
<1>1. TypeOK
  BY DEF IInv
<1>2. UNCHANGED <<conn, loopOf, connections_, next_, server, queue, batch, called, stopped,
                  held, user, sends, failed>>
  BY DEF peerLeaves, serverVars, loopsVars, userVars
<1>3. peer' \in Seq({"open", "reset", "closed"}) /\ Len(peer') = Len(peer)
  BY <1>1 DEF peerLeaves, TypeOK, Made
<1>4. TypeOK'
  BY <1>1, <1>2, <1>3, NoQueue, TypeKept DEF TypeOK
<1>5. LifeInv(conn[c])' /\ EventInv(c)' /\ ShutInv(c)' /\ UserInv(c)'
  BY <1>2, SameParts DEF EventInv, ShutInv, UserInv
<1>6. UseInv' /\ FailuresExplained'
  BY <1>2, SameParts DEF UseInv, FailuresExplained
<1>7. (Connecting(c)' <=> Connecting(c)) /\ (Closed(c)' <=> Closed(c))
  BY <1>2 DEF Connecting, Closed
<1>. QED BY <1>2, <1>4, <1>5, <1>6, <1>7, StillStep

LEMMA PollStep ==
  ASSUME IInv, UNCHANGED use, NEW c \in Made, NEW r \in Reports(c), poll(c, r)
  PROVE  IInv'
<1>. DEFINE k == [conn[c] EXCEPT !.revents = r]
<1>1. TypeOK /\ conn[c] \in Connection /\ LifeInv(conn[c])
  BY SameParts
<1>2. UNCHANGED <<loopOf, peer, connections_, next_, server, queue, batch, called, stopped,
                  held, user, sends, failed>>
  BY DEF poll, serverVars, loopsVars, userVars
<1>3. k \in Connection
  BY <1>1 DEF Reports, Connection
<1>4. conn' = [conn EXCEPT ![c] = k]
  BY DEF poll
<1>5. conn' \in Seq(Connection) /\ Len(conn') = Len(conn) /\ conn'[c] = k
      /\ \A x \in Made : x # c => conn'[x] = conn[x]
  BY <1>1, <1>3, <1>4, Updated
<1>6. TypeOK'
  BY <1>1, <1>2, <1>5, NoQueue, TypeKept DEF TypeOK
<1>7. conn[c].added /\ conn[c].events # {} /\ batch[loopOf[c]] = <<>>
  BY DEF poll, InEvents
<1>8. /\ k.state_ = conn[c].state_ /\ k.events = conn[c].events /\ k.added = conn[c].added
      /\ k.out = conn[c].out /\ k.fin = conn[c].fin
      /\ k.ups = conn[c].ups /\ k.downs = conn[c].downs
  BY <1>1 DEF Connection
<1>. HIDE DEF k
<1>9. LifeInv(k)
  BY <1>1, <1>7, <1>8 DEF LifeInv, isWriting
<1>10. LifeInv(conn[c])'
  BY <1>5, <1>9
<1>11. EventInv(c)' /\ ShutInv(c)' /\ UserInv(c)'
  BY <1>2, <1>5, <1>7, <1>8, SameParts DEF EventInv, ShutInv, UserInv
<1>12. UseInv' /\ FailuresExplained'
  BY <1>2, SameParts DEF UseInv, FailuresExplained
<1>13. (Connecting(c)' <=> Connecting(c)) /\ (Closed(c)' <=> Closed(c))
  BY <1>5, <1>8 DEF Connecting, Closed
<1>14. conn'[c].added = conn[c].added
  BY <1>5, <1>8
<1>15. \A x \in Made : x # c => conn'[x] = conn[x] /\ (x \in user' => x \in user)
  BY <1>2, <1>5
<1>16. Len(conn') = Len(conn)
  BY <1>5
<1>. QED BY <1>2, <1>6, <1>10, <1>11, <1>12, <1>13, <1>14, <1>15, <1>16, StillStep

LEMMA ShutdownStep ==
  ASSUME IInv, UNCHANGED use, NEW c \in Made, shutdown(c)
  PROVE  IInv'
<1>. DEFINE j == [conn[c] EXCEPT !.state_ = "kDisconnecting"]
            k == shutdownInLoop(j)
<1>1. TypeOK /\ conn[c] \in Connection /\ LifeInv(conn[c])
  BY SameParts
<1>2. UNCHANGED <<loopOf, peer, connections_, next_, server, queue, batch, called, stopped,
                  held, user, sends, failed>>
  BY DEF shutdown, serverVars, loopsVars, userVars
<1>3. j \in Connection /\ conn[c].state_ = "kConnected"
  BY <1>1 DEF Connection, States, shutdown
<1>4. k \in Connection
  BY <1>3 DEF shutdownInLoop, Connection
<1>5. /\ k.state_ = "kDisconnecting" /\ k.events = conn[c].events /\ k.added = conn[c].added
      /\ k.revents = conn[c].revents /\ k.out = conn[c].out
      /\ k.ups = conn[c].ups /\ k.downs = conn[c].downs
  BY <1>1, <1>3 DEF shutdownInLoop, Connection
<1>7. conn' = [conn EXCEPT ![c] = k]
  BY DEF shutdown
<1>. HIDE DEF k
<1>8. conn' \in Seq(Connection) /\ Len(conn') = Len(conn) /\ conn'[c] = k
      /\ \A x \in Made : x # c => conn'[x] = conn[x]
  BY <1>1, <1>4, <1>7, Updated
<1>9. TypeOK'
  BY <1>1, <1>2, <1>8, NoQueue, TypeKept DEF TypeOK
<1>10. LifeInv(k)
  <2>2. k.out > 0 => isWriting(k)
    BY <1>1, <1>3, <1>5 DEF LifeInv, isWriting
  <2>3. k.ups = 1 /\ k.downs = 0 /\ k.added
    BY <1>1, <1>3, <1>5 DEF LifeInv
  <2>. QED BY <1>5, <2>2, <2>3 DEF LifeInv
<1>11. LifeInv(conn[c])'
  BY <1>8, <1>10
<1>12. EventInv(c)'
  BY <1>2, <1>5, <1>8, SameParts DEF EventInv
<1>13. ShutInv(c)'
  <2>1. use.shutdown /\ conn'[c].added
    BY <1>1, <1>3, <1>5, <1>8 DEF LifeInv, shutdown
  <2>. QED BY <2>1 DEF ShutInv
<1>14. UserInv(c)'
  BY <1>5, <1>8 DEF UserInv
<1>15. UseInv' /\ FailuresExplained'
  BY <1>2, SameParts DEF UseInv, FailuresExplained
<1>16. (Connecting(c)' <=> Connecting(c)) /\ (Closed(c)' <=> Closed(c))
  BY <1>3, <1>5, <1>8 DEF Connecting, Closed
<1>17. conn'[c].added = conn[c].added
  BY <1>5, <1>8
<1>18. \A x \in Made : x # c => conn'[x] = conn[x] /\ (x \in user' => x \in user)
  BY <1>2, <1>8
<1>19. Len(conn') = Len(conn)
  BY <1>8
<1>. QED BY <1>2, <1>9, <1>11, <1>12, <1>13, <1>14, <1>15, <1>16, <1>17, <1>18, <1>19, StillStep

LEMMA CountedSend ==
  ASSUME TypeOK, NEW c \in Made, CountSend(c)
  PROVE  sends' \in Seq(Nat) /\ Len(sends') = Len(sends)
BY SMTT(60) DEF TypeOK, Made, CountSend

LEMMA TestsStep ==
  ASSUME IInv, UNCHANGED use, NEW c \in Made, userTests(c)
  PROVE  IInv'
<1>1. TypeOK
  BY DEF IInv
<1>2. UNCHANGED <<conn, loopOf, peer, connections_, next_, server, queue, batch, called, stopped,
                  held, failed>>
  BY DEF userTests, serverVars, loopsVars
<1>3. c \in held /\ user' = user \cup {c} /\ conn[c].state_ = "kConnected"
  BY DEF userTests
<1>4. user' \subseteq held' /\ held' \subseteq Made
  BY <1>1, <1>2, <1>3 DEF TypeOK
<1>5. sends' \in Seq(Nat) /\ Len(sends') = Len(sends)
  BY <1>1, CountedSend DEF userTests
<1>6. TypeOK'
  BY <1>1, <1>2, <1>4, <1>5, NoQueue, TypeKept DEF TypeOK
<1>7. LifeInv(conn[c])' /\ EventInv(c)' /\ ShutInv(c)'
  BY <1>2, SameParts DEF EventInv, ShutInv
<1>8. UserInv(c)'
  BY <1>2, <1>3 DEF UserInv
<1>9. UseInv' /\ FailuresExplained'
  BY <1>2, SameParts DEF UseInv, FailuresExplained
<1>10. (Connecting(c)' <=> Connecting(c)) /\ (Closed(c)' <=> Closed(c))
  BY <1>2 DEF Connecting, Closed
<1>11. \A x \in Made : x # c => conn'[x] = conn[x] /\ (x \in user' => x \in user)
  BY <1>2, <1>3
<1>. QED BY <1>2, <1>6, <1>7, <1>8, <1>9, <1>10, <1>11, StillStep

LEMMA ReleasesStep ==
  ASSUME IInv, UNCHANGED use, NEW c \in Made, userReleases(c)
  PROVE  IInv'
<1>1. TypeOK
  BY DEF IInv
<1>2. UNCHANGED <<conn, loopOf, peer, connections_, next_, server, queue, batch, called, stopped,
                  user, sends, failed>>
  BY DEF userReleases, serverVars, loopsVars
<1>3. held' = held \ {c} /\ c \notin user
  BY DEF userReleases
<1>4. user' \subseteq held' /\ held' \subseteq Made
  BY <1>1, <1>2, <1>3 DEF TypeOK
<1>6. TypeOK'
  BY <1>1, <1>2, <1>4, NoQueue, TypeKept DEF TypeOK
<1>7. LifeInv(conn[c])' /\ EventInv(c)' /\ ShutInv(c)' /\ UserInv(c)'
  BY <1>2, SameParts DEF EventInv, ShutInv, UserInv
<1>9. UseInv' /\ FailuresExplained'
  <2>1. UseInv'
    BY <1>2, <1>3, SameParts DEF UseInv
  <2>2. FailuresExplained'
    BY <1>2, SameParts DEF FailuresExplained
  <2>. QED BY <2>1, <2>2
<1>10. (Connecting(c)' <=> Connecting(c)) /\ (Closed(c)' <=> Closed(c))
  BY <1>2 DEF Connecting, Closed
<1>11. \A x \in Made : x # c => conn'[x] = conn[x] /\ (x \in user' => x \in user)
  BY <1>2
<1>. QED BY <1>2, <1>6, <1>7, <1>9, <1>10, <1>11, StillStep

LEMMA QueuesStep ==
  ASSUME IInv, UNCHANGED use, NEW c \in Made, userQueues(c)
  PROVE  IInv'
<1>1. TypeOK /\ loopOf[c] \in Loops
  BY ConnTypes DEF IInv
<1>2. UNCHANGED <<conn, loopOf, peer, connections_, next_, server, batch, called, stopped,
                  held, sends>>
  BY DEF userQueues, serverVars
<1>3. c \in user /\ user' = user \ {c} /\ Assert_(loopOf[c] \notin stopped, "runInLoop")
  BY DEF userQueues
<1>4. use.thread /\ ~Connecting(c)
  <2>1. held # {} /\ use.thread \in BOOLEAN
    BY <1>1, <1>3, UseTypes DEF TypeOK
  <2>. QED BY <1>3, <2>1, SameParts DEF UseInv, UserInv, Connecting
<1>5. FailuresExplained'
  <2>1. loopOf[c] \in stopped => use.destroy
    BY <1>1, UseTypes, SameParts DEF UseInv
  <2>2. loopOf[c] \in stopped => "runInLoop" \in MayFail(use)
    BY <1>4, <2>1 DEF MayFail
  <2>. QED BY <1>1, <1>3, <2>2, AssertKept, SameParts
<1>6. failed' \subseteq Names
  BY <1>1, <1>3 DEF Assert_, TypeOK, Names
<1>7. /\ called' \in [Loops -> Nat] /\ \A l \in Loops : called'[l] <= Len(batch[l])
      /\ user' \subseteq held' /\ held' \subseteq Made
  BY <1>1, <1>2, <1>3 DEF TypeOK
<1>8. LifeInv(conn[c])' /\ EventInv(c)' /\ ShutInv(c)' /\ UserInv(c)' /\ UseInv'
  BY <1>2, <1>3, SameParts DEF EventInv, ShutInv, UserInv, UseInv
<1>9. (Connecting(c)' <=> Connecting(c)) /\ (Closed(c)' <=> Closed(c))
  BY <1>2 DEF Connecting, Closed
<1>10. \A x \in Made : x # c => conn'[x] = conn[x] /\ (x \in user' => x \in user)
  BY <1>2, <1>3
\* The loop is gone.
<1>11. CASE loopOf[c] \in stopped
  <2>1. UNCHANGED queue
    BY <1>11 DEF userQueues
  <2>2. queue' \in [Loops -> Seq(Functors)]
    BY <1>1, <1>2, <2>1, NoQueue
  <2>3. TypeOK'
    BY <1>1, <1>2, <1>6, <1>7, <2>2, TypeKept DEF TypeOK, Names
  <2>. QED BY <1>2, <1>5, <1>8, <1>9, <1>10, <2>1, <2>3, StillStep
<1>12. CASE loopOf[c] \notin stopped
  <2>. DEFINE d == 0
              f == Functor("sendInLoop", c)
              S == {f}
  <2>1. f \in Functors
    BY DEF Functors, Functor, Operations
  <2>2. Queues(loopOf[c], S) /\ Counts(Base, d)
    BY <1>2, <1>12, <2>1 DEF Queues, Counts, userQueues, Post
  <2>3. queue' \in [Loops -> Seq(Functors)]
    BY <1>1, <2>2, QueuesType
  <2>4. TypeOK'
    BY <1>1, <1>2, <1>6, <1>7, <2>3, TypeKept DEF TypeOK, Names
  <2>5. \A g \in S : \/ \E op \in Callbacks : g = Functor(op, c)
                     \/ g = Functor("sendInLoop", c) /\ use.thread /\ ~Connecting(c)
    BY <1>4
  <2>6. d \in {0, 1} /\ d # 1 /\ Base \in Loops
    BY DEF Loops
  <2>. HIDE DEF d, S
  <2>. QED BY <1>1, <1>2, <1>5, <1>8, <1>9, <1>10, <2>2, <2>4, <2>5, <2>6, CalmStep
<1>. QED BY <1>11, <1>12

LEMMA CallbacksQueued ==
  ASSUME TypeOK, NEW c \in Made, NEW cb, cb \subseteq Callbacks, queue' = PostCallbacks(c, cb)
  PROVE  \E S : /\ Queues(loopOf[c], S)
                /\ \A f \in S : \E op \in Callbacks : f = Functor(op, c)
<1>1. CASE cb = {}
  <2>1. Queues(loopOf[c], {})
    BY <1>1 DEF Queues, PostCallbacks
  <2>. QED BY <2>1
<1>2. CASE cb # {}
  <2>. PICK op \in Callbacks : op = CHOOSE x \in cb : TRUE
    BY <1>2
  <2>. DEFINE f == Functor(op, c)
  <2>1. f \in Functors
    BY DEF Functors, Functor, Operations, Callbacks, Strong
  <2>2. queue' = [queue EXCEPT ![loopOf[c]] = Append(@, f)]
    BY <1>2 DEF PostCallbacks, Post
  <2>3. Queues(loopOf[c], {f})
    BY <2>1, <2>2 DEF Queues
  <2>. QED BY <2>3
<1>. QED BY <1>1, <1>2

\* Sending on c, or writing, when k is what the handlers before have made of c.
LEMMA OutcomeStep ==
  ASSUME IInv, UNCHANGED <<use, loopOf, next_, server, batch, stopped, connections_, held, user>>,
         NEW c \in Made, NEW k \in Connection, LifeInv(k),
         k.state_ = conn[c].state_, k.added = conn[c].added,
         k.revents = conn[c].revents \/ k.revents = {},
         NEW o, Good(k, o), conn' = [conn EXCEPT ![c] = o.k],
         queue' = PostCallbacks(c, o.callbacks),
         NEW m \in Loops, NEW d \in {0, 1}, Counts(m, d),
         called' \in [Loops -> Nat], \A l \in Loops : called'[l] <= Len(batch[l]),
         d = 1 => \E op \in {"sendInLoop"} \cup Callbacks : Pending(m)[1] = Functor(op, c),
         peer' \in Seq({"open", "reset", "closed"}), Len(peer') = Len(peer),
         sends' \in Seq(Nat), Len(sends') = Len(sends),
         failed' \subseteq Names, FailuresExplained'
  PROVE  IInv'
<1>1. TypeOK /\ loopOf[c] \in Loops /\ conn[c] \in Connection
  BY ConnTypes DEF IInv
<1>2. SameLife(k, o.k) /\ BufferInv(o.k) /\ o.callbacks \subseteq Callbacks
  BY DEF Good
<1>3. PICK S : /\ Queues(loopOf[c], S)
               /\ \A f \in S : \E op \in Callbacks : f = Functor(op, c)
  BY <1>1, <1>2, CallbacksQueued
<1>4. o.k \in Connection
  BY <1>2 DEF SameLife
<1>5. conn' \in Seq(Connection) /\ Len(conn') = Len(conn) /\ conn'[c] = o.k
      /\ \A x \in Made : x # c => conn'[x] = conn[x]
  BY <1>1, <1>4, Updated
<1>6. queue' \in [Loops -> Seq(Functors)]
  BY <1>1, <1>3, QueuesType
<1>7. held' \subseteq Made /\ user' \subseteq held' /\ connections_' \subseteq connections_
  BY <1>1 DEF TypeOK
<1>8. TypeOK'
  BY <1>1, <1>5, <1>6, <1>7, TypeKept DEF Names
<1>9. LifeInv(conn[c])'
  BY <1>2, <1>5, LifeOfBuffer
<1>10. /\ conn'[c].state_ = conn[c].state_ /\ conn'[c].added = conn[c].added
       /\ conn'[c].revents = conn[c].revents \/ conn'[c].revents = {}
  BY <1>2, <1>5 DEF SameLife
<1>11. EventInv(c)' /\ ShutInv(c)' /\ UserInv(c)'
  BY <1>10, SameParts DEF EventInv, ShutInv, UserInv
<1>12. UseInv'
  BY SameParts DEF UseInv
<1>13. (Connecting(c)' <=> Connecting(c)) /\ (Closed(c)' <=> Closed(c))
  BY <1>10 DEF Connecting, Closed
<1>14. \A x \in Made : x # c => conn'[x] = conn[x] /\ (x \in user' => x \in user)
  BY <1>5
<1>15. Len(conn') = Len(conn) /\ conn'[c].added = conn[c].added
  BY <1>5, <1>10
<1>16. \A f \in S : \/ \E op \in Callbacks : f = Functor(op, c)
                    \/ f = Functor("sendInLoop", c) /\ use.thread /\ ~Connecting(c)
  BY <1>3
<1>17. Queues(loopOf[c], S) /\ loopOf[c] \in Loops
  BY <1>1, <1>3
<1>. QED BY <1>8, <1>9, <1>11, <1>12, <1>13, <1>14, <1>15, <1>16, <1>17, CalmStep

LEMMA SendStep ==
  ASSUME IInv, UNCHANGED use, NEW c \in Made, NEW n \in 1..2, send(c, n)
  PROVE  IInv'
<1>. DEFINE k == conn[c]
            d == 0
<1>1. TypeOK /\ k \in Connection /\ LifeInv(k) /\ Base \in Loops
  BY UseTypes, SameParts
<1>2. UNCHANGED <<loopOf, peer, connections_, next_, server, batch, called, stopped,
                  held, user, failed>>
  BY DEF send, serverVars
<1>3. PICK o \in sendInLoop(k, n, peer[c] = "open") :
               /\ conn' = [conn EXCEPT ![c] = o.k]
               /\ queue' = PostCallbacks(c, o.callbacks)
  BY DEF send
<1>4. k.state_ = "kConnected"
  BY DEF send
<1>5. Good(k, o)
  BY <1>1, <1>4, BufferOfLife, Sent
<1>6. sends' \in Seq(Nat) /\ Len(sends') = Len(sends)
  BY <1>1, CountedSend DEF send
<1>7. /\ called' \in [Loops -> Nat] /\ \A l \in Loops : called'[l] <= Len(batch[l])
      /\ peer' \in Seq({"open", "reset", "closed"}) /\ Len(peer') = Len(peer)
      /\ failed' \subseteq Names
  BY <1>1, <1>2 DEF TypeOK, Names
<1>8. FailuresExplained'
  BY <1>2, SameParts DEF FailuresExplained
<1>9. Counts(Base, d) /\ d \in {0, 1} /\ d # 1
  BY <1>2 DEF Counts
<1>10. k.state_ = conn[c].state_ /\ k.added = conn[c].added /\ k.revents = conn[c].revents
  OBVIOUS
<1>. HIDE DEF k, d
<1>. QED BY <1>1, <1>2, <1>3, <1>5, <1>6, <1>7, <1>8, <1>9, <1>10, OutcomeStep
-----------------------------------------------------------------------------
(***************************************************************************)
(* The functors.                                                           *)
(***************************************************************************)
LEMMA Calling ==
  ASSUME IInv, NEW l \in Loops, NEW c \in Made, NEW op, calls(l, op, c)
  PROVE  /\ TypeOK /\ ConnInv(c) /\ conn[c] \in Connection
         /\ Counts(l, 1) /\ called' \in [Loops -> Nat]
         /\ \A m \in Loops : called'[m] <= Len(batch[m])
         /\ UNCHANGED <<loopOf, peer, batch, stopped, next_, server, user, sends>>
         /\ Pending(l)[1] = Functor(op, c) /\ Len(Pending(l)) > 0
         /\ Awaits(l, op, c) /\ batch[l] # <<>>
         /\ \A m \in Loops : FunctorInv(m, c)
         /\ peer' \in Seq({"open", "reset", "closed"}) /\ Len(peer') = Len(peer)
         /\ sends' \in Seq(Nat) /\ Len(sends') = Len(sends)
<1>1. TypeOK /\ ConnInv(c) /\ conn[c] \in Connection
  BY SameParts
<1>2. called' = [called EXCEPT ![l] = @ + 1] /\ called[l] < Len(batch[l])
  BY DEF calls
<1>3. UNCHANGED <<loopOf, peer, batch, stopped, next_, server, user, sends>>
  BY DEF calls
<1>4. called' \in [Loops -> Nat]
  BY <1>1, <1>2 DEF TypeOK
<1>5. ASSUME NEW m \in Loops PROVE called'[m] <= Len(batch[m])
  <2>1. called[m] \in Nat /\ called[m] <= Len(batch[m]) /\ Len(batch[m]) \in Nat
    BY <1>1, LoopTypes
  <2>2. called'[m] = IF m = l THEN called[m] + 1 ELSE called[m]
    BY <1>1, <1>2 DEF TypeOK
  <2>. QED BY <1>2, <2>1, <2>2
<1>6. Counts(l, 1)
  BY <1>2 DEF Counts
<1>7. /\ peer' \in Seq({"open", "reset", "closed"}) /\ Len(peer') = Len(peer)
      /\ sends' \in Seq(Nat) /\ Len(sends') = Len(sends)
  BY <1>1, <1>3 DEF TypeOK
<1>8. \A m \in Loops : FunctorInv(m, c)
  BY DEF IInv
<1>. QED BY <1>1, <1>3, <1>4, <1>5, <1>6, <1>7, <1>8, CallsFirst

LEMMA SendInLoopStep ==
  ASSUME IInv, UNCHANGED use, NEW l \in Loops, NEW c \in Made, callSendInLoop(l, c)
  PROVE  IInv'
<1>. DEFINE k == conn[c]
            d == 1
<1>0. calls(l, "sendInLoop", c)
  BY DEF callSendInLoop
<1>1. TypeOK /\ k \in Connection /\ LifeInv(k)
  BY SameParts
<1>2. UNCHANGED <<loopOf, peer, connections_, next_, server, batch, stopped, held, user, sends>>
  BY <1>0, Calling DEF callSendInLoop
<1>3. PICK o \in sendInLoop(k, 1, peer[c] = "open") :
               /\ conn' = [conn EXCEPT ![c] = o.k]
               /\ queue' = PostCallbacks(c, o.callbacks)
  BY DEF callSendInLoop
<1>4. use.thread /\ k.state_ # "kConnecting"
  BY <1>0, Calling DEF FunctorInv, SendInv
<1>5. Good(k, o)
  BY <1>1, <1>4, BufferOfLife, Sent
<1>6. failed' \subseteq Names
  BY <1>1 DEF callSendInLoop, Assert_, TypeOK, Names
<1>7. FailuresExplained'
  <2>1. Assert_(Alive(c), "sendInLoop") /\ FailuresExplained
    BY SameParts DEF callSendInLoop
  <2>2. "sendInLoop" \in MayFail(use)
    BY <1>4 DEF MayFail
  <2>. QED BY <1>1, <2>1, <2>2, AssertKept
<1>8. Pending(l)[1] = Functor("sendInLoop", c)
  BY <1>0, Calling
<1>9. Counts(l, d) /\ d \in {0, 1}
  BY <1>0, Calling
<1>10. k.state_ = conn[c].state_ /\ k.added = conn[c].added /\ k.revents = conn[c].revents
  OBVIOUS
<1>11. /\ called' \in [Loops -> Nat] /\ \A m \in Loops : called'[m] <= Len(batch[m])
       /\ peer' \in Seq({"open", "reset", "closed"}) /\ Len(peer') = Len(peer)
       /\ sends' \in Seq(Nat) /\ Len(sends') = Len(sends)
  BY <1>0, Calling
<1>12. \E op \in {"sendInLoop"} \cup Callbacks : Pending(l)[1] = Functor(op, c)
  BY <1>8
<1>. HIDE DEF k, d
<1>. QED BY <1>1, <1>2, <1>3, <1>5, <1>6, <1>7, <1>9, <1>10, <1>11, <1>12, OutcomeStep

LEMMA UserStep ==
  ASSUME IInv, UNCHANGED use, NEW l \in Loops, NEW c \in Made, callUser(l, c)
  PROVE  IInv'
<1>. DEFINE d == 1
            S == {}
<1>0. PICK op \in Callbacks : calls(l, op, c)
  BY DEF callUser, Callbacks
<1>1. TypeOK
  BY DEF IInv
<1>2. UNCHANGED <<conn, loopOf, peer, connections_, next_, server, queue, batch, stopped,
                  held, user, sends, failed>>
  BY <1>0, Calling DEF callUser
<1>3. /\ called' \in [Loops -> Nat] /\ \A m \in Loops : called'[m] <= Len(batch[m])
      /\ queue' \in [Loops -> Seq(Functors)]
  BY <1>0, <1>1, <1>2, Calling DEF TypeOK, Functors
<1>4. TypeOK'
  BY <1>1, <1>2, <1>3, TypeKept DEF TypeOK
<1>5. LifeInv(conn[c])' /\ EventInv(c)' /\ ShutInv(c)' /\ UserInv(c)'
  BY <1>2, SameParts DEF EventInv, ShutInv, UserInv
<1>6. UseInv' /\ FailuresExplained'
  BY <1>2, SameParts DEF UseInv, FailuresExplained
<1>7. (Connecting(c)' <=> Connecting(c)) /\ (Closed(c)' <=> Closed(c))
  BY <1>2 DEF Connecting, Closed
<1>8. \E x \in {"sendInLoop"} \cup Callbacks : Pending(l)[1] = Functor(x, c)
  BY <1>0, Calling
<1>9. Counts(l, d) /\ d \in {0, 1} /\ Queues(l, S) /\ \A f \in S : FALSE
  BY <1>0, <1>2, Calling DEF Queues
<1>10. \A x \in Made : x # c => conn'[x] = conn[x] /\ (x \in user' => x \in user)
  BY <1>2
<1>. HIDE DEF d, S
<1>. QED BY <1>2, <1>4, <1>5, <1>6, <1>7, <1>8, <1>9, <1>10, CalmStep

LEMMA EstablishedStep ==
  ASSUME IInv, UNCHANGED use, NEW l \in Loops, NEW c \in Made, callConnectEstablished(l, c)
  PROVE  IInv'
<1>. DEFINE k == connectEstablished(conn[c])
            d == 1
            S == {}
<1>0. calls(l, "connectEstablished", c)
  BY DEF callConnectEstablished
<1>1. TypeOK /\ conn[c] \in Connection /\ LifeInv(conn[c]) /\ loopOf[c] \in Loops /\ Base \in Loops
  BY SameParts, ConnTypes, UseTypes
<1>2. UNCHANGED <<loopOf, peer, connections_, next_, server, queue, batch, stopped, user, sends>>
  BY <1>0, Calling DEF callConnectEstablished
<1>3. l = loopOf[c] /\ conn[c].state_ = "kConnecting"
  BY <1>0, Calling DEF FunctorInv, EstablishInv
<1>4. k \in Connection
  <2>1. conn[c].ups + 1 \in Nat /\ {"R"} \in SUBSET {"R", "W"} /\ "kConnected" \in States
    BY <1>1 DEF Connection, States
  <2>. QED BY <1>1, <2>1 DEF connectEstablished, Connection
<1>5. conn' = [conn EXCEPT ![c] = k]
  BY DEF callConnectEstablished
<1>6. /\ k.state_ = "kConnected" /\ k.events = {"R"} /\ k.added = TRUE
      /\ k.revents = conn[c].revents /\ k.out = conn[c].out /\ k.fin = conn[c].fin
      /\ k.ups = conn[c].ups + 1 /\ k.downs = conn[c].downs
  BY <1>1 DEF connectEstablished, Connection
<1>. HIDE DEF k
<1>7. conn' \in Seq(Connection) /\ Len(conn') = Len(conn) /\ conn'[c] = k
      /\ \A x \in Made : x # c => conn'[x] = conn[x]
  BY <1>1, <1>4, <1>5, Updated
<1>8. /\ called' \in [Loops -> Nat] /\ \A m \in Loops : called'[m] <= Len(batch[m])
      /\ queue' \in [Loops -> Seq(Functors)]
  BY <1>0, <1>1, <1>2, Calling DEF TypeOK, Functors
<1>9. held' = (IF use.thread THEN held \cup {c} ELSE held)
  BY DEF callConnectEstablished, Handed
<1>10. held' \subseteq Made /\ user' \subseteq held'
  BY <1>1, <1>2, <1>9 DEF TypeOK
<1>11. Assert_(conn[c].state_ = "kConnecting", "connectEstablished")
  BY DEF callConnectEstablished
<1>12. failed' = failed
  BY <1>3, <1>11 DEF Assert_
<1>13. TypeOK'
  BY <1>1, <1>2, <1>7, <1>8, <1>10, <1>12, TypeKept DEF TypeOK
<1>14. UseInv' /\ FailuresExplained'
  <2>1. UseInv'
    BY <1>2, <1>9, SameParts DEF UseInv
  <2>2. FailuresExplained'
    BY <1>12, SameParts DEF FailuresExplained
  <2>. QED BY <2>1, <2>2
<1>15. LifeInv(conn[c])'
  <2>1. LifeInv(k)
    BY <1>1, <1>3, <1>6 DEF LifeInv, isWriting
  <2>. QED BY <1>7, <2>1
<1>16. EventInv(c)' /\ ShutInv(c)' /\ UserInv(c)'
  BY <1>1, <1>3, <1>6, <1>7 DEF EventInv, ShutInv, UserInv, LifeInv
<1>17. MapInv(c)'
  BY <1>2, <1>3, <1>6, <1>7, SameParts DEF MapInv
<1>18. d \in {0, 1} /\ Counts(l, d) /\ Queues(l, S)
  BY <1>0, <1>2, Calling DEF Queues
<1>19. \A m \in Loops : Moves(m, At(l, d)[m], News(l, S)[m])
  BY <1>1, <1>2, <1>13, <1>18, AllMove
<1>20. \A m \in Loops : News(l, S)[m] = {} /\ (m # l => At(l, d)[m] = 0) /\ At(l, d)[l] = 1
  BY DEF News, At
<1>21. Pending(l)[1] = Functor("connectEstablished", c) /\ Len(Pending(l)) > 0
  BY <1>0, Calling
<1>22. \A op : Functor(op, c) = Functor("connectEstablished", c) => op = "connectEstablished"
  BY DEF Functor
<1>. HIDE DEF d, S
<1>23. CoverInv(c)'
  <2>1. loopOf[c] \notin stopped => Covered(c)
    BY <1>3, SameParts DEF CoverInv, Covered
  <2>2. \A m \in Loops : \A op \in {"removeConnectionInLoop", "connectDestroyed"} :
           Awaits(m, op, c) => Awaits(m, op, c)'
    BY <1>19, <1>20, <1>21, <1>22, AwaitsKept
  <2>3. Covered(c) => Covered(c)'
    BY <1>1, <1>2, <2>2 DEF Covered
  <2>. QED BY <1>2, <1>6, <1>7, <2>1, <2>3 DEF CoverInv, Covered
<1>24. ConnInv(c)'
  BY <1>15, <1>16, <1>17, <1>23 DEF ConnInv
<1>25. ASSUME NEW m \in Loops PROVE FunctorInv(m, c)'
  <2>1. Moves(m, At(l, d)[m], {}) /\ FunctorInv(m, c)
    BY <1>0, <1>19, <1>20, Calling
  <2>2. Unique(Pending(m), "connectEstablished", c)'
    BY <2>1, UniqueKept DEF Moves, FunctorInv, EstablishInv
  <2>3. ~Awaits(m, "connectEstablished", c)'
    <3>1. CASE m = l
      BY <1>20, <1>21, <2>1, <3>1, CalledGone DEF Moves, Awaits, FunctorInv, EstablishInv
    <3>2. CASE m # l
      <4>1. ~Awaits(m, "connectEstablished", c)
        BY <1>3, <2>1, <3>2 DEF FunctorInv, EstablishInv
      <4>. QED BY <2>1, <4>1, WaitsOld DEF Moves, Awaits
    <3>. QED BY <3>1, <3>2
  <2>4. EstablishInv(m, c)'
    BY <2>2, <2>3 DEF EstablishInv
  <2>5. DestroyInv(m, c)'
    <3>1. Awaits(m, "connectDestroyed", c)' => Awaits(m, "connectDestroyed", c)
      BY <2>1, WaitsOld DEF Moves, Awaits
    <3>2. Awaits(m, "connectDestroyed", c) => m = loopOf[c] /\ ~ClosedFirst
      BY <1>3, <2>1 DEF FunctorInv, DestroyInv
    <3>3. ClosedFirst' <=> ClosedFirst
      BY DEF ClosedFirst
    <3>. QED BY <1>2, <1>6, <1>7, <3>1, <3>2, <3>3 DEF DestroyInv
  <2>6. ~Connecting(c)' /\ ~Closed(c)
    BY <1>3, <1>6, <1>7 DEF Connecting, Closed
  <2>7. RemoveInv(m, c)'
    <3>1. Awaits(m, "removeConnectionInLoop", c)' => Awaits(m, "removeConnectionInLoop", c)
      BY <2>1, WaitsOld DEF Moves, Awaits
    <3>2. ~Awaits(m, "removeConnectionInLoop", c)
      BY <1>3, <2>1 DEF FunctorInv, RemoveInv
    <3>3. Unique(Pending(m), "removeConnectionInLoop", c)'
      BY <2>1, UniqueKept DEF Moves, FunctorInv, RemoveInv
    <3>. QED BY <3>1, <3>2, <3>3 DEF RemoveInv
  <2>8. SendInv(m, c)'
    BY <2>1, <2>6, SendKept DEF FunctorInv
  <2>. QED BY <2>4, <2>5, <2>7, <2>8 DEF FunctorInv
<1>26. Only(S, c) /\ Pending(l)[1].conn = c
  BY <1>21 DEF Only, Functor, S
<1>27. Len(conn') = Len(conn)
       /\ \A x \in Made : x # c => /\ conn'[x] = conn[x]
                                   /\ x \in connections_' <=> x \in connections_
                                   /\ x \in user' => x \in user
  BY <1>2, <1>7
<1>. QED BY <1>2, <1>13, <1>14, <1>18, <1>24, <1>25, <1>26, <1>27, OneStep

LEMMA Destroyed ==
  ASSUME NEW j \in Connection, LifeInv(j), j.state_ # "kConnecting", j.revents = {},
         NEW k, k = connectDestroyed(j)
  PROVE  /\ k \in Connection /\ LifeInv(k) /\ k.added = FALSE /\ k.revents = {}
         /\ k.state_ = (IF j.state_ = "kConnected" THEN "kDisconnected" ELSE j.state_)
<1>1. CASE j.state_ = "kConnected"
  <2>1. k = [j EXCEPT !.events = {}, !.state_ = "kDisconnected", !.downs = @ + 1, !.added = FALSE]
    BY <1>1 DEF connectDestroyed, beforeRemove, disableAll, Connection
  <2>2. j.downs + 1 \in Nat /\ {} \in SUBSET {"R", "W"} /\ "kDisconnected" \in States
    BY DEF Connection, States
  <2>3. k \in Connection
    BY <2>1, <2>2 DEF Connection
  <2>4. /\ k.state_ = "kDisconnected" /\ k.events = {} /\ k.added = FALSE
        /\ k.revents = j.revents /\ k.out = j.out /\ k.fin = j.fin
        /\ k.ups = j.ups /\ k.downs = j.downs + 1
    BY <2>1 DEF Connection
  <2>5. LifeInv(k)
    BY <1>1, <2>4 DEF LifeInv, isWriting
  <2>. QED BY <1>1, <2>3, <2>4, <2>5
<1>2. CASE j.state_ # "kConnected"
  <2>1. k = [j EXCEPT !.added = FALSE]
    BY <1>2 DEF connectDestroyed, beforeRemove
  <2>2. k \in Connection
    BY <2>1 DEF Connection
  <2>3. /\ k.state_ = j.state_ /\ k.events = j.events /\ k.added = FALSE
        /\ k.revents = j.revents /\ k.out = j.out /\ k.fin = j.fin
        /\ k.ups = j.ups /\ k.downs = j.downs
    BY <2>1 DEF Connection
  <2>4. LifeInv(k)
    BY <1>2, <2>3 DEF LifeInv, isWriting
  <2>. QED BY <1>2, <2>2, <2>3, <2>4
<1>. QED BY <1>1, <1>2

\* The same for a connection whose events are no longer handled.
LEMMA Cleared ==
  ASSUME NEW j \in Connection, LifeInv(j), j.state_ # "kConnecting",
         NEW k, k = [connectDestroyed(j) EXCEPT !.revents = {}]
  PROVE  /\ k \in Connection /\ LifeInv(k) /\ k.added = FALSE /\ k.revents = {}
         /\ k.state_ = (IF j.state_ = "kConnected" THEN "kDisconnected" ELSE j.state_)
<1>. PICK i : i = [j EXCEPT !.revents = {}]
  OBVIOUS
<1>1. /\ i \in Connection /\ i.state_ = j.state_ /\ i.revents = {}
      /\ i.events = j.events /\ i.added = j.added /\ i.out = j.out
      /\ i.ups = j.ups /\ i.downs = j.downs
  BY DEF Connection
<1>2. LifeInv(i)
  BY <1>1 DEF LifeInv, isWriting
<1>3. k = connectDestroyed(i)
  BY <1>1 DEF connectDestroyed, beforeRemove, disableAll, Connection
<1>. QED BY <1>1, <1>2, <1>3, Destroyed

LEMMA ClosedRemoveLegal ==
  ASSUME NEW k \in Connection, LifeInv(k), k.state_ # "kDisconnecting"
  PROVE  removeLegal(k)
BY DEF removeLegal, beforeRemove, disableAll, LifeInv, Connection, States

LEMMA DestroyedStep ==
  ASSUME IInv, UNCHANGED use, NEW l \in Loops, NEW c \in Made, callConnectDestroyed(l, c)
  PROVE  IInv'
<1>. DEFINE k == connectDestroyed(conn[c])
            d == 1
            S == {}
<1>0. calls(l, "connectDestroyed", c)
  BY DEF callConnectDestroyed
<1>1. TypeOK /\ conn[c] \in Connection /\ LifeInv(conn[c]) /\ loopOf[c] \in Loops /\ Base \in Loops
  BY SameParts, ConnTypes, UseTypes
<1>2. UNCHANGED <<loopOf, peer, connections_, next_, server, queue, batch, stopped,
                  held, user, sends>>
  BY <1>0, Calling DEF callConnectDestroyed
<1>3. l = loopOf[c] /\ (ClosedFirst => conn[c].state_ = "kDisconnected")
  BY <1>0, Calling DEF FunctorInv, DestroyInv
<1>4. conn[c].state_ # "kConnecting"
  <2>1. Pending(l)[1] = Functor("connectDestroyed", c) /\ Len(Pending(l)) > 0 /\ DestroyInv(l, c)
    BY <1>0, Calling DEF FunctorInv
  <2>2. Len(Pending(l)) \in Nat
    BY <1>1, PendingShape
  <2>. QED BY <2>1, <2>2, DestroyedNotFirst DEF DestroyInv
<1>5. conn[c].revents = {}
  BY <1>0, <1>3, Calling, SameParts DEF EventInv
<1>6. conn' = [conn EXCEPT ![c] = k]
  BY DEF callConnectDestroyed
<1>7. /\ k \in Connection /\ LifeInv(k) /\ k.added = FALSE /\ k.revents = {}
      /\ k.state_ = (IF conn[c].state_ = "kConnected" THEN "kDisconnected" ELSE conn[c].state_)
  BY <1>1, <1>4, <1>5, Destroyed
<1>. HIDE DEF k
<1>8. conn' \in Seq(Connection) /\ Len(conn') = Len(conn) /\ conn'[c] = k
      /\ \A x \in Made : x # c => conn'[x] = conn[x]
  BY <1>1, <1>6, <1>7, Updated
<1>9. /\ called' \in [Loops -> Nat] /\ \A m \in Loops : called'[m] <= Len(batch[m])
      /\ queue' \in [Loops -> Seq(Functors)]
  BY <1>0, <1>1, <1>2, Calling DEF TypeOK, Functors
<1>10. Assert_(removeLegal(conn[c]), "Channel::remove")
  BY DEF callConnectDestroyed
<1>11. failed' \subseteq Names
  BY <1>1, <1>10 DEF Assert_, Names, TypeOK
<1>12. TypeOK'
  BY <1>1, <1>2, <1>8, <1>9, <1>11, TypeKept DEF TypeOK, Names
<1>13. FailuresExplained'
  <2>1. conn[c].state_ = "kDisconnecting" => use.shutdown /\ use.destroy
    BY <1>3, SameParts DEF ShutInv, ClosedFirst
  <2>2. removeLegal(conn[c]) \/ "Channel::remove" \in MayFail(use)
    BY <1>1, <2>1, ClosedRemoveLegal DEF MayFail
  <2>. QED BY <1>1, <1>10, <2>2, AssertKept, SameParts
<1>14. UseInv'
  BY <1>2, SameParts DEF UseInv
<1>15. LifeInv(conn[c])' /\ EventInv(c)' /\ UserInv(c)'
  BY <1>4, <1>7, <1>8 DEF EventInv, UserInv
<1>16. ShutInv(c)'
  <2>1. ~use.destroy => ClosedFirst
    BY DEF ClosedFirst
  <2>2. conn'[c].state_ = "kDisconnecting" => conn[c].state_ = "kDisconnecting"
    BY <1>7, <1>8
  <2>3. conn'[c].state_ = "kDisconnecting" => use.shutdown /\ use.destroy
    BY <1>3, <2>1, <2>2, SameParts DEF ShutInv
  <2>. QED BY <2>3 DEF ShutInv
<1>17. MapInv(c)'
  BY <1>2, <1>4, <1>7, <1>8, SameParts DEF MapInv
<1>18. CoverInv(c)'
  BY <1>4, <1>7, <1>8 DEF CoverInv
<1>19. ConnInv(c)'
  BY <1>15, <1>16, <1>17, <1>18 DEF ConnInv
<1>20. d \in {0, 1} /\ Counts(l, d) /\ Queues(l, S)
  BY <1>0, <1>2, Calling DEF Queues
<1>21. \A m \in Loops : Moves(m, At(l, d)[m], News(l, S)[m])
  BY <1>1, <1>2, <1>12, <1>20, AllMove
<1>22. Settled(c)
  BY <1>2, <1>4, <1>7, <1>8, SameParts DEF Settled, Connecting, Closed
<1>23. Pending(l)[1] = Functor("connectDestroyed", c)
  BY <1>0, Calling
<1>24. ASSUME NEW m \in Loops PROVE FunctorInv(m, c)'
  <2>1. Moves(m, At(l, d)[m], News(l, S)[m]) /\ FunctorInv(m, c)
    BY <1>0, <1>21, Calling
  <2>2. Foreign(News(l, S)[m], c)
    BY DEF Foreign, News
  <2>3. At(l, d)[m] = 1 => Pending(m)[1] # Functor("connectEstablished", c)
    BY <1>23 DEF At, Functor
  <2>. QED BY <1>22, <2>1, <2>2, <2>3, FunctorsKept
<1>25. Only(S, c) /\ Pending(l)[1].conn = c
  BY <1>23 DEF Only, Functor
<1>26. Len(conn') = Len(conn)
       /\ \A x \in Made : x # c => /\ conn'[x] = conn[x]
                                   /\ x \in connections_' <=> x \in connections_
                                   /\ x \in user' => x \in user
  BY <1>2, <1>8
<1>. HIDE DEF d, S
<1>. QED BY <1>2, <1>12, <1>13, <1>14, <1>19, <1>20, <1>24, <1>25, <1>26, OneStep

\* The server of a connection in a pool is there, unless the program destroys it.
LEMMA PoolStaysUp ==
  ASSUME TypeOK, UseInv, NEW c \in Made, loopOf[c] # Base
  PROVE  server = "up" \/ "removeConnectionInLoop" \in MayFail(use)
<1>1. loopOf[c] \in PoolLoops(use)
  BY ConnTypes DEF Loops
<1>2. use.pool # <<>>
  BY <1>1 DEF PoolLoops
<1>. QED BY <1>2, UseTypes DEF MayFail, UseInv

LEMMA RemoveStep ==
  ASSUME IInv, UNCHANGED use, NEW l \in Loops, NEW c \in Made, callRemoveConnectionInLoop(l, c)
  PROVE  IInv'
<1>. DEFINE d == 1
            f == Functor("connectDestroyed", c)
            S == {f}
            q == loopOf[c]
<1>0. calls(l, "removeConnectionInLoop", c)
  BY DEF callRemoveConnectionInLoop
<1>1. TypeOK /\ conn[c] \in Connection /\ q \in Loops /\ Base \in Loops
  BY SameParts, ConnTypes, UseTypes
<1>2. UNCHANGED <<conn, loopOf, peer, next_, server, batch, stopped, held, user, sends>>
  BY <1>0, Calling DEF callRemoveConnectionInLoop
<1>3. /\ l = Base /\ loopOf[c] # Base /\ conn[c].state_ = "kDisconnected"
      /\ server = "up" => c \in connections_
  BY <1>0, Calling DEF FunctorInv, RemoveInv
<1>4. f \in Functors
  BY DEF Functors, Functor, Operations, Strong
<1>5. d \in {0, 1} /\ Counts(l, d) /\ Queues(q, S)
  <2>1. queue' = [queue EXCEPT ![q] = Append(@, f)]
    BY DEF callRemoveConnectionInLoop, kept, Post
  <2>. QED BY <1>0, <1>4, <2>1, Calling DEF Queues
<1>6. /\ called' \in [Loops -> Nat] /\ \A m \in Loops : called'[m] <= Len(batch[m])
      /\ queue' \in [Loops -> Seq(Functors)]
  BY <1>0, <1>1, <1>5, Calling, QueuesType
<1>7. Assert_(server = "up" /\ c \in connections_, "removeConnectionInLoop")
  BY DEF callRemoveConnectionInLoop
<1>8. failed' \subseteq Names
  BY <1>1, <1>7 DEF Assert_, Names, TypeOK
<1>9. connections_' = connections_ \ {c}
  BY DEF callRemoveConnectionInLoop
<1>10. TypeOK'
  BY <1>1, <1>2, <1>6, <1>8, <1>9, TypeKept DEF TypeOK, Names
<1>11. FailuresExplained'
  <2>1. \/ server = "up" /\ c \in connections_
        \/ "removeConnectionInLoop" \in MayFail(use)
    BY <1>1, <1>3, PoolStaysUp, SameParts
  <2>. QED BY <1>1, <1>7, <2>1, AssertKept, SameParts
<1>12. UseInv'
  BY <1>2, SameParts DEF UseInv
<1>13. LifeInv(conn[c])' /\ EventInv(c)' /\ ShutInv(c)' /\ UserInv(c)'
  BY <1>2, SameParts DEF EventInv, ShutInv, UserInv
<1>14. MapInv(c)'
  BY <1>2, <1>3 DEF MapInv
<1>15. \A m \in Loops : Moves(m, At(l, d)[m], News(q, S)[m])
  BY <1>1, <1>2, <1>5, <1>10, AllMove
<1>16. CoverInv(c)'
  <2>1. News(q, S)[q] = S /\ f \in S
    BY <1>1 DEF News
  <2>2. ASSUME NEW m \in Loops, m = q PROVE Awaits(m, "connectDestroyed", c)'
    BY <1>15, <2>1, <2>2, AwaitsNew
  <2>3. Awaits(loopOf[c], "connectDestroyed", c)'
    BY <1>1, <1>2, <2>2
  <2>. QED BY <1>2, <1>3, <2>3 DEF CoverInv
<1>17. ConnInv(c)'
  BY <1>13, <1>14, <1>16 DEF ConnInv
<1>18. Pending(l)[1] = Functor("removeConnectionInLoop", c) /\ Len(Pending(l)) > 0
  BY <1>0, Calling
<1>19. \A op, op2 : Functor(op, c) = Functor(op2, c) => op = op2
  BY DEF Functor
<1>20. ~Connecting(c)' /\ Closed(c)'
  BY <1>2, <1>3 DEF Connecting, Closed
<1>21. ASSUME NEW m \in Loops PROVE FunctorInv(m, c)'
  <2>1. Moves(m, At(l, d)[m], News(q, S)[m]) /\ FunctorInv(m, c)
    BY <1>0, <1>15, Calling
  <2>2. /\ Functor("connectEstablished", c) \notin News(q, S)[m]
        /\ Functor("removeConnectionInLoop", c) \notin News(q, S)[m]
        /\ Functor("sendInLoop", c) \notin News(q, S)[m]
        /\ Functor("connectDestroyed", c) \in News(q, S)[m] => m = loopOf[c]
    BY <1>19 DEF News
  <2>3. At(l, d)[m] = 1 => Pending(m)[1] # Functor("connectEstablished", c)
    BY <1>18, <1>19 DEF At
  <2>4. EstablishInv(m, c)'
    BY <1>2, <2>1, <2>2, EstablishKept DEF FunctorInv, Connecting
  <2>5. DestroyInv(m, c)'
    BY <1>2, <1>20, <2>1, <2>2, <2>3, DestroyKept DEF FunctorInv
  <2>6. ~Awaits(m, "removeConnectionInLoop", c)'
    <3>1. CASE m = l
      <4>1. At(l, d)[m] = 1
        BY <3>1 DEF At
      <4>. QED BY <1>18, <2>1, <2>2, <3>1, <4>1, CalledGone
               DEF Moves, Awaits, FunctorInv, RemoveInv
    <3>2. CASE m # l
      <4>1. ~Awaits(m, "removeConnectionInLoop", c)
        BY <1>3, <2>1, <3>2 DEF FunctorInv, RemoveInv
      <4>. QED BY <2>1, <2>2, <4>1, WaitsOld DEF Moves, Awaits
    <3>. QED BY <3>1, <3>2
  <2>7. Unique(Pending(m), "removeConnectionInLoop", c)'
    BY <2>1, <2>2, UniqueKept DEF Moves, FunctorInv, RemoveInv
  <2>8. RemoveInv(m, c)'
    BY <2>6, <2>7 DEF RemoveInv
  <2>9. SendInv(m, c)'
    BY <1>20, <2>1, <2>2, SendKept DEF FunctorInv
  <2>. QED BY <2>4, <2>5, <2>8, <2>9 DEF FunctorInv
<1>22. Only(S, c) /\ Pending(l)[1].conn = c
  BY <1>18 DEF Only, Functor
<1>23. \A x \in Made : x # c => /\ conn'[x] = conn[x]
                                /\ x \in connections_' <=> x \in connections_
                                /\ x \in user' => x \in user
  BY <1>2, <1>9
<1>. HIDE DEF d, S, q
<1>. QED BY <1>1, <1>2, <1>5, <1>10, <1>11, <1>12, <1>17, <1>21, <1>22, <1>23, OneStep
-----------------------------------------------------------------------------
(***************************************************************************)
(* handleEvent.                                                            *)
(***************************************************************************)
LEMMA EventTypes ==
  ASSUME IInv, NEW c \in Made, handleEvent(c)
  PROVE  /\ TypeOK /\ conn[c] \in Connection /\ loopOf[c] \in Loops /\ Base \in Loops
         /\ LifeInv(conn[c]) /\ conn[c].revents # {}
         /\ UNCHANGED <<loopOf, next_, server, batch, called, stopped, held, user, sends>>
         /\ called' \in [Loops -> Nat] /\ \A l \in Loops : called'[l] <= Len(batch[l])
         /\ peer' \in Seq({"open", "reset", "closed"}) /\ Len(peer') = Len(peer)
         /\ held' \subseteq Made /\ user' \subseteq held'
         /\ sends' \in Seq(Nat) /\ Len(sends') = Len(sends)
<1>1. TypeOK /\ conn[c] \in Connection /\ loopOf[c] \in Loops /\ Base \in Loops
      /\ LifeInv(conn[c])
  BY SameParts, ConnTypes, UseTypes
<1>2. UNCHANGED <<loopOf, next_, server, batch, called, stopped, held, user, sends>>
      /\ conn[c].revents # {}
  BY DEF handleEvent, userVars
<1>3. peer' \in Seq({"open", "reset", "closed"}) /\ Len(peer') = Len(peer)
  <2>1. peer' = [peer EXCEPT ![c] = "closed"] \/ peer' = peer
    BY DEF handleEvent
  <2>2. peer \in Seq({"open", "reset", "closed"}) /\ c \in 1..Len(peer)
    BY <1>1 DEF TypeOK, Made
  <2>. QED BY <2>1, <2>2
<1>4. /\ called' \in [Loops -> Nat] /\ \A l \in Loops : called'[l] <= Len(batch[l])
      /\ held' \subseteq Made /\ user' \subseteq held'
      /\ sends' \in Seq(Nat) /\ Len(sends') = Len(sends)
  BY <1>1, <1>2 DEF TypeOK
<1>. QED BY <1>1, <1>2, <1>3, <1>4

LEMMA StayOpenStep ==
  ASSUME IInv, UNCHANGED use, NEW c \in Made, handleEvent(c), ~closes(c)
  PROVE  IInv'
<1>. DEFINE k == [conn[c] EXCEPT !.revents = {}]
            d == 0
<1>1. afterRead(c) = k
  BY DEF afterRead
<1>2. PICK o : /\ o \in handleWrite(k, peer[c] = "open") \/ o = Outcome(k, {})
               /\ conn' = [conn EXCEPT ![c] = o.k]
               /\ queue' = PostCallbacks(c, o.callbacks)
  BY <1>1 DEF handleEvent
<1>3. k \in Connection
  BY EventTypes DEF Connection
<1>4. /\ k.state_ = conn[c].state_ /\ k.added = conn[c].added /\ k.revents = {}
      /\ k.events = conn[c].events /\ k.out = conn[c].out /\ k.fin = conn[c].fin
      /\ k.ups = conn[c].ups /\ k.downs = conn[c].downs
  BY EventTypes DEF Connection
<1>5. connections_' = connections_
  BY DEF handleEvent
<1>6. failed' = failed
  BY DEF handleEvent, Assert_
<1>7. Counts(Base, d) /\ d \in {0, 1} /\ d # 1
  BY EventTypes DEF Counts
<1>. HIDE DEF k, d
<1>8. LifeInv(k)
  BY <1>4, EventTypes DEF LifeInv, isWriting
<1>9. Good(k, o)
  BY <1>2, <1>3, <1>8, BufferOfLife, Written, SameOutcome
<1>10. FailuresExplained' /\ failed' \subseteq Names
  BY <1>6, EventTypes, SameParts DEF FailuresExplained, TypeOK, Names
<1>11. k.state_ = conn[c].state_ /\ k.added = conn[c].added /\ k.revents = {}
  BY <1>4
<1>. QED BY <1>2, <1>3, <1>5, <1>7, <1>8, <1>9, <1>10, <1>11, EventTypes, OutcomeStep

LEMMA CloseStep ==
  ASSUME IInv, UNCHANGED use, NEW c \in Made, handleEvent(c), closes(c)
  PROVE  IInv'
<1>. DEFINE k == handleClose([conn[c] EXCEPT !.revents = {}])
            here == loopOf[c] = Base
            f == Functor(IF here THEN "connectDestroyed" ELSE "removeConnectionInLoop", c)
            S == {f}
            d == 0
<1>1. afterRead(c) = k
  BY DEF afterRead
<1>2. k = [conn[c] EXCEPT !.revents = {}, !.events = {}, !.state_ = "kDisconnected", !.downs = @ + 1]
  BY EventTypes DEF handleClose, disableAll, Connection
<1>3. k \in Connection
  <2>1. /\ conn[c].downs + 1 \in Nat /\ {} \in SUBSET {"R", "W"}
        /\ {} \in SUBSET {"IN", "OUT", "HUP"} /\ "kDisconnected" \in States
    BY EventTypes DEF Connection, States
  <2>. QED BY <1>2, <2>1, EventTypes DEF Connection
<1>4. /\ k.state_ = "kDisconnected" /\ k.events = {} /\ k.revents = {}
      /\ k.added = conn[c].added /\ k.out = conn[c].out /\ k.fin = conn[c].fin
      /\ k.ups = conn[c].ups /\ k.downs = conn[c].downs + 1
  BY <1>2, EventTypes DEF Connection
<1>5. conn' = [conn EXCEPT ![c] = k]
  <2>1. \A open : handleWrite(k, open) = {Outcome(k, {})}
    BY <1>4 DEF handleWrite, isWriting
  <2>2. PICK o \in (IF "OUT" \in conn[c].revents
                   THEN handleWrite(afterRead(c), peer[c] = "open")
                   ELSE {Outcome(afterRead(c), {})}) : conn' = [conn EXCEPT ![c] = o.k]
    BY DEF handleEvent
  <2>3. o = Outcome(k, {})
    BY <1>1, <2>1, <2>2
  <2>. QED BY <2>2, <2>3 DEF Outcome
<1>6. queue' = [queue EXCEPT ![Base] = Append(@, f)]
  BY DEF handleEvent, removal
<1>7. connections_' = IF here THEN connections_ \ {c} ELSE connections_
  BY DEF handleEvent
<1>. HIDE DEF k
<1>8. conn[c].state_ \in {"kConnected", "kDisconnecting"} /\ conn[c].added
  BY EventTypes DEF LifeInv, Connection, States
<1>9. f \in Functors
  BY DEF Functors, Functor, Operations, Strong
<1>10. Queues(Base, S) /\ Counts(Base, d) /\ d \in {0, 1} /\ d # 1
  <2>. HIDE DEF f
  <2>1. Queues(Base, S)
    BY <1>6, <1>9 DEF Queues
  <2>2. Counts(Base, d)
    BY EventTypes DEF Counts
  <2>. QED BY <2>1, <2>2
<1>11. queue' \in [Loops -> Seq(Functors)]
  BY <1>10, EventTypes, QueuesType
<1>12. conn' \in Seq(Connection) /\ Len(conn') = Len(conn) /\ conn'[c] = k
       /\ \A x \in Made : x # c => conn'[x] = conn[x]
  BY <1>3, <1>5, EventTypes, Updated
<1>13. here => c \in connections_
  BY <1>8, EventTypes, SameParts DEF MapInv, TypeOK
<1>14. failed' = failed
  BY <1>8, <1>13 DEF handleEvent, Assert_, closeLegal
<1>15. TypeOK'
  <2>1. failed' \subseteq Names /\ connections_' \subseteq connections_
    BY <1>7, <1>14, EventTypes DEF TypeOK, Names
  <2>. QED BY <1>11, <1>12, <2>1, EventTypes, TypeKept DEF Names
<1>16. UseInv' /\ FailuresExplained'
  BY <1>14, EventTypes, SameParts DEF UseInv, FailuresExplained
<1>17. LifeInv(conn[c])'
  <2>1. LifeInv(k)
    BY <1>4, <1>8, EventTypes DEF LifeInv, isWriting
  <2>. QED BY <1>12, <2>1
<1>18. EventInv(c)' /\ MapInv(c)' /\ ShutInv(c)' /\ UserInv(c)'
  BY <1>4, <1>12 DEF EventInv, MapInv, ShutInv, UserInv
<1>19. \A m \in Loops : Moves(m, At(Base, d)[m], News(Base, S)[m])
  BY <1>10, <1>15, EventTypes, AllMove
<1>20. CoverInv(c)'
  <2>1. News(Base, S)[Base] = S /\ f \in S
    BY EventTypes DEF News
  <2>2. here => Awaits(Base, "connectDestroyed", c)'
    BY <1>19, <2>1, EventTypes, AwaitsNew
  <2>3. ~here => Awaits(Base, "removeConnectionInLoop", c)'
    BY <1>19, <2>1, EventTypes, AwaitsNew
  <2>4. Covered(c)'
    BY <2>2, <2>3, EventTypes DEF Covered
  <2>. QED BY <1>4, <1>12, <2>4 DEF CoverInv, Covered
<1>21. ConnInv(c)'
  BY <1>17, <1>18, <1>20 DEF ConnInv
<1>22. Closed(c)' /\ ~Connecting(c)' /\ ~Closed(c) /\ ~Connecting(c)
  BY <1>4, <1>8, <1>12 DEF Closed, Connecting
<1>23. ASSUME NEW m \in Loops PROVE FunctorInv(m, c)'
  <2>1. Moves(m, At(Base, d)[m], News(Base, S)[m]) /\ FunctorInv(m, c)
    BY <1>19 DEF IInv
  <2>2. /\ Functor("connectEstablished", c) \notin News(Base, S)[m]
        /\ Functor("sendInLoop", c) \notin News(Base, S)[m]
        /\ Functor("connectDestroyed", c) \in News(Base, S)[m] => m = loopOf[c]
        /\ Functor("removeConnectionInLoop", c) \in News(Base, S)[m] => m = Base /\ loopOf[c] # Base
    BY DEF News, Functor
  <2>3. At(Base, d)[m] = 0
    BY DEF At
  <2>4. EstablishInv(m, c)'
    BY <1>22, <2>1, <2>2, EventTypes, EstablishKept DEF FunctorInv
  <2>5. DestroyInv(m, c)'
    BY <1>22, <2>1, <2>2, <2>3, EventTypes, DestroyKept DEF FunctorInv
  <2>6. RemoveInv(m, c)'
    <3>1. ~Awaits(m, "removeConnectionInLoop", c)
      BY <1>22, <2>1 DEF FunctorInv, RemoveInv, Closed
    <3>2. loopOf[c] # Base /\ server' = "up" => c \in connections_'
      BY <1>7, <1>8, EventTypes, SameParts DEF MapInv
    <3>. QED BY <1>22, <2>1, <2>2, <3>1, <3>2, EventTypes, RemoveKept DEF FunctorInv
  <2>7. SendInv(m, c)'
    BY <1>22, <2>1, <2>2, SendKept DEF FunctorInv
  <2>. QED BY <2>4, <2>5, <2>6, <2>7 DEF FunctorInv
<1>24. Only(S, c)
  BY DEF Only, Functor
<1>25. \A x \in Made : x # c => /\ conn'[x] = conn[x]
                                /\ x \in connections_' <=> x \in connections_
                                /\ x \in user' => x \in user
  BY <1>7, <1>12, EventTypes
<1>26. Len(conn') = Len(conn)
  BY <1>12
<1>. HIDE DEF d, S
<1>. QED BY <1>10, <1>15, <1>16, <1>21, <1>23, <1>24, <1>25, <1>26, EventTypes, OneStep
-----------------------------------------------------------------------------
(***************************************************************************)
(* doPendingFunctors around the calls: what the loop has yet to call stays *)
(* the same.                                                               *)
(***************************************************************************)
LEMMA SameShift ==
  ASSUME NEW P, NEW Q, Len(P) \in Nat, Len(Q) = Len(P), \A i \in 1..Len(P) : Q[i] = P[i]
  PROVE  Shift(P, Q, 0, {})
BY DEF Shift

LEMMA BatchStep ==
  ASSUME IInv, TypeOK', UseInv',
         UNCHANGED <<use, conn, loopOf, connections_, server, stopped, user, failed>>,
         \A l \in Loops : Moves(l, 0, {}),
         \A c \in Made : \/ batch'[loopOf[c]] = batch[loopOf[c]]
                         \/ conn[c].revents = {}
                         \/ batch'[loopOf[c]] = <<>>
  PROVE  IInv'
<1>1. Made' = Made /\ Loops' = Loops
  BY DEF Made, Loops
<1>. DEFINE D == [l \in Loops |-> 0]
            N == [l \in Loops |-> {}]
<1>2. \A l \in Loops : Moves(l, D[l], N[l]) /\ D[l] # 1
  OBVIOUS
<1>. HIDE DEF D, N
<1>3. ASSUME NEW c \in Made PROVE ConnInv(c)' /\ Settled(c)
  <2>1. Waiting(c)
    BY <1>2, WaitingKept DEF IInv
  <2>. QED BY <2>1, OtherKept DEF IInv
<1>4. ASSUME NEW c \in Made, NEW l \in Loops PROVE FunctorInv(l, c)'
  <2>. DEFINE d == 0
              S == {}
  <2>1. Foreign(S, c) /\ d # 1 /\ Moves(l, d, S)
    BY DEF Foreign
  <2>2. FunctorInv(l, c) /\ Settled(c)
    BY <1>3 DEF IInv
  <2>. HIDE DEF d, S
  <2>. QED BY <2>1, <2>2, FunctorsKept
<1>5. FailuresExplained'
  BY DEF IInv, FailuresExplained
<1>. QED BY <1>1, <1>3, <1>4, <1>5 DEF IInv

LEMMA TakeStep ==
  ASSUME IInv, UNCHANGED use, NEW l \in Loops, takeBatch(l)
  PROVE  IInv'
<1>1. TypeOK /\ UseInv
  BY DEF IInv
<1>2. UNCHANGED <<conn, loopOf, peer, connections_, next_, server, called, stopped,
                  held, user, sends, failed>>
  BY DEF takeBatch, serverVars, userVars
<1>3. batch' = [batch EXCEPT ![l] = queue[l]] /\ queue' = [queue EXCEPT ![l] = <<>>]
      /\ batch[l] = <<>> /\ l \notin stopped
  BY DEF takeBatch, InEvents
<1>4. Made' = Made /\ Loops' = Loops
  BY <1>2 DEF Made, Loops
<1>5. batch'[l] = queue[l] /\ queue'[l] = <<>>
      /\ \A m \in Loops : m # l => batch'[m] = batch[m] /\ queue'[m] = queue[m]
  BY <1>1, <1>3 DEF TypeOK
<1>6. /\ queue' \in [Loops -> Seq([op : Operations, conn : Made])]
      /\ batch' \in [Loops -> Seq([op : Operations, conn : Made])]
  <2>1. <<>> \in Seq([op : Operations, conn : Made])
    BY EmptySeq
  <2>. QED BY <1>1, <1>3, <2>1 DEF TypeOK
<1>7. called[l] = 0
  <2>1. Len(batch[l]) = 0
    BY <1>3
  <2>. QED BY <1>1, <2>1, LoopTypes
<1>8. ASSUME NEW m \in Loops PROVE called'[m] <= Len(batch'[m])
  <2>1. 0 <= Len(queue[l])
    BY <1>1, LoopTypes
  <2>2. called[m] <= Len(batch[m])
    BY <1>1, LoopTypes
  <2>. QED BY <1>2, <1>5, <1>7, <2>1, <2>2
<1>9. TypeOK'
  BY <1>1, <1>2, <1>4, <1>6, <1>8 DEF TypeOK
<1>10. UseInv'
  <2>1. \A m \in stopped : m \in Loops
    BY <1>1 DEF TypeOK
  <2>. QED BY <1>1, <1>2, <1>3, <1>5, <2>1 DEF UseInv
<1>11. ASSUME NEW m \in Loops PROVE Moves(m, 0, {})
  <2>. DEFINE d == 0
              S == {}
  <2>1. CASE m # l
    <3>1. Grown(queue[m], Len(queue[m]), queue'[m], Len(queue'[m]), S)
      BY <1>1, <1>5, <2>1, LoopTypes, GrownNone
    <3>2. called[m] \in Nat
      BY <1>1, LoopTypes
    <3>3. called'[m] = called[m] + d /\ batch'[m] = batch[m] /\ d \in {0, 1}
      BY <1>2, <1>5, <2>1, <3>2
    <3>. HIDE DEF d, S
    <3>4. Moves(m, d, S)
      BY <1>1, <1>9, <3>1, <3>3, StepMoves
    <3>. QED BY <3>4 DEF d, S
  <2>2. CASE m = l
    <3>. PICK k \in Nat : k = Len(queue[l])
      BY <1>1, LoopTypes
    <3>1. IsLeft(Pending(l), <<>>, 0, 0, queue[l], k)
      BY <1>1, <1>3, <1>7, PendingShape
    <3>2. IsLeft(Pending(l)', queue[l], k, 0, <<>>, 0)
      BY <1>2, <1>4, <1>5, <1>7, <1>9, PendingShapeNext
    <3>3. Len(Pending(l)) = k /\ Len(Pending(l)') = k
      BY <3>1, <3>2 DEF IsLeft
    <3>4. \A i \in 1..k : Pending(l)[i] = queue[l][i]
      BY <3>1 DEF IsLeft
    <3>5. \A i \in 1..k : Pending(l)'[i] = queue[l][i]
      BY <3>2 DEF IsLeft
    <3>6. Shift(Pending(l), Pending(l)', 0, {})
      BY <3>3, <3>4, <3>5, SameShift
    <3>. QED BY <2>2, <3>3, <3>6 DEF Moves
  <2>. QED BY <2>1, <2>2
<1>12. \A c \in Made : batch'[loopOf[c]] = batch[loopOf[c]] \/ conn[c].revents = {}
  BY <1>1, <1>5, ConnTypes DEF takeBatch
<1>. QED BY <1>2, <1>9, <1>10, <1>11, <1>12, BatchStep

LEMMA EndStep ==
  ASSUME IInv, UNCHANGED use, NEW l \in Loops, endBatch(l)
  PROVE  IInv'
<1>1. TypeOK /\ UseInv
  BY DEF IInv
<1>2. UNCHANGED <<conn, loopOf, peer, connections_, next_, server, queue, stopped,
                  held, user, sends, failed>>
  BY DEF endBatch, serverVars, userVars
<1>3. batch' = [batch EXCEPT ![l] = <<>>] /\ called' = [called EXCEPT ![l] = 0]
      /\ called[l] = Len(batch[l])
  BY DEF endBatch
<1>4. Made' = Made /\ Loops' = Loops
  BY <1>2 DEF Made, Loops
<1>5. batch'[l] = <<>> /\ called'[l] = 0
      /\ \A m \in Loops : m # l => batch'[m] = batch[m] /\ called'[m] = called[m]
  BY <1>1, <1>3 DEF TypeOK
<1>6. /\ batch' \in [Loops -> Seq([op : Operations, conn : Made])]
      /\ called' \in [Loops -> Nat]
  <2>1. <<>> \in Seq([op : Operations, conn : Made])
    BY EmptySeq
  <2>. QED BY <1>1, <1>3, <2>1 DEF TypeOK
<1>7. ASSUME NEW m \in Loops PROVE called'[m] <= Len(batch'[m])
  <2>1. 0 <= Len(<<>>)
    OBVIOUS
  <2>2. called[m] <= Len(batch[m])
    BY <1>1, LoopTypes
  <2>. QED BY <1>5, <2>1, <2>2
<1>8. TypeOK'
  BY <1>1, <1>2, <1>4, <1>6, <1>7 DEF TypeOK
<1>9. UseInv'
  <2>1. \A m \in stopped : m \in Loops
    BY <1>1 DEF TypeOK
  <2>. QED BY <1>1, <1>2, <1>5, <2>1 DEF UseInv
<1>10. ASSUME NEW m \in Loops PROVE Moves(m, 0, {})
  <2>. DEFINE d == 0
              S == {}
  <2>1. CASE m # l
    <3>1. Grown(queue[m], Len(queue[m]), queue'[m], Len(queue'[m]), S)
      BY <1>1, <1>2, LoopTypes, GrownNone
    <3>2. called[m] \in Nat
      BY <1>1, LoopTypes
    <3>3. called'[m] = called[m] + d /\ batch'[m] = batch[m] /\ d \in {0, 1}
      BY <1>5, <2>1, <3>2
    <3>. HIDE DEF d, S
    <3>4. Moves(m, d, S)
      BY <1>1, <1>8, <3>1, <3>3, StepMoves
    <3>. QED BY <3>4 DEF d, S
  <2>2. CASE m = l
    <3>. PICK k \in Nat, n \in Nat : k = Len(queue[l]) /\ n = Len(batch[l])
      BY <1>1, LoopTypes
    <3>1. IsLeft(Pending(l), batch[l], n, n, queue[l], k)
      BY <1>1, <1>3, PendingShape
    <3>2. IsLeft(Pending(l)', <<>>, 0, 0, queue[l], k)
      BY <1>2, <1>4, <1>5, <1>8, PendingShapeNext
    <3>3. Len(Pending(l)) = k /\ Len(Pending(l)') = k
      BY <3>1, <3>2 DEF IsLeft
    <3>4. \A i \in 1..k : Pending(l)[i] = queue[l][i]
      BY <3>1 DEF IsLeft
    <3>5. \A i \in 1..k : Pending(l)'[i] = queue[l][i]
      BY <3>2 DEF IsLeft
    <3>6. Shift(Pending(l), Pending(l)', 0, {})
      BY <3>3, <3>4, <3>5, SameShift
    <3>. QED BY <2>2, <3>3, <3>6 DEF Moves
  <2>. QED BY <2>1, <2>2
<1>11. \A c \in Made : batch'[loopOf[c]] = batch[loopOf[c]] \/ batch'[loopOf[c]] = <<>>
  BY <1>1, <1>5, ConnTypes
<1>. QED BY <1>2, <1>8, <1>9, <1>10, <1>11, BatchStep
-----------------------------------------------------------------------------
(***************************************************************************)
(* ~TcpServer.                                                             *)
(***************************************************************************)
LEMMA NothingWaits ==
  ASSUME NEW P, Len(P) = 0
  PROVE  \A c : /\ \A op : ~Waits(P, op, c) /\ Unique(P, op, c)
                /\ EstablishedFirst(P, c)
BY DEF Waits, Unique, EstablishedFirst

LEMMA JoinStep ==
  ASSUME IInv, UNCHANGED use, NEW l \in Loops, joinLoop(l)
  PROVE  IInv'
<1>1. TypeOK /\ UseInv /\ Base \in Loops
  BY UseTypes DEF IInv
<1>2. UNCHANGED <<conn, loopOf, peer, connections_, next_, server, batch, called,
                  held, user, sends, failed>>
  BY DEF joinLoop, serverVars, userVars
<1>3. /\ queue' = [queue EXCEPT ![l] = <<>>] /\ stopped' = stopped \cup {l}
      /\ batch[l] = <<>> /\ l # Base /\ server = "gone"
  BY DEF joinLoop, InEvents
<1>4. Made' = Made /\ Loops' = Loops
  BY <1>2 DEF Made, Loops
<1>5. queue'[l] = <<>> /\ \A m \in Loops : m # l => queue'[m] = queue[m]
  BY <1>1, <1>3 DEF TypeOK
<1>6. queue' \in [Loops -> Seq([op : Operations, conn : Made])]
  <2>1. <<>> \in Seq([op : Operations, conn : Made])
    BY EmptySeq
  <2>. QED BY <1>1, <1>3, <2>1 DEF TypeOK
<1>7. TypeOK'
  BY <1>1, <1>2, <1>3, <1>4, <1>6 DEF TypeOK
<1>8. UseInv' /\ FailuresExplained'
  <2>1. UseInv'
    BY <1>1, <1>2, <1>3 DEF UseInv
  <2>2. FailuresExplained'
    BY <1>2 DEF IInv, FailuresExplained
  <2>. QED BY <2>1, <2>2
<1>9. ASSUME NEW m \in Loops, m # l PROVE Moves(m, 0, {})
  <2>. DEFINE d == 0
              S == {}
  <2>1. Grown(queue[m], Len(queue[m]), queue'[m], Len(queue'[m]), S)
    BY <1>1, <1>5, <1>9, LoopTypes, GrownNone
  <2>2. called[m] \in Nat
    BY <1>1, LoopTypes
  <2>3. called'[m] = called[m] + d /\ batch'[m] = batch[m] /\ d \in {0, 1}
    BY <1>2, <2>2
  <2>. HIDE DEF d, S
  <2>4. Moves(m, d, S)
    BY <1>1, <1>7, <2>1, <2>3, StepMoves
  <2>. QED BY <2>4 DEF d, S
<1>10. Len(Pending(l)') = 0
  <2>1. Len(batch[l]) = 0 /\ called[l] = 0
    <3>1. Len(batch[l]) = 0
      BY <1>3
    <3>. QED BY <1>1, <3>1, LoopTypes
  <2>2. IsLeft(Pending(l)', <<>>, 0, 0, <<>>, 0)
    BY <1>2, <1>3, <1>4, <1>5, <1>7, <2>1, PendingShapeNext
  <2>. QED BY <2>2 DEF IsLeft
<1>11. \A m \in Loops : m # l => \A op, c : Awaits(m, op, c) => Awaits(m, op, c)'
  <2>. DEFINE d == 0
  <2>1. \A m \in Loops : m # l => Moves(m, d, {}) /\ d # 1
    BY <1>9
  <2>. HIDE DEF d
  <2>. QED BY <2>1, AwaitsKept
<1>12. ASSUME NEW c \in Made PROVE ConnInv(c)'
  <2>1. LifeInv(conn[c])' /\ EventInv(c)' /\ MapInv(c)' /\ ShutInv(c)' /\ UserInv(c)'
    BY <1>2, SameParts DEF EventInv, MapInv, ShutInv, UserInv
  <2>2. CoverInv(c)'
    <3>1. CASE loopOf[c] = l
      BY <1>2, <1>3, <3>1 DEF CoverInv
    <3>2. CASE loopOf[c] # l
      <4>1. loopOf[c] \in Loops
        BY <1>1, ConnTypes
      <4>2. ASSUME NEW m \in Loops, NEW op, m = loopOf[c], Awaits(m, op, c)
            PROVE  Awaits(m, op, c)'
        BY <1>11, <3>2, <4>2
      <4>3. Awaits(Base, "removeConnectionInLoop", c) => Awaits(Base, "removeConnectionInLoop", c)'
        BY <1>1, <1>3, <1>11
      <4>4. Waiting(c)
        BY <1>2, <4>1, <4>2, <4>3 DEF Waiting
      <4>. QED BY <1>2, <1>3, <4>4, CoverKept, SameParts DEF Connecting
    <3>. QED BY <3>1, <3>2
  <2>. QED BY <2>1, <2>2 DEF ConnInv
<1>13. ASSUME NEW c \in Made, NEW m \in Loops PROVE FunctorInv(m, c)'
  <2>1. CASE m # l
    <3>. DEFINE d == 0
                S == {}
    <3>1. Foreign(S, c) /\ d # 1 /\ Moves(m, d, S)
      BY <1>9, <2>1 DEF Foreign
    <3>2. FunctorInv(m, c) /\ Settled(c)
      BY <1>2 DEF IInv, Settled, Connecting, Closed
    <3>. HIDE DEF d, S
    <3>. QED BY <3>1, <3>2, FunctorsKept
  <2>2. CASE m = l
    <3>1. /\ \A op : ~Awaits(m, op, c)' /\ Unique(Pending(m), op, c)'
          /\ EstablishedFirst(Pending(m), c)'
      BY <1>10, <2>2, NothingWaits DEF Awaits
    <3>. QED BY <3>1 DEF FunctorInv, EstablishInv, DestroyInv, RemoveInv, SendInv
  <2>. QED BY <2>1, <2>2
<1>. QED BY <1>4, <1>7, <1>8, <1>12, <1>13 DEF IInv

\* What ~TcpServer queues in loop l.
Theirs(l) == IF l = Base THEN {}
             ELSE {Functor("connectDestroyed", c) : c \in {x \in connections_ : loopOf[x] = l}}

LEMMA OrphansQueued ==
  ASSUME TypeOK, NEW l \in Loops,
         IF l = Base THEN queue'[l] = queue[l] ELSE queue'[l] \in Orphaned(l)
  PROVE  /\ queue'[l] \in Seq(Functors)
         /\ Grown(queue[l], Len(queue[l]), queue'[l], Len(queue'[l]), Theirs(l))
<1>0. queue[l] \in Seq(Functors)
  BY LoopTypes
<1>1. CASE l = Base
  <2>1. queue'[l] = queue[l] /\ Theirs(l) = {}
    BY <1>1 DEF Theirs
  <2>. QED BY <1>0, <2>1, GrownNone
<1>2. CASE l # Base
  <2>. DEFINE S == {x \in connections_ : loopOf[x] = l}
  <2>1. PICK s \in Orders(S) :
           queue'[l] = queue[l] \o [i \in DOMAIN s |-> Functor("connectDestroyed", s[i])]
    BY <1>2 DEF Orphaned
  <2>2. S \subseteq Made
    BY DEF TypeOK
  <2>3. IsFiniteSet(S)
    <3>1. IsFiniteSet(Made)
      <4>1. Len(conn) \in Nat
        BY LenProperties DEF TypeOK
      <4>. QED BY <4>1, FS_Interval DEF Made
    <3>. QED BY <2>2, <3>1, FS_Subset
  <2>. PICK n \in Nat : n = Cardinality(S)
    BY <2>3, FS_CardinalityType
  <2>. HIDE DEF S
  <2>4. s \in [1..n -> S] /\ DOMAIN s = 1..n /\ \A c \in S : \E i \in 1..n : s[i] = c
    BY <2>1 DEF Orders
  <2>. DEFINE t == [i \in 1..n |-> Functor("connectDestroyed", s[i])]
  <2>5. t \in [1..n -> Functors]
    BY <2>2, <2>4 DEF Functors, Functor, Operations, Strong
  <2>6. t \in Seq(Functors) /\ Len(t) = n
    BY <2>5
  <2>7. queue'[l] = queue[l] \o t
    BY <2>1, <2>4
  <2>8. Theirs(l) = {Functor("connectDestroyed", c) : c \in S}
    BY <1>2 DEF Theirs, S
  <2>9. \A i \in 1..n : t[i] \in Theirs(l) /\ t[i].op = "connectDestroyed"
    BY <2>4, <2>8 DEF Functor
  <2>10. \A f \in Theirs(l) : \E i \in 1..n : t[i] = f
    BY <2>4, <2>8
  <2>. HIDE DEF t
  <2>11. queue[l] \o t \in Seq(Functors)
    BY <1>0, <2>6, ConcatProperties
  <2>12. /\ \A i \in 1..Len(t) : t[i] \in Theirs(l) /\ t[i].op = "connectDestroyed"
         /\ \A f \in Theirs(l) : \E i \in 1..Len(t) : t[i] = f
    BY <2>6, <2>9, <2>10
  <2>13. t \in Seq(Functors)
    BY <2>6
  <2>14. Grown(queue[l], Len(queue[l]), queue[l] \o t, Len(queue[l] \o t), Theirs(l))
    BY <1>0, <2>12, <2>13, GrownMany
  <2>. QED BY <2>7, <2>11, <2>14
<1>. QED BY <1>1, <1>2

\* An assertion that ~TcpServer may fail.
LEMMA RefusedExplained ==
  ASSUME IInv, use.destroy, NEW c \in Here, ~removeLegal(conn[c]) \/ use.handler
  PROVE  c \in Made /\ Refused(c) \in MayFail(use) /\ Refused(c) \in Names
<1>1. c \in Made
  BY DEF IInv, TypeOK, Here
<1>2. ~removeLegal(conn[c]) => use.shutdown
  BY <1>1, ClosedRemoveLegal, SameParts DEF ShutInv
<1>. QED BY <1>1, <1>2 DEF Refused, MayFail, Names

LEMMA RefusedStep ==
  ASSUME IInv, UNCHANGED <<use, conn, loopOf, peer, connections_, next_, server,
                           queue, batch, called, stopped, held, user, sends>>,
         NEW c \in Made, NEW name \in Names, name \in MayFail(use), failed' = failed \cup {name}
  PROVE  IInv'
<1>1. TypeOK
  BY DEF IInv
<1>2. failed' \subseteq Names
  BY <1>1 DEF TypeOK, Names
<1>3. /\ queue' \in [Loops -> Seq(Functors)] /\ called' \in [Loops -> Nat]
      /\ \A l \in Loops : called'[l] <= Len(batch[l])
  BY <1>1, NoQueue
<1>4. TypeOK'
  BY <1>1, <1>2, <1>3, TypeKept DEF TypeOK, Names
<1>5. UseInv' /\ FailuresExplained'
  BY SameParts DEF UseInv, FailuresExplained
<1>6. LifeInv(conn[c])' /\ EventInv(c)' /\ ShutInv(c)' /\ UserInv(c)'
  BY SameParts DEF EventInv, ShutInv, UserInv
<1>7. (Connecting(c)' <=> Connecting(c)) /\ (Closed(c)' <=> Closed(c))
  BY DEF Connecting, Closed
<1>. QED BY <1>4, <1>5, <1>6, <1>7, StillStep

\* ~TcpServer fails no assertion.
LEMMA GoneStep ==
  ASSUME IInv, UNCHANGED <<use, loopOf, peer, next_, batch, called, stopped, held, user, sends,
                           failed>>,
         use.destroy, server = "up", server' = "gone", connections_' = {},
         conn' = [c \in Made |->
                    IF c \in Here THEN [connectDestroyed(conn[c]) EXCEPT !.revents = {}]
                                 ELSE conn[c]],
         DOMAIN queue' = Loops, queue' = [l \in DOMAIN queue' |-> queue'[l]],
         \A l \in Loops : IF l = Base THEN queue'[l] = queue[l] ELSE queue'[l] \in Orphaned(l)
  PROVE  IInv'
<1>1. TypeOK /\ UseInv /\ Base \in Loops
  BY UseTypes DEF IInv
<1>2. UNCHANGED <<loopOf, peer, next_, batch, called, stopped, held, user, sends>>
  OBVIOUS
<1>3. use.destroy /\ server = "up" /\ server' = "gone" /\ connections_' = {} /\ Here \subseteq Made
  BY <1>1 DEF TypeOK, Here
<1>4. stopped = {}
  BY <1>1, <1>3 DEF UseInv
<1>. DEFINE Life(c) ==
       /\ conn'[c] \in Connection /\ LifeInv(conn'[c])
       /\ c \notin Here => conn'[c] = conn[c]
       /\ c \in Here => ~conn'[c].added /\ conn'[c].revents = {}
       /\ conn'[c].state_ \in {conn[c].state_, "kDisconnected"}
       /\ c \in Here => conn[c].state_ # "kConnecting"
<1>5. ASSUME NEW c \in Made PROVE Life(c)
  <2>1. CASE c \in Here
    <3>1. conn[c].state_ # "kConnecting"
      BY <2>1, SameParts DEF MapInv, Here
    <3>. PICK j, k : j = conn[c] /\ k = conn'[c]
      OBVIOUS
    <3>2. k = [connectDestroyed(j) EXCEPT !.revents = {}]
      BY <2>1
    <3>3. /\ k \in Connection /\ LifeInv(k) /\ k.added = FALSE /\ k.revents = {}
          /\ k.state_ = (IF j.state_ = "kConnected" THEN "kDisconnected" ELSE j.state_)
      <4>1. j \in Connection /\ LifeInv(j) /\ j.state_ # "kConnecting"
        BY <3>1, SameParts
      <4>. QED BY ONLY <3>2, <4>1, Cleared
    <3>. QED BY <2>1, <3>1, <3>3
  <2>2. CASE c \notin Here
    BY <1>3, <2>2, SameParts
  <2>. QED BY <2>1, <2>2
<1>6. conn' \in Seq(Connection) /\ Len(conn') = Len(conn)
  <2>1. Len(conn) \in Nat /\ Made = 1..Len(conn)
    BY <1>1, LenProperties DEF TypeOK, Made
  <2>2. conn' \in [1..Len(conn) -> Connection]
    BY <1>3, <1>5, <2>1
  <2>. QED BY <2>1, <2>2
<1>7. Made' = Made /\ Loops' = Loops
  BY <1>6 DEF Made, Loops
<1>8. queue' \in [Loops -> Seq([op : Operations, conn : Made])]
  <2>1. \A l \in Loops : queue'[l] \in Seq(Functors)
    BY <1>1, OrphansQueued
  <2>. QED BY <2>1 DEF Functors
<1>9. failed' \subseteq Names
  BY <1>1 DEF TypeOK, Names
<1>10. TypeOK'
  <2>1. connections_' \subseteq Made' /\ server' \in {"up", "gone"}
    BY <1>3
  <2>. QED BY <1>1, <1>2, <1>6, <1>7, <1>8, <1>9, <2>1 DEF TypeOK, Names
<1>11. UseInv'
  BY <1>1, <1>2, <1>3, <1>4 DEF UseInv
<1>12. FailuresExplained'
  BY DEF IInv, FailuresExplained
<1>13. ASSUME NEW l \in Loops PROVE Moves(l, 0, Theirs(l))
  <2>. DEFINE d == 0
  <2>1. called[l] \in Nat
    BY <1>1, LoopTypes
  <2>2. called'[l] = called[l] + d /\ batch'[l] = batch[l] /\ d \in {0, 1}
    BY <1>2, <2>1
  <2>. HIDE DEF d
  <2>3. Moves(l, d, Theirs(l))
    BY <1>1, <1>10, <2>2, OrphansQueued, StepMoves
  <2>. QED BY <2>3 DEF d
<1>. DEFINE D == [l \in Loops |-> 0]
            N == [l \in Loops |-> Theirs(l)]
<1>14. \A l \in Loops : Moves(l, D[l], N[l]) /\ D[l] # 1
  BY <1>13
<1>. HIDE DEF D, N
<1>15. ASSUME NEW c \in Made PROVE ConnInv(c)'
  <2>0. Life(c) /\ loopOf[c] \in Loops
    BY <1>1, <1>5, ConnTypes
  <2>1. LifeInv(conn[c])' /\ EventInv(c)' /\ ShutInv(c)' /\ UserInv(c)'
    BY <1>2, <1>3, <2>0, SameParts DEF EventInv, ShutInv, UserInv
  <2>2. MapInv(c)'
    BY <1>2, <1>3, <2>0, SameParts DEF MapInv, Here
  <2>3. CoverInv(c)'
    <3>1. CASE c \in Here
      BY <2>0, <3>1 DEF CoverInv
    <3>2. CASE c \notin Here
      <4>1. Waiting(c)
        BY <1>1, <1>2, <1>14, WaitingKept
      <4>2. conn'[c] = conn[c] /\ loopOf'[c] = loopOf[c] /\ loopOf[c] \notin stopped
        BY <1>2, <1>4, <2>0, <3>2
      <4>3. c \in connections_ => Awaits(loopOf[c], "connectDestroyed", c)'
        <5>1. ASSUME c \in connections_, NEW l \in Loops, l = loopOf[c]
              PROVE  Awaits(l, "connectDestroyed", c)'
          <6>1. Functor("connectDestroyed", c) \in Theirs(l)
            BY <3>2, <5>1 DEF Theirs, Here
          <6>. QED BY <1>13, <6>1, AwaitsNew
        <5>. QED BY <2>0, <4>2, <5>1
      <4>4. Covered(c) => Covered(c)'
        BY <4>1, <4>2, <4>3 DEF Covered, Waiting
      <4>5. /\ Connecting(c) => Awaits(loopOf[c], "connectEstablished", c)'
            /\ conn[c].added \/ Connecting(c) => Covered(c)'
        BY <4>1, <4>2, <4>4, SameParts DEF CoverInv, Waiting, Covered, Connecting
      <4>. QED BY <4>2, <4>5 DEF CoverInv, Covered, Connecting
    <3>. QED BY <3>1, <3>2
  <2>. QED BY <2>1, <2>2, <2>3 DEF ConnInv
<1>16. ASSUME NEW c \in Made, NEW m \in Loops PROVE FunctorInv(m, c)'
  <2>. DEFINE d == 0
  <2>1. Moves(m, d, Theirs(m)) /\ FunctorInv(m, c) /\ Life(c) /\ d # 1
    BY <1>5, <1>13 DEF IInv
  <2>. HIDE DEF d
  <2>2. \A op : Functor(op, c) \in Theirs(m) =>
           op = "connectDestroyed" /\ m # Base /\ m = loopOf[c]
    BY DEF Theirs, Functor
  <2>3. (Closed(c) => Closed(c)') /\ (Connecting(c)' <=> Connecting(c)) /\ loopOf'[c] = loopOf[c]
    BY <1>2, <2>1 DEF Closed, Connecting
  <2>4. EstablishInv(m, c)'
    BY <2>1, <2>2, <2>3, EstablishKept DEF FunctorInv
  <2>5. DestroyInv(m, c)'
    <3>1. m # Base => ~ClosedFirst
      BY <1>1, <1>3, UseTypes DEF ClosedFirst, Loops, PoolLoops
    <3>2. Connecting(c) => Awaits(loopOf[c], "connectEstablished", c)
      BY <1>4, SameParts DEF CoverInv, Connecting
    <3>. QED BY <2>1, <2>2, <2>3, <3>1, <3>2, DestroyKept DEF FunctorInv
  <2>6. RemoveInv(m, c)'
    BY <1>3, <2>1, <2>2, <2>3, RemoveKept DEF FunctorInv
  <2>7. SendInv(m, c)'
    BY <2>1, <2>2, <2>3, SendKept DEF FunctorInv
  <2>. QED BY <2>4, <2>5, <2>6, <2>7 DEF FunctorInv
<1>. QED BY <1>7, <1>10, <1>11, <1>12, <1>15, <1>16 DEF IInv

LEMMA DestroyServerStep ==
  ASSUME IInv, UNCHANGED use, NEW active, NEW own, destroyed(active, own),
         use.destroy, server = "up", active \ own # {} => use.handler,
         UNCHANGED <<loopOf, peer, next_, batch, called, stopped, held, user, sends>>
  PROVE  IInv'
<1>. DEFINE bad == {c \in Here : ~removeLegal(conn[c]) \/ c \in active \ own}
<1>1. CASE bad = {}
  <2>1. /\ server' = "gone" /\ connections_' = {} /\ UNCHANGED failed
        /\ conn' = [c \in Made |->
                      IF c \in Here THEN [connectDestroyed(conn[c]) EXCEPT !.revents = {}]
                                   ELSE conn[c]]
        /\ DOMAIN queue' = Loops /\ queue' = [l \in DOMAIN queue' |-> queue'[l]]
        /\ \A l \in Loops : IF l = Base THEN queue'[l] = queue[l] ELSE queue'[l] \in Orphaned(l)
    BY <1>1 DEF destroyed
  <2>. QED BY <2>1, GoneStep
<1>2. CASE bad # {}
  <2>1. PICK c \in bad : failed' = failed \cup {Refused(c)}
    BY <1>2 DEF destroyed
  <2>2. UNCHANGED <<conn, connections_, server, queue>>
    BY <1>2 DEF destroyed
  <2>3. c \in Made /\ Refused(c) \in MayFail(use) /\ Refused(c) \in Names
    BY <2>1, RefusedExplained
  <2>. HIDE DEF bad
  <2>. QED BY <2>1, <2>2, <2>3, RefusedStep
<1>. QED BY <1>1, <1>2
-----------------------------------------------------------------------------
(***************************************************************************)
(* newConnection.                                                          *)
(***************************************************************************)
LEMMA AwaitedMade ==
  ASSUME TypeOK, NEW l \in Loops, NEW op, NEW c, Awaits(l, op, c)
  PROVE  c \in Made
<1>. PICK n \in Nat, m \in Nat, k \in Nat :
       n = called[l] /\ m = Len(batch[l]) /\ k = Len(queue[l])
  BY LoopTypes
<1>1. IsLeft(Pending(l), batch[l], m, n, queue[l], k)
  BY PendingShape
<1>2. PICK i \in 1..Len(Pending(l)) : Pending(l)[i] = Functor(op, c)
  BY DEF Awaits, Waits
<1>3. n <= m /\ Len(Pending(l)) = (m - n) + k
  BY <1>1 DEF IsLeft
<1>4. Pending(l)[i] \in Functors
  <2>1. CASE i <= m - n
    <3>1. i \in 1..(m - n) /\ n + i \in 1..m
      BY <1>3, <2>1
    <3>2. Pending(l)[i] = batch[l][n + i]
      BY <1>1, <3>1 DEF IsLeft
    <3>. QED BY <3>1, <3>2, LoopTypes, ElementOfSeq
  <2>2. CASE ~(i <= m - n)
    <3>0. i - (m - n) \in 1..k
      <4>1. i \in 1..((m - n) + k)
        BY <1>3
      <4>. QED BY <1>3, <2>2, <4>1, InQueue
    <3>. PICK j \in 1..k : j = i - (m - n)
      BY <3>0
    <3>1. i = (m - n) + j
      BY <1>3
    <3>2. Pending(l)[i] = queue[l][j]
      BY <1>1, <3>1 DEF IsLeft
    <3>. QED BY <3>2, LoopTypes, ElementOfSeq
  <2>. QED BY <2>1, <2>2
<1>. QED BY <1>2, <1>4 DEF Functors, Functor

LEMMA WiderSeq ==
  ASSUME NEW S, NEW T, S \subseteq T, NEW s \in Seq(S)
  PROVE  s \in Seq(T)
<1>1. Len(s) \in Nat /\ DOMAIN s = 1..Len(s) /\ s \in [1..Len(s) -> S]
  BY LenProperties
<1>2. s \in [1..Len(s) -> T]
  BY <1>1
<1>. QED BY <1>1, <1>2

LEMMA NextLoop ==
  ASSUME TypeOK
  PROVE  /\ getNextLoop \in Loops
         /\ nextPosition = 0 \/ nextPosition \in 1..(Len(use.pool) - 1)
<1>. PICK n \in Nat : n = Len(use.pool)
  BY UseTypes, LenProperties
<1>1. next_ = 0 \/ next_ \in 1..(n - 1)
  BY DEF TypeOK
<1>2. getNextLoop \in Loops
  <2>1. CASE use.pool = <<>>
    BY <2>1, UseTypes DEF getNextLoop
  <2>2. CASE use.pool # <<>>
    <3>1. n # 0
      BY <2>2, UseTypes, EmptySeq
    <3>2. next_ + 1 \in 1..n
      BY <1>1, <3>1
    <3>3. use.pool[next_ + 1] \in PoolLoops(use)
      BY <3>2 DEF PoolLoops
    <3>. QED BY <2>2, <3>3, UseTypes DEF getNextLoop
  <2>. QED BY <2>1, <2>2
<1>3. nextPosition = 0 \/ nextPosition \in 1..(n - 1)
  BY <1>1 DEF nextPosition
<1>. QED BY <1>2, <1>3

LEMMA NewConnection ==
  /\ newTcpConnection \in Connection /\ LifeInv(newTcpConnection)
  /\ newTcpConnection.state_ = "kConnecting" /\ newTcpConnection.revents = {}
  /\ connectEstablished(newTcpConnection) \in Connection
  /\ LifeInv(connectEstablished(newTcpConnection))
  /\ connectEstablished(newTcpConnection).state_ = "kConnected"
  /\ connectEstablished(newTcpConnection).revents = {}
  /\ ~newTcpConnection.fin /\ ~connectEstablished(newTcpConnection).fin
<1>. DEFINE k == newTcpConnection
            j == connectEstablished(k)
<1>1. /\ {} \in SUBSET {"R", "W"} /\ {"R"} \in SUBSET {"R", "W"}
      /\ {} \in SUBSET {"IN", "OUT", "HUP"} /\ "kConnecting" \in States /\ "kConnected" \in States
  BY DEF States
<1>2. k \in Connection
  BY <1>1 DEF newTcpConnection, Connection
<1>3. k.ups = 0 /\ k.revents = {} /\ k.downs = 0 /\ k.out = 0 /\ k.fin = FALSE
      /\ k.state_ = "kConnecting"
  BY DEF newTcpConnection
<1>. HIDE DEF k
<1>4. j \in Connection
  <2>1. k.ups + 1 \in Nat
    BY <1>3
  <2>. QED BY <1>1, <1>2, <2>1 DEF connectEstablished, Connection
<1>5. /\ j.state_ = "kConnected" /\ j.events = {"R"} /\ j.added = TRUE
      /\ j.revents = {} /\ j.out = 0 /\ j.fin = FALSE /\ j.ups = 1 /\ j.downs = 0
  BY <1>2, <1>3 DEF connectEstablished, Connection
<1>6. LifeInv(k)
  BY DEF k, newTcpConnection, LifeInv, isWriting
<1>. HIDE DEF j
<1>7. LifeInv(j)
  BY <1>5 DEF LifeInv, isWriting
<1>. QED BY <1>2, <1>3, <1>4, <1>5, <1>6, <1>7 DEF k, j

LEMMA NewConnectionStep ==
  ASSUME IInv, UNCHANGED use, newConnection
  PROVE  IInv'
<1>. DEFINE c == Len(conn) + 1
            io == getNextLoop
            f == Functor("connectEstablished", c)
            k == IF io = Base THEN connectEstablished(newTcpConnection) ELSE newTcpConnection
            N == [l \in Loops |-> IF l = io /\ io # Base THEN {f} ELSE {}]
<1>1. TypeOK /\ UseInv /\ Base \in Loops /\ Len(conn) \in Nat /\ io \in Loops
  BY UseTypes, NextLoop, LenProperties DEF IInv, TypeOK
<1>2. UNCHANGED <<server, batch, called, stopped, user, failed>> /\ server = "up"
  BY DEF newConnection
<1>3. /\ conn' = Append(conn, k) /\ loopOf' = Append(loopOf, io) /\ peer' = Append(peer, "open")
      /\ sends' = Append(sends, 0) /\ next_' = nextPosition
      /\ connections_' = connections_ \cup {c}
  BY DEF newConnection
<1>4. /\ io = Base => queue' = queue /\ held' = (IF use.thread THEN held \cup {c} ELSE held)
      /\ io # Base => queue' = [queue EXCEPT ![io] = Append(@, f)] /\ held' = held
  BY DEF newConnection, Post, Handed
<1>5. /\ k \in Connection /\ LifeInv(k) /\ k.revents = {}
      /\ io = Base => k.state_ = "kConnected"
      /\ io # Base => k.state_ = "kConnecting"
  BY NewConnection
<1>. HIDE DEF k, io
<1>6. /\ Len(conn') = c /\ conn' \in Seq(Connection) /\ conn'[c] = k
      /\ \A x \in Made : conn'[x] = conn[x]
  BY <1>1, <1>3, <1>5, AppendProperties DEF TypeOK, Made
<1>7. /\ Len(loopOf') = c /\ loopOf' \in Seq(Loops) /\ loopOf'[c] = io
      /\ \A x \in Made : loopOf'[x] = loopOf[x]
  <2>1. loopOf \in Seq(Loops) /\ Len(loopOf) = Len(conn)
    BY <1>1 DEF TypeOK
  <2>. QED BY <1>1, <1>3, <2>1, AppendProperties DEF Made
<1>8. /\ Len(peer') = c /\ peer' \in Seq({"open", "reset", "closed"})
      /\ Len(sends') = c /\ sends' \in Seq(Nat)
  BY <1>1, <1>3, AppendProperties DEF TypeOK
<1>9. Loops' = Loops /\ Made' = Made \cup {c} /\ c \notin Made
  BY <1>1, <1>6 DEF Loops, Made
<1>10. Functors \subseteq Functors' /\ f \in Functors'
  BY <1>9 DEF Functors, Functor, Operations, Strong
<1>11. \A l \in Loops : queue[l] \in Seq(Functors') /\ batch[l] \in Seq(Functors')
  BY <1>1, <1>10, LoopTypes, WiderSeq
<1>12. /\ io = Base => queue' = queue
       /\ io # Base => /\ queue'[io] = Append(queue[io], f)
                       /\ \A l \in Loops : l # io => queue'[l] = queue[l]
       /\ DOMAIN queue' = Loops /\ queue' = [l \in Loops |-> queue'[l]]
  BY <1>1, <1>4 DEF TypeOK
<1>13. \A l \in Loops : queue'[l] \in Seq(Functors')
  <2>1. Append(queue[io], f) \in Seq(Functors')
    BY <1>1, <1>10, <1>11, AppendProperties
  <2>. QED BY <1>11, <1>12, <2>1
<1>14. queue' \in [Loops' -> Seq([op : Operations, conn : Made'])]
  BY <1>9, <1>12, <1>13 DEF Functors
<1>15. batch' \in [Loops' -> Seq([op : Operations, conn : Made'])]
  <2>1. batch' = [l \in Loops |-> batch'[l]]
    BY <1>1, <1>2 DEF TypeOK
  <2>. QED BY <1>2, <1>9, <1>11, <2>1 DEF Functors
<1>16. connections_' \subseteq Made' /\ held' \subseteq Made' /\ user' \subseteq held'
  BY <1>1, <1>2, <1>3, <1>4, <1>9 DEF TypeOK
<1>17. next_' = 0 \/ next_' \in 1..(Len(use'.pool) - 1)
  BY <1>1, <1>3, NextLoop
<1>18. TypeOK'
  BY <1>1, <1>2, <1>6, <1>7, <1>8, <1>9, <1>14, <1>15, <1>16, <1>17 DEF TypeOK
<1>19. UseInv' /\ FailuresExplained'
  <2>1. UseInv'
    BY <1>1, <1>2, <1>4 DEF UseInv
  <2>2. FailuresExplained'
    BY <1>2 DEF IInv, FailuresExplained
  <2>. QED BY <2>1, <2>2
<1>20. ASSUME NEW l \in Loops PROVE Moves(l, 0, N[l])
  <2>. DEFINE d == 0
  <2>1. called[l] \in Nat
    BY <1>1, LoopTypes
  <2>2. called'[l] = called[l] + d /\ batch'[l] = batch[l] /\ d \in {0, 1}
    BY <1>2, <2>1
  <2>3. Grown(queue[l], Len(queue[l]), queue'[l], Len(queue'[l]), N[l])
    <3>1. CASE l = io /\ io # Base
      <4>1. N[l] = {f} /\ queue'[l] = Append(queue[l], f)
        BY <1>12, <3>1
      <4>. QED BY <1>10, <1>11, <4>1, GrownOne
    <3>2. CASE ~(l = io /\ io # Base)
      <4>1. N[l] = {} /\ queue'[l] = queue[l]
        BY <1>12, <3>2
      <4>. QED BY <1>11, <4>1, GrownNone
    <3>. QED BY <3>1, <3>2
  <2>. HIDE DEF d, N
  <2>4. Moves(l, d, N[l])
    BY <1>1, <1>18, <2>2, <2>3, StepMoves
  <2>. QED BY <2>4 DEF d
<1>. DEFINE D == [l \in Loops |-> 0]
<1>21. \A l \in Loops : Moves(l, D[l], N[l]) /\ D[l] # 1
  <2>. HIDE DEF N
  <2>. QED BY <1>20
<1>. HIDE DEF D
\* The connections that were there before.
<1>22. ASSUME NEW x \in Made PROVE ConnInv(x)' /\ Settled(x)
  <2>1. Waiting(x)
    BY <1>1, <1>7, <1>21, WaitingKept
  <2>2. x # c /\ (x \in connections_' <=> x \in connections_)
    BY <1>3, <1>9
  <2>. QED BY <1>2, <1>6, <1>7, <2>1, <2>2, OtherKept DEF IInv
<1>23. ASSUME NEW x \in Made, NEW l \in Loops PROVE FunctorInv(l, x)'
  <2>1. Foreign(N[l], x)
    BY <1>9 DEF Foreign, Functor
  <2>2. FunctorInv(l, x) /\ Settled(x) /\ Moves(l, D[l], N[l]) /\ D[l] # 1
    BY <1>21, <1>22 DEF IInv
  <2>. HIDE DEF N
  <2>. QED BY <2>1, <2>2, FunctorsKept
\* The new one.
<1>24. ASSUME NEW l \in Loops PROVE ~\E op : Awaits(l, op, c)
  BY <1>1, <1>9, AwaitedMade
<1>25. PICK y : y = c
  OBVIOUS
<1>26. ASSUME NEW l \in Loops PROVE FunctorInv(l, y)'
  <2>1. Moves(l, D[l], N[l]) /\ ~\E op : Awaits(l, op, y)
    BY <1>21, <1>24, <1>25
  <2>2. \A op : Functor(op, y) \in N[l] => op = "connectEstablished" /\ l = io /\ io # Base
    BY <1>25 DEF Functor
  <2>. HIDE DEF N
  <2>3. \A op : Awaits(l, op, y)' => Functor(op, y) \in N[l]
    BY <2>1, WaitsOld DEF Moves, Awaits
  <2>4. \A op : Unique(Pending(l), op, y)
    BY <2>1 DEF Awaits, Waits, Unique
  <2>5. /\ Unique(Pending(l), "connectEstablished", y)'
        /\ Unique(Pending(l), "removeConnectionInLoop", y)'
    BY <2>1, <2>4, UniqueKept DEF Moves, Awaits
  <2>6. ~Awaits(l, "connectDestroyed", y)' /\ EstablishedFirst(Pending(l), y)'
    <3>1. ~Awaits(l, "connectDestroyed", y)'
      BY <2>2, <2>3
    <3>. QED BY <3>1 DEF Awaits, Waits, EstablishedFirst
  <2>7. Awaits(l, "connectEstablished", y)' => l = loopOf'[y] /\ conn'[y].state_ = "kConnecting"
    BY <1>5, <1>6, <1>7, <1>25, <2>2, <2>3
  <2>8. ~Awaits(l, "removeConnectionInLoop", y)' /\ ~Awaits(l, "sendInLoop", y)'
    BY <2>2, <2>3
  <2>. QED BY <2>5, <2>6, <2>7, <2>8 DEF FunctorInv, EstablishInv, DestroyInv, RemoveInv, SendInv
<1>27. ConnInv(y)'
  <2>1. conn'[y] = k /\ loopOf'[y] = io /\ y \in connections_' /\ y \notin user'
    BY <1>1, <1>2, <1>3, <1>6, <1>7, <1>9, <1>25 DEF TypeOK
  <2>2. LifeInv(conn[y])' /\ EventInv(y)' /\ ShutInv(y)' /\ UserInv(y)'
    BY <1>5, <2>1 DEF EventInv, ShutInv, UserInv
  <2>3. MapInv(y)'
    BY <1>2, <1>5, <2>1 DEF MapInv
  <2>4. io # Base => Awaits(loopOf[y], "connectEstablished", y)'
    <3>1. ASSUME NEW l \in Loops, l = io, io # Base PROVE Awaits(l, "connectEstablished", y)'
      <4>1. Functor("connectEstablished", y) \in N[l]
        BY <1>25, <3>1
      <4>. HIDE DEF N
      <4>. QED BY <1>20, <4>1, AwaitsNew
    <3>. QED BY <1>1, <2>1, <3>1
  <2>5. CoverInv(y)'
    BY <1>5, <2>1, <2>4 DEF CoverInv
  <2>. QED BY <2>2, <2>3, <2>5 DEF ConnInv
<1>28. \A x \in Made' : ConnInv(x)'
  BY <1>9, <1>22, <1>25, <1>27
<1>29. \A l \in Loops' : \A x \in Made' : FunctorInv(l, x)'
  BY <1>9, <1>23, <1>25, <1>26
<1>. QED BY <1>18, <1>19, <1>28, <1>29 DEF IInv
-----------------------------------------------------------------------------
(***************************************************************************)
(* The theorems.                                                           *)
(***************************************************************************)
LEMMA InitHolds ==
  ASSUME Init
  PROVE  IInv
<1>1. Made = {} /\ Len(conn) = 0 /\ conn = <<>>
  BY DEF Init, Made
<1>2. \A S : <<>> \in Seq(S)
  BY EmptySeq
<1>3. TypeOK
  <2>1. conn \in Seq(Connection) /\ loopOf \in Seq(Loops) /\ sends \in Seq(Nat)
        /\ peer \in Seq({"open", "reset", "closed"})
        /\ Len(loopOf) = Len(conn) /\ Len(peer) = Len(conn) /\ Len(sends) = Len(conn)
    BY <1>2 DEF Init
  <2>2. /\ queue \in [Loops -> Seq([op : Operations, conn : Made])]
        /\ batch \in [Loops -> Seq([op : Operations, conn : Made])]
    BY <1>2 DEF Init
  <2>3. called \in [Loops -> Nat] /\ \A l \in Loops : called[l] <= Len(batch[l])
    <3>1. \A l \in Loops : called[l] = 0 /\ batch[l] = <<>>
      BY DEF Init
    <3>2. called \in [Loops -> Nat]
      BY DEF Init
    <3>. QED BY <3>1, <3>2
  <2>4. /\ use \in Uses /\ connections_ = {} /\ next_ = 0 /\ server = "up"
        /\ stopped = {} /\ held = {} /\ user = {} /\ failed = {}
    BY DEF Init
  <2>. QED BY <2>1, <2>2, <2>3, <2>4 DEF TypeOK
<1>4. UseInv /\ FailuresExplained
  BY DEF Init, UseInv, FailuresExplained
<1>. QED BY <1>1, <1>3, <1>4 DEF IInv

LEMMA NextKeeps ==
  ASSUME IInv, Next
  PROVE  IInv'
<1>0. UNCHANGED use
  BY DEF Next
<1>1. CASE newConnection
  BY <1>0, <1>1, NewConnectionStep
<1>2. ASSUME NEW l \in Loops, LoopRuns(l) PROVE IInv'
  <2>1. CASE takeBatch(l) \/ endBatch(l)
    BY <1>0, <2>1, TakeStep, EndStep
  <2>2. ASSUME NEW c \in Made, callConnectEstablished(l, c) PROVE IInv'
    BY <1>0, <2>2, EstablishedStep
  <2>3. ASSUME NEW c \in Made, callConnectDestroyed(l, c) PROVE IInv'
    BY <1>0, <2>3, DestroyedStep
  <2>4. ASSUME NEW c \in Made, callRemoveConnectionInLoop(l, c) PROVE IInv'
    BY <1>0, <2>4, RemoveStep
  <2>5. ASSUME NEW c \in Made, callSendInLoop(l, c) PROVE IInv'
    BY <1>0, <2>5, SendInLoopStep
  <2>6. ASSUME NEW c \in Made, callUser(l, c) PROVE IInv'
    BY <1>0, <2>6, UserStep
  <2>7. ASSUME NEW c \in Made, handleEvent(c) PROVE IInv'
    BY <1>0, <2>7, StayOpenStep, CloseStep
  <2>. QED BY <1>2, <2>1, <2>2, <2>3, <2>4, <2>5, <2>6, <2>7 DEF LoopRuns
<1>3. ASSUME NEW l \in Loops, joinLoop(l) PROVE IInv'
  BY <1>0, <1>3, JoinStep
<1>4. ASSUME NEW c \in Made, NEW r \in Reports(c), poll(c, r) PROVE IInv'
  BY <1>0, <1>4, PollStep
<1>5. ASSUME NEW c \in Made, peerLeaves(c) PROVE IInv'
  BY <1>0, <1>5, PeerStep
<1>6. ASSUME NEW c \in Made, NEW n \in 1..2, send(c, n) PROVE IInv'
  BY <1>0, <1>6, SendStep
<1>7. ASSUME NEW c \in Made, shutdown(c) PROVE IInv'
  BY <1>0, <1>7, ShutdownStep
<1>8. ASSUME NEW c \in Made, userTests(c) \/ userQueues(c) \/ userReleases(c) PROVE IInv'
  BY <1>0, <1>8, TestsStep, QueuesStep, ReleasesStep
<1>9. CASE destroyServer
  <2>. DEFINE none == {}
  <2>1. /\ use.destroy /\ server = "up" /\ destroyed(none, none) /\ none \ none = {}
        /\ UNCHANGED <<loopOf, peer, next_, batch, called, stopped, held, user, sends>>
    BY <1>9 DEF destroyServer, userVars
  <2>. HIDE DEF none
  <2>. QED BY <1>0, <2>1, DestroyServerStep
<1>10. CASE destroyServerInHandler
  <2>1. /\ use.destroy /\ use.handler /\ server = "up"
        /\ UNCHANGED <<loopOf, peer, next_, batch, called, stopped, held, user, sends>>
        /\ \E active, own : destroyed(active, own)
    BY <1>10 DEF destroyServerInHandler, userVars
  <2>2. PICK active, own : destroyed(active, own)
    BY <2>1
  <2>. QED BY <1>0, <2>1, <2>2, DestroyServerStep
<1>. QED BY <1>1, <1>2, <1>3, <1>4, <1>5, <1>6, <1>7, <1>8, <1>9, <1>10 DEF Next

LEMMA StutterKeeps ==
  ASSUME IInv, UNCHANGED vars
  PROVE  IInv'
<1>1. UNCHANGED <<use, conn, loopOf, peer, connections_, next_, server,
                  queue, batch, called, stopped, held, user, sends, failed>>
  BY DEF vars, serverVars, loopsVars, userVars
<1>2. TypeOK' /\ UseInv' /\ FailuresExplained' /\ Made' = Made /\ Loops' = Loops
  BY <1>1 DEF IInv, TypeOK, UseInv, FailuresExplained, Made, Loops
<1>3. \A l : Pending(l)' = Pending(l)
  BY <1>1 DEF Pending
<1>4. ASSUME NEW c \in Made PROVE ConnInv(c)'
  BY <1>1, <1>3 DEF IInv, ConnInv, EventInv, MapInv, CoverInv, ShutInv, UserInv, Awaits
<1>5. ASSUME NEW l \in Loops, NEW c \in Made PROVE FunctorInv(l, c)'
  BY <1>1, <1>3 DEF IInv, FunctorInv, EstablishInv, DestroyInv, RemoveInv, SendInv, Awaits,
                    ClosedFirst
<1>. QED BY <1>2, <1>4, <1>5 DEF IInv

(***************************************************************************)
(* Inductive: IInv holds in every state of every program, whatever the     *)
(* pool and the number of connections.                                     *)
(***************************************************************************)
THEOREM Inductive == Spec => []IInv
<1>1. IInv /\ [Next]_vars => IInv'
  BY NextKeeps, StutterKeeps
<1>. QED BY InitHolds, <1>1, PTL DEF Spec

(***************************************************************************)
(* Typed: the state has its type; next_ stays a position of the pool       *)
(* (getNextLoop), and the user thread works on pointers it holds.          *)
(***************************************************************************)
THEOREM Typed == Spec => []TypeOK
<1>1. IInv => TypeOK
  BY DEF IInv
<1>. QED BY Inductive, <1>1, PTL

-----------------------------------------------------------------------------
(***************************************************************************)
(* SHUT_WR.  FinKept(k, j, open): when a connection goes from k to j, and  *)
(* its peer was open or not, SHUT_WR is issued on an empty buffer only and *)
(* an empty buffer behind it stays empty.                                  *)
(***************************************************************************)
Empty(k) == k.out = 0 /\ ~isWriting(k)

FinKept(k, j, open) == /\ j.fin /\ ~k.fin => Empty(j)
                       /\ k.fin /\ open /\ Empty(k) => Empty(j)

\* What does not touch the buffer.
Apart(k, j) == j.fin = k.fin /\ j.out = k.out /\ (isWriting(j) => isWriting(k))

LEMMA ApartKeeps ==
  ASSUME NEW k, NEW h, NEW j, NEW open, Apart(k, h), FinKept(h, j, open)
  PROVE  FinKept(k, j, open)
BY DEF Apart, FinKept, Empty

LEMMA ApartAlone ==
  ASSUME NEW k, NEW j, NEW open, Apart(k, j)
  PROVE  FinKept(k, j, open)
BY DEF Apart, FinKept, Empty

LEMMA ApartSteps ==
  ASSUME NEW k \in Connection
  PROVE  /\ Apart(k, k) /\ Apart(k, handleClose(k)) /\ Apart(k, connectDestroyed(k))
         /\ Apart(k, connectEstablished(k))
         /\ \A r : Apart(k, [k EXCEPT !.revents = r])
BY DEF Apart, handleClose, connectDestroyed, beforeRemove, connectEstablished, disableAll,
       isWriting, Connection

LEMMA BufferedFin ==
  ASSUME NEW k \in Connection, NEW n
  PROVE  buffered(k, n).k.fin = k.fin
BY DEF buffered, Outcome, Connection

LEMMA SentFin ==
  ASSUME NEW k \in Connection, NEW n, NEW open, NEW o \in sendInLoop(k, n, open)
  PROVE  FinKept(k, o.k, open)
<1>1. CASE o.k = k
  BY <1>1, ApartSteps, ApartAlone
<1>2. CASE o.k # k
  <2>1. \A S : Outcome(k, S).k = k
    BY DEF Outcome
  <2>2. \E m : o = buffered(k, m)
    BY <1>2, <2>1 DEF sendInLoop
  <2>3. ~(k.fin /\ open /\ Empty(k))
    BY <1>2, <2>1 DEF sendInLoop, Empty
  <2>. QED BY <2>2, <2>3, BufferedFin DEF FinKept
<1>. QED BY <1>1, <1>2

LEMMA WrittenFin ==
  ASSUME NEW k \in Connection, NEW open, NEW o \in handleWrite(k, open)
  PROVE  FinKept(k, o.k, open)
<1>1. CASE isWriting(k) /\ ~k.fin
  <2>. DEFINE quiet == [k EXCEPT !.out = 0, !.events = @ \ {"W"}]
  <2>1. o = drained(k) \/ \E left : o = Outcome([k EXCEPT !.out = left], {})
    BY <1>1 DEF handleWrite
  <2>2. Empty(quiet) /\ quiet \in Connection
    BY DEF Empty, isWriting, Connection
  <2>3. drained(k).k = quiet \/ drained(k).k = [quiet EXCEPT !.fin = TRUE]
    BY <2>2 DEF drained, Outcome, shutdownInLoop, Empty
  <2>4. Empty([quiet EXCEPT !.fin = TRUE])
    BY <2>2 DEF Empty, isWriting, Connection
  <2>. HIDE DEF quiet
  <2>5. CASE o = drained(k)
    BY <1>1, <2>2, <2>3, <2>4, <2>5 DEF FinKept
  <2>6. ASSUME NEW left, o = Outcome([k EXCEPT !.out = left], {}) PROVE FinKept(k, o.k, open)
    <3>1. o.k.fin = k.fin
      BY <2>6 DEF Outcome, Connection
    <3>. QED BY <1>1, <3>1 DEF FinKept
  <2>. QED BY <2>1, <2>5, <2>6
<1>2. CASE ~(isWriting(k) /\ ~k.fin)
  <2>1. o.k = k
    BY <1>2 DEF handleWrite, Outcome
  <2>. QED BY <2>1, ApartSteps, ApartAlone
<1>. QED BY <1>1, <1>2

LEMMA ShutFin ==
  ASSUME NEW k \in Connection, LifeInv(k), k.state_ = "kConnected", NEW open,
         NEW j, j = shutdownInLoop([k EXCEPT !.state_ = "kDisconnecting"])
  PROVE  FinKept(k, j, open)
<1>1. j.out = k.out /\ (isWriting(j) <=> isWriting(k)) /\ (isWriting(k) => j.fin = k.fin)
  BY DEF shutdownInLoop, isWriting, Connection
<1>2. ~isWriting(k) => k.out = 0
  BY DEF LifeInv, Connection
<1>. QED BY <1>1, <1>2 DEF FinKept, Empty

\* Connection c in this step.
Tame(c) == FinKept(conn[c], conn'[c], peer[c] = "open") /\ (peer'[c] = "open" => peer[c] = "open")

LEMMA TameOne ==
  ASSUME TypeOK, TypeOK', NEW c \in Made, NEW k, conn' = [conn EXCEPT ![c] = k],
         FinKept(conn[c], k, peer[c] = "open"),
         \A x \in Made : peer'[x] = "open" => peer[x] = "open"
  PROVE  Made' = Made /\ \A x \in Made : Tame(x)
<1>1. Made = DOMAIN conn /\ Made' = DOMAIN conn'
  BY DEF TypeOK, Made
<1>2. ASSUME NEW x \in Made PROVE Tame(x)
  <2>1. CASE x = c
    BY <1>1, <2>1 DEF Tame
  <2>2. CASE x # c
    <3>1. conn'[x] = conn[x] /\ conn[x] \in Connection
      BY <1>1, <2>2, ConnTypes
    <3>. QED BY <3>1, ApartSteps, ApartAlone DEF Tame
  <2>. QED BY <2>1, <2>2
<1>. QED BY <1>1, <1>2

LEMMA TameSame ==
  ASSUME TypeOK, UNCHANGED conn, \A x \in Made : peer'[x] = "open" => peer[x] = "open"
  PROVE  Made' = Made /\ \A x \in Made : Tame(x)
<1>1. ASSUME NEW x \in Made PROVE Tame(x)
  BY ConnTypes, ApartSteps, ApartAlone DEF Tame
<1>. QED BY <1>1 DEF Made

\* The connections of the next state: old ones, and new ones without SHUT_WR.
FinStep == /\ \A c \in Made : Tame(c)
           /\ \A c \in Made' : c \in Made \/ ~conn'[c].fin

LEMMA FinLoop ==
  ASSUME TypeOK, TypeOK', NEW l \in Loops, LoopRuns(l)
  PROVE  FinStep
<1>1. CASE takeBatch(l) \/ endBatch(l)
  <2>1. UNCHANGED <<conn, peer>>
    BY <1>1 DEF takeBatch, endBatch
  <2>. QED BY <2>1, TameSame DEF FinStep
<1>2. ASSUME NEW c \in Made, callConnectEstablished(l, c) PROVE FinStep
  <2>1. conn' = [conn EXCEPT ![c] = connectEstablished(conn[c])] /\ UNCHANGED peer
    BY <1>2 DEF callConnectEstablished, calls
  <2>2. FinKept(conn[c], connectEstablished(conn[c]), peer[c] = "open")
    BY ConnTypes, ApartSteps, ApartAlone
  <2>. QED BY <2>1, <2>2, TameOne DEF FinStep
<1>3. ASSUME NEW c \in Made, callConnectDestroyed(l, c) PROVE FinStep
  <2>1. conn' = [conn EXCEPT ![c] = connectDestroyed(conn[c])] /\ UNCHANGED peer
    BY <1>3 DEF callConnectDestroyed, calls
  <2>2. FinKept(conn[c], connectDestroyed(conn[c]), peer[c] = "open")
    BY ConnTypes, ApartSteps, ApartAlone
  <2>. QED BY <2>1, <2>2, TameOne DEF FinStep
<1>4. ASSUME NEW c \in Made, callRemoveConnectionInLoop(l, c) \/ callUser(l, c) PROVE FinStep
  <2>1. UNCHANGED <<conn, peer>>
    BY <1>4 DEF callRemoveConnectionInLoop, callUser, calls
  <2>. QED BY <2>1, TameSame DEF FinStep
<1>5. ASSUME NEW c \in Made, callSendInLoop(l, c) PROVE FinStep
  <2>1. PICK o \in sendInLoop(conn[c], 1, peer[c] = "open") : conn' = [conn EXCEPT ![c] = o.k]
    BY <1>5 DEF callSendInLoop
  <2>2. UNCHANGED peer
    BY <1>5 DEF callSendInLoop, calls
  <2>3. FinKept(conn[c], o.k, peer[c] = "open")
    BY ConnTypes, SentFin
  <2>. QED BY <2>1, <2>2, <2>3, TameOne DEF FinStep
<1>6. ASSUME NEW c \in Made, handleEvent(c) PROVE FinStep
  <2>. PICK k, h, open : k = conn[c] /\ h = afterRead(c) /\ open = (peer[c] = "open")
    OBVIOUS
  <2>0. k \in Connection
    BY ConnTypes
  <2>1. h \in Connection /\ Apart(k, h)
    <3>. PICK g : g = [k EXCEPT !.revents = {}]
      OBVIOUS
    <3>1. g \in Connection /\ Apart(k, g) /\ (h = g \/ h = handleClose(g))
      BY <2>0, ApartSteps DEF Connection, afterRead
    <3>2. Apart(g, handleClose(g))
      BY <3>1, ApartSteps
    <3>3. handleClose(g) \in Connection
      <4>1. handleClose(g) = [g EXCEPT !.events = {}, !.state_ = "kDisconnected", !.downs = @ + 1]
        BY <3>1 DEF handleClose, disableAll, Connection
      <4>2. g.downs + 1 \in Nat /\ {} \in SUBSET {"R", "W"} /\ "kDisconnected" \in States
        BY <3>1 DEF Connection, States
      <4>. QED BY <3>1, <4>1, <4>2 DEF Connection
    <3>. QED BY <3>1, <3>2, <3>3 DEF Apart
  <2>2. PICK o : /\ o \in handleWrite(h, open) \/ o = Outcome(h, {})
                 /\ conn' = [conn EXCEPT ![c] = o.k]
    BY <1>6 DEF handleEvent
  <2>3. FinKept(h, o.k, open)
    <3>1. CASE o \in handleWrite(h, open)
      BY <2>1, <3>1, WrittenFin
    <3>2. CASE o = Outcome(h, {})
      BY <2>1, <3>2, ApartSteps, ApartAlone DEF Outcome
    <3>. QED BY <2>2, <3>1, <3>2
  <2>4. FinKept(k, o.k, open)
    BY <2>1, <2>3, ApartKeeps
  <2>5. ASSUME NEW x \in Made, peer'[x] = "open" PROVE peer[x] = "open"
    <3>1. peer' = peer \/ peer' = [peer EXCEPT ![c] = "closed"]
      BY <1>6 DEF handleEvent
    <3>2. DOMAIN peer = Made
      BY DEF TypeOK, Made
    <3>. QED BY <2>5, <3>1, <3>2
  <2>. QED BY <2>2, <2>4, <2>5, TameOne DEF FinStep
<1>. QED BY <1>1, <1>2, <1>3, <1>4, <1>5, <1>6 DEF LoopRuns

LEMMA FinDestroyed ==
  ASSUME TypeOK, TypeOK', NEW active, NEW own, destroyed(active, own), UNCHANGED peer
  PROVE  FinStep
<1>1. CASE UNCHANGED conn
  BY <1>1, TameSame DEF FinStep
<1>2. CASE conn' = [c \in Made |->
                      IF c \in Here THEN [connectDestroyed(conn[c]) EXCEPT !.revents = {}]
                                   ELSE conn[c]]
  <2>1. Made' = Made
    BY <1>2 DEF TypeOK, Made
  <2>2. ASSUME NEW c \in Made PROVE Tame(c)
    <3>. PICK k, j : k = conn[c] /\ j = conn'[c]
      OBVIOUS
    <3>1. k \in Connection /\ (j = k \/ j = [connectDestroyed(k) EXCEPT !.revents = {}])
      BY <1>2, ConnTypes
    <3>2. Apart(k, [connectDestroyed(k) EXCEPT !.revents = {}])
      BY <3>1 DEF Apart, connectDestroyed, beforeRemove, disableAll, isWriting, Connection
    <3>3. FinKept(k, j, peer[c] = "open")
      BY <3>1, <3>2, ApartSteps, ApartAlone
    <3>. QED BY <3>3 DEF Tame
  <2>. QED BY <2>1, <2>2 DEF FinStep
<1>. QED BY <1>1, <1>2 DEF destroyed

LEMMA FinNext ==
  ASSUME IInv, TypeOK', Next
  PROVE  FinStep
<1>0. TypeOK
  BY DEF IInv
<1>1. CASE newConnection
  <2>. PICK k : /\ conn' = Append(conn, k)
                /\ k = newTcpConnection \/ k = connectEstablished(newTcpConnection)
    BY <1>1 DEF newConnection
  <2>. PICK n \in Nat : n = Len(conn) /\ conn \in Seq(Connection)
    BY <1>0, LenProperties DEF TypeOK
  <2>1. k \in Connection /\ ~k.fin
    BY NewConnection
  <2>2. /\ Made' = Made \cup {n + 1} /\ conn'[n + 1] = k
        /\ \A c \in Made : conn'[c] = conn[c]
    <3>1. Len(conn') = n + 1 /\ conn'[n + 1] = k /\ \A c \in 1..n : conn'[c] = conn[c]
      BY <2>1, AppendProperties
    <3>. QED BY <3>1 DEF Made
  <2>3. \A c \in Made : peer'[c] = peer[c]
    BY <1>0, <1>1 DEF newConnection, Made, TypeOK
  <2>4. \A c \in Made : Tame(c)
    BY <1>0, <2>2, <2>3, ConnTypes, ApartSteps, ApartAlone DEF Tame
  <2>. QED BY <2>1, <2>2, <2>4 DEF FinStep
<1>2. ASSUME NEW l \in Loops, LoopRuns(l) PROVE FinStep
  BY <1>0, <1>2, FinLoop
<1>3. ASSUME NEW l \in Loops, joinLoop(l) PROVE FinStep
  <2>1. UNCHANGED <<conn, peer>>
    BY <1>3 DEF joinLoop
  <2>. QED BY <1>0, <2>1, TameSame DEF FinStep
<1>4. ASSUME NEW c \in Made, NEW r \in Reports(c), poll(c, r) PROVE FinStep
  <2>. PICK k : k = [conn[c] EXCEPT !.revents = r]
    OBVIOUS
  <2>1. conn' = [conn EXCEPT ![c] = k] /\ UNCHANGED peer
    BY <1>4 DEF poll
  <2>2. FinKept(conn[c], k, peer[c] = "open")
    BY <1>0, ConnTypes, ApartSteps, ApartAlone
  <2>. QED BY <1>0, <2>1, <2>2, TameOne DEF FinStep
<1>5. ASSUME NEW c \in Made, peerLeaves(c) PROVE FinStep
  <2>1. UNCHANGED conn /\ \E p \in {"reset", "closed"} : peer' = [peer EXCEPT ![c] = p]
    BY <1>5 DEF peerLeaves
  <2>2. DOMAIN peer = Made
    BY <1>0 DEF TypeOK, Made
  <2>3. \A x \in Made : peer'[x] = "open" => peer[x] = "open"
    BY <2>1, <2>2
  <2>. QED BY <1>0, <2>1, <2>3, TameSame DEF FinStep
<1>6. ASSUME NEW c \in Made, NEW n \in 1..2, send(c, n) PROVE FinStep
  <2>1. PICK o \in sendInLoop(conn[c], n, peer[c] = "open") : conn' = [conn EXCEPT ![c] = o.k]
    BY <1>6 DEF send
  <2>2. UNCHANGED peer
    BY <1>6 DEF send
  <2>3. FinKept(conn[c], o.k, peer[c] = "open")
    BY <1>0, ConnTypes, SentFin
  <2>. QED BY <1>0, <2>1, <2>2, <2>3, TameOne DEF FinStep
<1>7. ASSUME NEW c \in Made, shutdown(c) PROVE FinStep
  <2>. PICK k : k = shutdownInLoop([conn[c] EXCEPT !.state_ = "kDisconnecting"])
    OBVIOUS
  <2>1. conn' = [conn EXCEPT ![c] = k] /\ UNCHANGED peer /\ conn[c].state_ = "kConnected"
    BY <1>7 DEF shutdown
  <2>2. FinKept(conn[c], k, peer[c] = "open")
    BY <2>1, ShutFin, SameParts
  <2>. QED BY <1>0, <2>1, <2>2, TameOne DEF FinStep
<1>8. ASSUME NEW c \in Made, userTests(c) \/ userQueues(c) \/ userReleases(c) PROVE FinStep
  <2>1. UNCHANGED <<conn, peer>>
    BY <1>8 DEF userTests, userQueues, userReleases
  <2>. QED BY <1>0, <2>1, TameSame DEF FinStep
<1>9. CASE destroyServer
  <2>1. (\E active, own : destroyed(active, own)) /\ UNCHANGED peer
    BY <1>9 DEF destroyServer
  <2>. QED BY <1>0, <2>1, FinDestroyed
<1>10. CASE destroyServerInHandler
  <2>1. (\E active, own : destroyed(active, own)) /\ UNCHANGED peer
    BY <1>10 DEF destroyServerInHandler
  <2>. QED BY <1>0, <2>1, FinDestroyed
<1>. QED BY <1>1, <1>2, <1>3, <1>4, <1>5, <1>6, <1>7, <1>8, <1>9, <1>10 DEF Next

(***************************************************************************)
(* DataBeforeFin: for every program, SHUT_WR is issued only when           *)
(* outputBuffer_ is empty and, as long as the peer is there to receive it, *)
(* nothing is buffered behind it (shutdownInLoop, handleWrite,             *)
(* sendInLoop).                                                            *)
(***************************************************************************)
THEOREM DataBeforeFin == Spec => FinAfterData
<1>. DEFINE Safe == \A c \in Made : conn'[c].fin /\ (~conn[c].fin \/ peer'[c] = "open")
                                       => conn'[c].out = 0
<1>1. Init => FinInv
  BY DEF Init, FinInv, Made
<1>2. ASSUME IInv, IInv', FinInv, Next PROVE FinInv' /\ Safe
  <2>1. FinStep
    BY <1>2, FinNext DEF IInv
  <2>2. ASSUME NEW c \in Made
        PROVE  /\ conn'[c].fin /\ peer'[c] = "open" => Empty(conn'[c])
               /\ conn'[c].fin /\ ~conn[c].fin => Empty(conn'[c])
    BY <1>2, <2>1 DEF FinStep, Tame, FinKept, FinInv, Empty
  <2>3. FinInv'
    BY <2>1, <2>2 DEF FinStep, FinInv, Empty
  <2>. QED BY <2>2, <2>3 DEF Empty
<1>3. FinInv /\ UNCHANGED vars => FinInv'
  BY DEF FinInv, Made, vars
<1>4. IInv /\ IInv' /\ FinInv /\ [Next]_vars => FinInv' /\ [Safe]_vars
  BY <1>2, <1>3
<1>. QED BY Inductive, <1>1, <1>4, PTL DEF Spec, FinAfterData

LEMMA CoveredAlive ==
  ASSUME IInv, NEW c \in Made, loopOf[c] \notin stopped,
         conn[c].added \/ conn[c].state_ = "kConnecting"
  PROVE  Alive(c)
<1>1. TypeOK /\ Base \in Loops /\ loopOf[c] \in Loops
  BY UseTypes, ConnTypes DEF IInv
<1>2. Covered(c)
  BY SameParts DEF CoverInv, Covered
<1>. QED BY <1>1, <1>2, AwaitedAlive DEF Covered, Strong, Alive

(***************************************************************************)
(* ChannelsOwned: for every program, a channel the poller knows belongs to *)
(* a connection that exists, because the map, removeConnectionInLoop or    *)
(* connectDestroyed holds a pointer to it.                                 *)
(***************************************************************************)
THEOREM ChannelsOwned == Spec => []ChannelOwned
<1>1. IInv => ChannelOwned
  BY CoveredAlive DEF ChannelOwned
<1>. QED BY Inductive, <1>1, PTL

(***************************************************************************)
(* FailuresKnown: for every program, connectEstablished finds kConnecting  *)
(* and handleClose finds a live state and, in the base loop, the           *)
(* connection in the map; each other failure needs what MayFail names: a   *)
(* second thread that sends, or a server that is destroyed with a pool,    *)
(* after shutdown() or in a handler.                                       *)
(***************************************************************************)
THEOREM FailuresKnown == Spec => []FailuresExplained
<1>1. IInv => FailuresExplained
  BY DEF IInv
<1>. QED BY Inductive, <1>1, PTL

(***************************************************************************)
(* CorrectUsesHold: no assertion fails in programs in which no other       *)
(* thread sends and which destroy the server, if at all, without a pool,   *)
(* without shutdown() and not in a handler: whatever the number of         *)
(* connections.                                                            *)
(***************************************************************************)
THEOREM CorrectUsesHold ==
  ASSUME \A u \in Uses : CorrectUse(u)
  PROVE  Spec => []NoAssertionFails
<1>1. ASSUME IInv PROVE NoAssertionFails
  <2>1. CorrectUse(use) /\ TypeOK /\ FailuresExplained
    BY <1>1 DEF IInv, TypeOK
  <2>2. MayFail(use) = {}
    BY <2>1, UseTypes DEF MayFail, CorrectUse
  <2>. QED BY <2>1, <2>2 DEF FailuresExplained, NoAssertionFails
<1>. QED BY Inductive, <1>1, PTL

(***************************************************************************)
(* UpAndDown: a connection is reported up at most once, down at most once  *)
(* and after it is up, and down before it is freed, in programs that do    *)
(* not both call shutdown() and destroy the server.                        *)
(***************************************************************************)
THEOREM UpAndDown ==
  ASSUME \A u \in Uses : ~(u.shutdown /\ u.destroy)
  PROVE  Spec => []UpThenDown
<1>1. ASSUME IInv, NEW c \in Made
      PROVE  /\ conn[c].downs <= conn[c].ups /\ conn[c].ups <= 1
             /\ ~Alive(c) /\ stopped = {} => conn[c].downs = 1
  <2>1. LifeInv(conn[c]) /\ conn[c] \in Connection /\ ShutInv(c) /\ use \in Uses
    BY <1>1, SameParts DEF TypeOK
  <2>2. conn[c].downs <= conn[c].ups /\ conn[c].ups <= 1
    BY <2>1 DEF LifeInv
  <2>3. ASSUME ~Alive(c), stopped = {} PROVE conn[c].downs = 1
    <3>1. ~(conn[c].added \/ conn[c].state_ = "kConnecting")
      BY <1>1, <2>3, CoveredAlive
    <3>2. conn[c].state_ # "kConnected"
      BY <2>1, <3>1 DEF LifeInv
    <3>3. conn[c].state_ # "kDisconnecting"
      BY <2>1, <3>1 DEF ShutInv
    <3>4. conn[c].state_ = "kDisconnected"
      BY <2>1, <3>1, <3>2, <3>3 DEF Connection, States
    <3>. QED BY <2>1, <3>4 DEF LifeInv
  <2>. QED BY <2>2, <2>3
<1>2. IInv => UpThenDown
  BY <1>1 DEF UpThenDown
<1>. QED BY Inductive, <1>2, PTL
=============================================================================
