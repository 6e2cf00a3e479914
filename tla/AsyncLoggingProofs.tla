------------------------ MODULE AsyncLoggingProofs ------------------------
(***************************************************************************)
(* Proofs about AsyncLogging, for every capacity of the buffers, every     *)
(* backlog limit of at least two and every number of lines.                *)
(***************************************************************************)
EXTENDS AsyncLogging, SequenceTheorems, WellFoundedInduction, TLAPS

(***************************************************************************)
(* FlattenSeq is defined by a recursive function.  What it computes is     *)
(* shown by induction on numbers, in the form of a set of numbers that has *)
(* 0 and with each number the next one.                                    *)
(***************************************************************************)
LEMMA Induction ==
  ASSUME NEW T \in SUBSET Nat, 0 \in T, \A n \in T : n + 1 \in T
  PROVE  T = Nat
<1>. DEFINE U == Nat \ T
<1>1. SUFFICES ASSUME U # {} PROVE FALSE
  OBVIOUS
<1>2. PICK x \in U : \A y \in U : ~(<<y, x>> \in OpToRel(<, Nat))
  <2>1. U \subseteq Nat
    OBVIOUS
  <2>. HIDE DEF U
  <2>. QED BY <1>1, <2>1, NatLessThanWellFounded, WFMin
<1>3. \A y \in U : ~(y < x)
  BY <1>2 DEF OpToRel
<1>4. x \in Nat /\ x # 0 /\ x - 1 \in Nat
  OBVIOUS
<1>5. x - 1 \in T
  BY <1>3, <1>4
<1>. QED BY <1>4, <1>5

\* f holds what is flattened of the first n sequences in s.
Flattens(f, s, n) == \A i \in 1..n : f[i] = IF i = 1 THEN s[i] ELSE f[i - 1] \o s[i]

LEMMA FlattensExists ==
  ASSUME NEW S, NEW s \in Seq(Seq(S)), NEW n \in 0..Len(s)
  PROVE  \E f \in [1..n -> Seq(S)] : Flattens(f, s, n)
<1>. DEFINE T == {m \in Nat : m <= Len(s) => \E f \in [1..m -> Seq(S)] : Flattens(f, s, m)}
<1>0. Len(s) \in Nat /\ \A i \in 1..Len(s) : s[i] \in Seq(S)
  BY LenProperties, ElementOfSeq
<1>1. 0 \in T
  <2>1. [i \in 1..0 |-> <<>>] \in [1..0 -> Seq(S)]
    OBVIOUS
  <2>2. Flattens([i \in 1..0 |-> <<>>], s, 0)
    BY DEF Flattens
  <2>. QED BY <2>1, <2>2
<1>2. ASSUME NEW m \in T PROVE m + 1 \in T
  <2>1. SUFFICES ASSUME m + 1 <= Len(s)
                 PROVE  \E f \in [1..(m + 1) -> Seq(S)] : Flattens(f, s, m + 1)
    OBVIOUS
  <2>2. m \in Nat /\ m <= Len(s)
    BY <1>0, <2>1
  <2>3. PICK f \in [1..m -> Seq(S)] : Flattens(f, s, m)
    BY <2>2
  <2>. DEFINE e == IF m = 0 THEN s[1] ELSE f[m] \o s[m + 1]
              g == [i \in 1..(m + 1) |-> IF i = m + 1 THEN e ELSE f[i]]
  <2>4. e \in Seq(S)
    BY <1>0, <2>1, <2>2, ConcatProperties
  <2>5. g \in [1..(m + 1) -> Seq(S)]
    BY <2>2, <2>4
  <2>6. ASSUME NEW i \in 1..(m + 1)
        PROVE  g[i] = IF i = 1 THEN s[i] ELSE g[i - 1] \o s[i]
    <3>1. CASE i = m + 1
      <4>1. g[i] = e
        BY <3>1
      <4>2. CASE m = 0
        BY <3>1, <4>1, <4>2
      <4>3. CASE m # 0
        <5>1. i # 1 /\ i - 1 = m /\ m \in 1..(m + 1) /\ m # m + 1
          BY <2>2, <3>1, <4>3
        <5>2. g[i - 1] = f[m]
          BY <5>1
        <5>. QED BY <3>1, <4>1, <4>3, <5>1, <5>2
      <4>. QED BY <4>2, <4>3
    <3>2. CASE i # m + 1
      <4>1. i \in 1..m /\ (i # 1 => i - 1 \in 1..m /\ i - 1 \in 1..(m + 1) /\ i - 1 # m + 1)
        BY <2>2, <3>2
      <4>2. g[i] = f[i] /\ (i # 1 => g[i - 1] = f[i - 1])
        BY <4>1, <3>2
      <4>. HIDE DEF g
      <4>. QED BY <2>3, <4>1, <4>2 DEF Flattens
    <3>. QED BY <3>1, <3>2
  <2>7. Flattens(g, s, m + 1)
    BY <2>6 DEF Flattens
  <2>. QED BY <2>5, <2>7
<1>3. T = Nat
  <2>1. T \in SUBSET Nat
    OBVIOUS
  <2>. HIDE DEF T
  <2>. QED BY <1>1, <1>2, <2>1, Induction
<1>4. n \in T /\ n <= Len(s)
  <2>. HIDE DEF T
  <2>. QED BY <1>0, <1>3
<1>. QED BY <1>4

Agree(s, t, n) == \A i \in 1..n : t[i] = s[i]

LEMMA FlattensUnique ==
  ASSUME NEW s, NEW t, NEW n \in Nat, Agree(s, t, n),
         NEW f, Flattens(f, s, n), NEW g, Flattens(g, t, n)
  PROVE  \A i \in 1..n : f[i] = g[i]
<1>. DEFINE T == {m \in Nat : m \in 1..n => f[m] = g[m]}
<1>1. 0 \in T
  OBVIOUS
<1>2. ASSUME NEW m \in T PROVE m + 1 \in T
  <2>1. SUFFICES ASSUME m + 1 \in 1..n PROVE f[m + 1] = g[m + 1]
    OBVIOUS
  <2>2. CASE m = 0
    BY <2>1, <2>2 DEF Flattens, Agree
  <2>3. CASE m # 0
    <3>1. m \in 1..n /\ m + 1 # 1 /\ (m + 1) - 1 = m
      BY <2>1, <2>3
    <3>2. f[m + 1] = f[m] \o s[m + 1] /\ g[m + 1] = g[m] \o t[m + 1]
      BY <2>1, <3>1 DEF Flattens
    <3>. QED BY <2>1, <3>1, <3>2 DEF Agree
  <2>. QED BY <2>2, <2>3
<1>3. T = Nat
  <2>1. T \in SUBSET Nat
    OBVIOUS
  <2>. HIDE DEF T
  <2>. QED BY <1>1, <1>2, <2>1, Induction
<1>. QED BY <1>3

LEMMA FlattenSeqIs ==
  ASSUME NEW S, NEW s \in Seq(Seq(S)), Len(s) # 0
  PROVE  \E f : /\ f \in [1..Len(s) -> Seq(S)] /\ Flattens(f, s, Len(s))
                /\ FlattenSeq(s) = f[Len(s)]
<1>. DEFINE Is(f) == f = [i \in 1..Len(s) |-> IF i = 1 THEN s[i] ELSE f[i - 1] \o s[i]]
            c == CHOOSE f : Is(f)
<1>1. FlattenSeq(s) = c[Len(s)]
  BY DEF FlattenSeq
<1>0. Len(s) \in Nat
  BY LenProperties
<1>2. PICK f \in [1..Len(s) -> Seq(S)] : Flattens(f, s, Len(s))
  <2>1. Len(s) \in 0..Len(s)
    BY <1>0
  <2>. QED BY <2>1, FlattensExists
<1>3. Is(f)
  BY <1>2 DEF Flattens
<1>4. Is(c)
  <2>. HIDE DEF Is
  <2>. QED BY <1>3
<1>. HIDE DEF c
<1>5. Flattens(c, s, Len(s))
  BY <1>4 DEF Flattens
<1>6. \A i \in 1..Len(s) : f[i] = c[i]
  <2>1. Agree(s, s, Len(s))
    BY DEF Agree
  <2>. HIDE DEF Is
  <2>. QED BY <1>0, <1>2, <1>5, <2>1, FlattensUnique
<1>7. c = [i \in 1..Len(s) |-> c[i]] /\ f = [i \in 1..Len(s) |-> f[i]]
  BY <1>2, <1>4
<1>8. c = f
  <2>. HIDE DEF Is
  <2>. QED BY <1>6, <1>7
<1>. QED BY <1>1, <1>2, <1>8

LEMMA FlattenEmpty == FlattenSeq(<<>>) = <<>>
BY DEF FlattenSeq

LEMMA FlattenType ==
  ASSUME NEW S, NEW s \in Seq(Seq(S))
  PROVE  FlattenSeq(s) \in Seq(S)
<1>0. Len(s) \in Nat
  BY LenProperties
<1>1. CASE Len(s) = 0
  <2>1. s = <<>>
    BY <1>1, EmptySeq
  <2>. QED BY <2>1, FlattenEmpty, EmptySeq
<1>2. CASE Len(s) # 0
  <2>1. PICK f : f \in [1..Len(s) -> Seq(S)] /\ FlattenSeq(s) = f[Len(s)]
    BY <1>2, FlattenSeqIs
  <2>2. Len(s) \in 1..Len(s)
    BY <1>0, <1>2
  <2>. QED BY <2>1, <2>2
<1>. QED BY <1>1, <1>2

LEMMA FlattenAppend ==
  ASSUME NEW S, NEW s \in Seq(Seq(S)), NEW x \in Seq(S)
  PROVE  FlattenSeq(Append(s, x)) = FlattenSeq(s) \o x
<1>. DEFINE n == Len(s)
            t == Append(s, x)
<1>1. /\ n \in Nat /\ t \in Seq(Seq(S)) /\ Len(t) = n + 1
      /\ t[n + 1] = x /\ \A i \in 1..n : t[i] = s[i]
  BY LenProperties, AppendProperties
<1>. HIDE DEF t
<1>2. PICK g : Flattens(g, t, n + 1) /\ FlattenSeq(t) = g[n + 1]
  <2>1. Len(t) # 0
    BY <1>1
  <2>. QED BY <1>1, <2>1, FlattenSeqIs
<1>3. CASE n = 0
  <2>1. s = <<>>
    BY <1>3, EmptySeq
  <2>2. g[n + 1] = x
    BY <1>1, <1>2, <1>3 DEF Flattens
  <2>. QED BY <1>2, <2>1, <2>2, FlattenEmpty, ConcatEmptySeq DEF t
<1>4. CASE n # 0
  <2>1. PICK f : Flattens(f, s, n) /\ FlattenSeq(s) = f[n]
    BY <1>4, FlattenSeqIs
  <2>2. Flattens(g, t, n)
    BY <1>1, <1>2 DEF Flattens
  <2>3. n \in 1..n /\ n + 1 \in 1..(n + 1) /\ n + 1 # 1 /\ (n + 1) - 1 = n
    BY <1>1, <1>4
  <2>4. f[n] = g[n]
    <3>. HIDE DEF n
    <3>0. n \in Nat /\ Agree(s, t, n)
      BY <1>1 DEF Agree
    <3>1. ASSUME NEW u, NEW v, Flattens(u, s, n), Flattens(v, t, n)
          PROVE  \A i \in 1..n : u[i] = v[i]
      BY ONLY <3>0, <3>1, FlattensUnique
    <3>. QED BY <2>1, <2>2, <2>3, <3>1
  <2>5. g[n + 1] = g[n] \o x
    BY <1>1, <1>2, <2>3 DEF Flattens
  <2>. QED BY <1>2, <2>1, <2>4, <2>5 DEF t
<1>. QED BY <1>3, <1>4

\* Concatenation under a name: the provers look into \o, and lose the way.
Cat(a, b) == a \o b

LEMMA CatAssoc ==
  ASSUME NEW S, NEW a \in Seq(S), NEW b \in Seq(S), NEW c \in Seq(S)
  PROVE  Cat(a, b) \in Seq(S) /\ Cat(Cat(a, b), c) = Cat(a, Cat(b, c))
BY ConcatProperties, ConcatAssociative DEF Cat

LEMMA ConcatAppend ==
  ASSUME NEW S, NEW a \in Seq(S), NEW b \in Seq(S), NEW x \in S
  PROVE  a \o Append(b, x) = Append(a \o b, x)
<1>1. Append(b, x) = b \o <<x>> /\ <<x>> \in Seq(S)
  BY AppendIsConcat
<1>2. a \o (b \o <<x>>) = (a \o b) \o <<x>>
  BY <1>1, ConcatAssociative
<1>3. Append(a \o b, x) = (a \o b) \o <<x>>
  BY ConcatProperties, AppendIsConcat
<1>. QED BY <1>1, <1>2, <1>3

LEMMA FlattenConcat ==
  ASSUME NEW S, NEW a \in Seq(Seq(S)), NEW b \in Seq(Seq(S))
  PROVE  FlattenSeq(a \o b) = FlattenSeq(a) \o FlattenSeq(b)
<1>4. \A u, v \in Seq(Seq(S)) : \A e \in Seq(S) : u \o Append(v, e) = Append(u \o v, e)
  <2>. PICK Q : Q = Seq(S)
    OBVIOUS
  <2>1. \A u, v \in Seq(Q) : \A e \in Q : u \o Append(v, e) = Append(u \o v, e)
    BY ONLY ConcatAppend
  <2>. QED BY <2>1
<1>. DEFINE T == {n \in Nat : \A c \in Seq(Seq(S)) :
                     Len(c) = n => FlattenSeq(a \o c) = FlattenSeq(a) \o FlattenSeq(c)}
<1>0. FlattenSeq(a) \in Seq(S)
  BY FlattenType
<1>1. 0 \in T
  <2>1. ASSUME NEW c \in Seq(Seq(S)), Len(c) = 0
        PROVE  FlattenSeq(a \o c) = FlattenSeq(a) \o FlattenSeq(c)
    <3>1. c = <<>> /\ a \o c = a
      BY <2>1, EmptySeq, ConcatEmptySeq
    <3>. QED BY <1>0, <3>1, FlattenEmpty, ConcatEmptySeq
  <2>. QED BY <2>1
<1>2. ASSUME NEW n \in T PROVE n + 1 \in T
  <2>1. ASSUME NEW c \in Seq(Seq(S)), Len(c) = n + 1
        PROVE  FlattenSeq(a \o c) = FlattenSeq(a) \o FlattenSeq(c)
    <3>1. c # <<>>
      BY <2>1, EmptySeq
    <3>2. PICK d \in Seq(Seq(S)), x \in Seq(S) : c = Append(d, x)
      BY <3>1, SequenceEmptyOrAppend
    <3>3. Len(d) = n
      BY <2>1, <3>2, AppendProperties, LenProperties
    <3>4. FlattenSeq(a \o d) = FlattenSeq(a) \o FlattenSeq(d)
      BY <3>3
    <3>5. a \o c = Append(a \o d, x) /\ a \o d \in Seq(Seq(S))
      <4>1. a \o Append(d, x) = Append(a \o d, x)
        BY <1>4
      <4>2. a \o d \in Seq(Seq(S))
        BY ConcatProperties
      <4>. QED BY <3>2, <4>1, <4>2
    <3>6. FlattenSeq(a \o c) = FlattenSeq(a \o d) \o x
      BY <3>5, FlattenAppend
    <3>7. FlattenSeq(c) = FlattenSeq(d) \o x /\ FlattenSeq(d) \in Seq(S)
      BY <3>2, FlattenAppend, FlattenType
    <3>8. Cat(Cat(FlattenSeq(a), FlattenSeq(d)), x) = Cat(FlattenSeq(a), Cat(FlattenSeq(d), x))
      BY <1>0, <3>7, CatAssoc
    <3>9. FlattenSeq(a \o c) = Cat(Cat(FlattenSeq(a), FlattenSeq(d)), x)
      BY <3>4, <3>6, Zenon DEF Cat
    <3>10. FlattenSeq(a) \o FlattenSeq(c) = Cat(FlattenSeq(a), Cat(FlattenSeq(d), x))
      BY <3>7, Zenon DEF Cat
    <3>. QED BY <3>8, <3>9, <3>10
  <2>. QED BY <2>1
<1>3. T = Nat
  <2>1. T \in SUBSET Nat
    OBVIOUS
  <2>. HIDE DEF T
  <2>. QED BY <1>1, <1>2, <2>1, Induction
<1>. QED BY <1>3, LenProperties
-----------------------------------------------------------------------------
USE DEF sharedVars, localVars, fileVars

LEMMA TypeInit ==
  ASSUME Init
  PROVE  IInv
<1>1. <<>> \in Seq(1..MaxLines) /\ <<>> \in Seq(Seq(1..MaxLines))
  OBVIOUS
<1>2. 0 \in 0..MaxLines
  BY LinesAssumption
<1>3. Len(<<>>) <= Capacity
  BY CapacityAssumption
<1>4. TypeOK
  BY <1>1, <1>2, <1>3 DEF Init, TypeOK, BackEnd, Owner, Buffers
<1>5. ReserveInv /\ RoundInv /\ StartInv
  BY DEF Init, ReserveInv, RoundInv, StartInv
<1>6. DroppedInv /\ InOrderOnce
  <2>1. DroppedInv
    BY DEF Init, DroppedInv, ToSet
  <2>2. buffersToWrite \o buffers_ = <<>>
    BY DEF Init
  <2>3. Lines(written, buffersToWrite \o buffers_, currentBuffer_) = <<>>
    BY <2>2, FlattenEmpty DEF Init, Lines
  <2>. QED BY <2>1, <2>3 DEF Init, InOrderOnce, Increasing, ToSet
<1>. QED BY <1>4, <1>5, <1>6 DEF IInv

\* What write takes apart.
LEMMA Parts ==
  ASSUME buffersToWrite \in Buffers
  PROVE  /\ toFile \in Seq(Seq(1..MaxLines)) /\ toDrop \in Seq(Seq(1..MaxLines))
         /\ buffersToWrite = toFile \o toDrop
<1>. DEFINE t == buffersToWrite
            n == Len(t)
            k == IF n > Backlog THEN 2 ELSE n
<1>1. n \in Nat /\ t \in Seq(Seq(1..MaxLines)) /\ \A i \in 1..n : t[i] \in Seq(1..MaxLines)
  BY LenProperties, ElementOfSeq DEF Buffers
<1>2. k \in Nat /\ k <= n
  BY <1>1, BacklogAssumption
<1>3. toFile = SubSeq(t, 1, k)
  BY <1>1, SubSeqFull DEF toFile
<1>. HIDE DEF k, n, t
<1>4. SubSeq(t, 1, k) \in Seq(Seq(1..MaxLines)) /\ Len(SubSeq(t, 1, k)) = k
  <2>1. \A i \in 1..k : t[i] \in Seq(1..MaxLines)
    BY <1>1, <1>2
  <2>. QED BY <1>1, <1>2, <2>1, SubSeqProperties
<1>5. toDrop = SubSeq(t, k + 1, n)
  BY <1>3, <1>4 DEF toDrop, n, t
<1>6. SubSeq(t, k + 1, n) \in Seq(Seq(1..MaxLines))
  <2>1. \A i \in (k + 1)..n : t[i] \in Seq(1..MaxLines)
    BY <1>1, <1>2
  <2>. QED BY <1>1, <1>2, <2>1, SubSeqProperties
<1>7. SubSeq(t, 1, k) \o SubSeq(t, k + 1, n) = t
  <2>1. SubSeq(t, 1, n) = t
    BY <1>1, SubSeqFull DEF n
  <2>2. 1 \in 1..(n + 1) /\ k \in (1 - 1)..n /\ n \in k..n
    BY <1>1, <1>2
  <2>. QED BY <1>1, <2>1, <2>2, ConcatAdjacentSubSeq DEF n
<1>. QED BY <1>3, <1>4, <1>5, <1>6, <1>7 DEF t

LEMMA TypeInductive ==
  ASSUME TypeOK, [Next]_vars
  PROVE  TypeOK'
<1>. USE LinesAssumption DEF TypeOK, BackEnd, Owner, Buffers
<1>1. CASE append
  <2>1. appended + 1 \in 1..MaxLines /\ appended' \in 0..MaxLines
    BY <1>1 DEF append
  <2>2. currentBuffer_' \in Seq(1..MaxLines)
    <3>1. Append(currentBuffer_, appended + 1) \in Seq(1..MaxLines)
      BY <2>1, AppendProperties
    <3>2. <<appended + 1>> \in Seq(1..MaxLines)
      BY <2>1
    <3>. QED BY <1>1, <3>1, <3>2 DEF append, placed
  <2>5. Len(currentBuffer_') <= Capacity
    <3>1. CASE Fits
      <4>1. Len(Append(currentBuffer_, appended + 1)) = Len(currentBuffer_) + 1
        BY <2>1, AppendProperties
      <4>2. Len(currentBuffer_) \in Nat
        BY LenProperties
      <4>. QED BY <1>1, <3>1, <4>1, <4>2, CapacityAssumption DEF append, Fits
    <3>2. CASE ~Fits
      <4>1. currentBuffer_' = <<appended + 1>>
        BY <1>1, <3>2 DEF append, placed
      <4>2. Len(<<appended + 1>>) = 1
        OBVIOUS
      <4>. QED BY <4>1, <4>2, CapacityAssumption
    <3>. QED BY <3>1, <3>2
  <2>3. buffers_' \in Buffers
    <3>1. Append(buffers_, currentBuffer_) \in Seq(Seq(1..MaxLines))
      BY AppendProperties
    <3>. QED BY <1>1, <3>1 DEF append
  <2>4. nextBuffer_' \in BOOLEAN /\ at' \in BackEnd
    BY <1>1 DEF append, notified
  <2>. QED BY <1>1, <2>1, <2>2, <2>3, <2>4, <2>5 DEF append
<1>2. CASE start
  BY <1>2 DEF start
<1>3. CASE threadBegins
  BY <1>3 DEF threadBegins
<1>4. CASE stop
  BY <1>4 DEF stop
<1>5. CASE stopNotifies
  BY <1>5 DEF stopNotifies, notified
<1>6. CASE stopJoins
  BY <1>6 DEF stopJoins
<1>7. CASE whileRunning
  BY <1>7 DEF whileRunning
<1>8. CASE wait
  BY <1>8 DEF wait
<1>9. CASE takeBuffers
  <2>1. buffersToWrite' \in Buffers
    <3>1. Append(buffers_, currentBuffer_) \in Seq(Seq(1..MaxLines))
      BY AppendProperties
    <3>. QED BY <1>9, <3>1 DEF takeBuffers
  <2>2. currentBuffer_' \in Seq(1..MaxLines) /\ buffers_' \in Buffers
    BY <1>9 DEF takeBuffers
  <2>4. Len(currentBuffer_') <= Capacity
    BY <1>9, CapacityAssumption DEF takeBuffers
  <2>3. newBuffer2' \in BOOLEAN /\ newBuffer1' \in BOOLEAN /\ nextBuffer_' \in BOOLEAN
    BY <1>9 DEF takeBuffers
  <2>. QED BY <1>9, <2>1, <2>2, <2>3, <2>4 DEF takeBuffers
<1>10. CASE write
  <2>1. written' \in Seq(1..MaxLines) /\ dropped' \in Seq(1..MaxLines)
    BY <1>10, Parts, FlattenType, ConcatProperties DEF write, droppedThen
  <2>2. UNCHANGED <<running_, currentBuffer_, nextBuffer_, buffers_, appended, owner>>
    BY <1>10 DEF write
  <2>3. buffersToWrite' \in Buffers
    BY <1>10 DEF write
  <2>4. at' \in BackEnd /\ newBuffer1' \in BOOLEAN /\ newBuffer2' \in BOOLEAN
    BY <1>10, Zenon DEF write
  <2>. QED BY <2>1, <2>2, <2>3, <2>4
<1>11. CASE waitForSeconds
  BY <1>11 DEF waitForSeconds
<1>12. CASE UNCHANGED vars
  BY <1>12 DEF vars
<1>. QED
  BY <1>1, <1>2, <1>3, <1>4, <1>5, <1>6, <1>7, <1>8, <1>9, <1>10, <1>11, <1>12 DEF Next, BackEndRuns, Quiet

LEMMA ReserveInductive ==
  ASSUME TypeOK, ReserveInv, [Next]_vars
  PROVE  ReserveInv'
<1>. USE DEF TypeOK, Buffers, ReserveInv
<1>1. CASE append
  BY <1>1, AppendProperties DEF append
<1>2. CASE start
  BY <1>2 DEF start
<1>3. CASE threadBegins
  BY <1>3 DEF threadBegins
<1>4. CASE stop
  BY <1>4 DEF stop
<1>5. CASE stopNotifies
  BY <1>5 DEF stopNotifies, notified
<1>6. CASE stopJoins
  BY <1>6 DEF stopJoins
<1>7. CASE whileRunning
  BY <1>7 DEF whileRunning
<1>8. CASE wait
  BY <1>8 DEF wait
<1>9. CASE takeBuffers
  BY <1>9 DEF takeBuffers
<1>10. CASE write
  BY <1>10 DEF write, recyclable, toFile
<1>11. CASE waitForSeconds
  BY <1>11 DEF waitForSeconds
<1>12. CASE UNCHANGED vars
  BY <1>12 DEF vars
<1>. QED
  BY <1>1, <1>2, <1>3, <1>4, <1>5, <1>6, <1>7, <1>8, <1>9, <1>10, <1>11, <1>12 DEF Next, BackEndRuns, Quiet

(***************************************************************************)
(* Two buffers, or the only one, are left for reuse, backlog or not.       *)
(***************************************************************************)
LEMMA RecyclableLen ==
  ASSUME buffersToWrite \in Buffers
  PROVE  /\ recyclable \in Nat
         /\ recyclable = IF Len(buffersToWrite) >= 2 THEN 2 ELSE Len(buffersToWrite)
<1>1. Len(buffersToWrite) \in Nat
  BY LenProperties DEF Buffers
<1>2. CASE Len(buffersToWrite) > Backlog
  <2>1. Len(buffersToWrite) >= 2
    BY <1>1, <1>2, BacklogAssumption
  <2>2. Len(SubSeq(buffersToWrite, 1, 2)) = 2
    BY <1>1, <2>1, SubSeqProperties DEF Buffers
  <2>. QED BY <1>2, <2>1, <2>2 DEF recyclable, toFile
<1>3. CASE ~(Len(buffersToWrite) > Backlog)
  BY <1>1, <1>3 DEF recyclable, toFile
<1>. QED BY <1>2, <1>3

LEMMA RoundInductive ==
  ASSUME TypeOK, ReserveInv, StartInv, RoundInv, [Next]_vars
  PROVE  RoundInv'
<1>. USE BacklogAssumption DEF TypeOK, BackEnd, Buffers, ReserveInv, RoundInv
<1>1. CASE append
  <2>1. (at' = "write") <=> (at = "write")
    BY <1>1 DEF append, notified
  <2>2. UNCHANGED <<newBuffer1, newBuffer2, buffersToWrite>>
    BY <1>1 DEF append
  <2>. QED BY <2>1, <2>2
<1>2. CASE start
  BY <1>2 DEF start, StartInv
<1>3. CASE threadBegins
  BY <1>3 DEF threadBegins
<1>4. CASE stop
  BY <1>4 DEF stop
<1>5. CASE stopNotifies
  BY <1>5 DEF stopNotifies, notified
<1>6. CASE stopJoins
  BY <1>6 DEF stopJoins
<1>7. CASE whileRunning
  BY <1>7 DEF whileRunning
<1>8. CASE wait
  BY <1>8 DEF wait
<1>9. CASE takeBuffers
  <2>1. at' = "write" /\ ~newBuffer1' /\ newBuffer2' = (newBuffer2 /\ nextBuffer_)
    BY <1>9 DEF takeBuffers
  <2>2. buffersToWrite' = Append(buffers_, currentBuffer_)
    BY <1>9 DEF takeBuffers
  <2>3. newBuffer2
    BY <1>9 DEF takeBuffers
  <2>4. Len(buffersToWrite') = Len(buffers_) + 1 /\ buffersToWrite' # <<>>
    <3>1. buffers_ \in Seq(Seq(1..MaxLines)) /\ currentBuffer_ \in Seq(1..MaxLines)
      OBVIOUS
    <3>. QED BY ONLY <2>2, <3>1, AppendProperties
  <2>5. buffers_ # <<>> => Len(buffers_) >= 1
    BY EmptySeq, LenProperties
  <2>6. Len(buffers_) \in Nat
    BY LenProperties
  <2>7. ~newBuffer2' => Len(buffersToWrite') >= 2
    <3>1. ~newBuffer2' => buffers_ # <<>>
      BY <2>1, <2>3
    <3>. QED BY <3>1, <2>4, <2>5, <2>6
  <2>. QED BY <2>1, <2>4, <2>7
<1>10. CASE write
  <2>1. at = "write" /\ at' = "while" /\ buffersToWrite' = <<>>
    BY <1>10 DEF write
  <2>2. Len(buffersToWrite) >= 1 /\ Len(buffersToWrite) \in Nat
    BY <2>1, EmptySeq, LenProperties
  <2>3. recyclable >= 1 /\ (Len(buffersToWrite) >= 2 => recyclable >= 2)
    BY <2>2, RecyclableLen
  <2>4. newBuffer1' = TRUE
    BY <1>10, <2>3 DEF write
  <2>5. newBuffer2' = TRUE
    <3>1. CASE newBuffer2
      BY <1>10, <3>1 DEF write
    <3>2. CASE ~newBuffer2
      <4>1. recyclable \in Int /\ recyclable - 1 >= 1
        BY <2>1, <2>2, <2>3, <3>2, RecyclableLen
      <4>2. newBuffer2' = (newBuffer2 \/ recyclable - 1 >= 1)
        BY <1>10, <2>1 DEF write
      <4>. QED BY <4>1, <4>2
    <3>. QED BY <3>1, <3>2
  <2>. QED BY <2>1, <2>4, <2>5
<1>11. CASE waitForSeconds
  BY <1>11 DEF waitForSeconds
<1>12. CASE UNCHANGED vars
  BY <1>12 DEF vars
<1>. QED
  BY <1>1, <1>2, <1>3, <1>4, <1>5, <1>6, <1>7, <1>8, <1>9, <1>10, <1>11, <1>12 DEF Next, BackEndRuns, Quiet

LEMMA StartInductive ==
  ASSUME StartInv, [Next]_vars
  PROVE  StartInv'
BY DEF StartInv, Next, BackEndRuns, Quiet, append, notified, start, threadBegins, stop,
   stopNotifies, stopJoins, whileRunning, wait, waitForSeconds, takeBuffers, write, vars

-----------------------------------------------------------------------------
(***************************************************************************)
(* The order of the lines.                                                 *)
(***************************************************************************)
LEMMA ToSetConcat ==
  ASSUME NEW S, NEW a \in Seq(S), NEW b \in Seq(S)
  PROVE  ToSet(a \o b) = ToSet(a) \cup ToSet(b)
<1>. DEFINE m == Len(a)
            n == Len(b)
            c == a \o b
<1>1. /\ m \in Nat /\ n \in Nat /\ DOMAIN a = 1..m /\ DOMAIN b = 1..n
      /\ c \in Seq(S) /\ Len(c) = m + n
      /\ \A i \in 1..(m + n) : c[i] = IF i <= m THEN a[i] ELSE b[i - m]
  BY LenProperties, ConcatProperties
<1>2. DOMAIN c = 1..(m + n)
  BY <1>1, LenProperties
<1>. HIDE DEF c, m, n
<1>3. ASSUME NEW i \in 1..(m + n) PROVE c[i] \in ToSet(a) \cup ToSet(b)
  <2>1. CASE i <= m
    <3>1. i \in 1..m /\ c[i] = a[i]
      BY <1>1, <2>1
    <3>. QED BY <1>1, <3>1 DEF ToSet
  <2>2. CASE ~(i <= m)
    <3>1. i - m \in 1..n /\ c[i] = b[i - m]
      BY <1>1, <2>2
    <3>. QED BY <1>1, <3>1 DEF ToSet
  <2>. QED BY <2>1, <2>2
<1>4. ASSUME NEW i \in 1..m PROVE a[i] \in ToSet(c)
  <2>1. i \in 1..(m + n) /\ c[i] = a[i]
    BY <1>1
  <2>. QED BY <1>2, <2>1 DEF ToSet
<1>5. ASSUME NEW i \in 1..n PROVE b[i] \in ToSet(c)
  <2>1. m + i \in 1..(m + n) /\ c[m + i] = b[i]
    BY <1>1
  <2>. QED BY <1>2, <2>1 DEF ToSet
<1>6. ToSet(c) = ToSet(a) \cup ToSet(b)
  BY <1>1, <1>2, <1>3, <1>4, <1>5 DEF ToSet
<1>. QED BY <1>6 DEF c

LEMMA CatSeq ==
  ASSUME NEW S, NEW a \in Seq(S), NEW b \in Seq(S)
  PROVE  Cat(a, b) \in Seq(S) /\ ToSet(Cat(a, b)) = ToSet(a) \cup ToSet(b)
BY ConcatProperties, ToSetConcat DEF Cat

\* A sequence increases exactly if its two parts do, and the first is below the second.
LEMMA IncreasingConcat ==
  ASSUME NEW a \in Seq(Nat), NEW b \in Seq(Nat)
  PROVE  Increasing(a \o b) <=> /\ Increasing(a) /\ Increasing(b)
                                /\ \A x \in ToSet(a), y \in ToSet(b) : x < y
<1>. DEFINE m == Len(a)
            n == Len(b)
            c == a \o b
<1>1. /\ m \in Nat /\ n \in Nat /\ DOMAIN a = 1..m /\ DOMAIN b = 1..n
      /\ c \in Seq(Nat) /\ Len(c) = m + n
      /\ \A i \in 1..(m + n) : c[i] = IF i <= m THEN a[i] ELSE b[i - m]
  BY LenProperties, ConcatProperties
<1>2. DOMAIN c = 1..(m + n)
  BY <1>1, LenProperties
<1>. HIDE DEF c, m, n
<1>3. \A i \in 1..m : i \in 1..(m + n) /\ c[i] = a[i]
  BY <1>1
<1>4. \A i \in 1..n : m + i \in 1..(m + n) /\ c[m + i] = b[i]
  BY <1>1
<1>5. ASSUME Increasing(c)
      PROVE  /\ Increasing(a) /\ Increasing(b)
             /\ \A x \in ToSet(a), y \in ToSet(b) : x < y
  <2>1. ASSUME NEW i \in 1..m, NEW j \in 1..m, i < j PROVE a[i] < a[j]
    BY <1>2, <1>3, <1>5, <2>1 DEF Increasing
  <2>2. ASSUME NEW i \in 1..n, NEW j \in 1..n, i < j PROVE b[i] < b[j]
    <3>1. m + i < m + j
      BY <1>1, <2>2
    <3>. QED BY <1>2, <1>4, <1>5, <3>1 DEF Increasing
  <2>3. ASSUME NEW i \in 1..m, NEW j \in 1..n PROVE a[i] < b[j]
    <3>1. i < m + j
      BY <1>1
    <3>. QED BY <1>2, <1>3, <1>4, <1>5, <3>1 DEF Increasing
  <2>. QED BY <1>1, <2>1, <2>2, <2>3 DEF Increasing, ToSet
<1>6. ASSUME Increasing(a), Increasing(b), \A x \in ToSet(a), y \in ToSet(b) : x < y
      PROVE  Increasing(c)
  <2>. SUFFICES ASSUME NEW i \in 1..(m + n), NEW j \in 1..(m + n), i < j PROVE c[i] < c[j]
    BY <1>2 DEF Increasing
  <2>1. CASE j <= m
    <3>1. i \in 1..m /\ j \in 1..m
      BY <1>1, <2>1
    <3>. QED BY <1>1, <1>3, <1>6, <3>1 DEF Increasing
  <2>2. CASE i <= m /\ ~(j <= m)
    <3>1. i \in 1..m /\ j - m \in 1..n /\ c[i] = a[i] /\ c[j] = b[j - m]
      BY <1>1, <2>2
    <3>2. a[i] \in ToSet(a) /\ b[j - m] \in ToSet(b)
      BY <1>1, <3>1 DEF ToSet
    <3>. QED BY <1>6, <3>1, <3>2
  <2>3. CASE ~(i <= m)
    <3>1. i - m \in 1..n /\ j - m \in 1..n /\ c[i] = b[i - m] /\ c[j] = b[j - m] /\ i - m < j - m
      BY <1>1, <2>3
    <3>. QED BY <1>1, <1>6, <3>1 DEF Increasing
  <2>. QED BY <2>1, <2>2, <2>3
<1>7. Increasing(c) <=> /\ Increasing(a) /\ Increasing(b)
                        /\ \A x \in ToSet(a), y \in ToSet(b) : x < y
  BY <1>5, <1>6
<1>. QED BY <1>7 DEF c

LEMMA CatIncreasing ==
  ASSUME NEW a \in Seq(Nat), NEW b \in Seq(Nat)
  PROVE  Increasing(Cat(a, b)) <=> /\ Increasing(a) /\ Increasing(b)
                                   /\ \A x \in ToSet(a), y \in ToSet(b) : x < y
BY IncreasingConcat DEF Cat

\* One more line.
LEMMA CatMore ==
  ASSUME NEW s \in Seq(Nat), Increasing(s), NEW k \in Nat, \A x \in ToSet(s) : x < k
  PROVE  Increasing(Cat(s, <<k>>)) /\ ToSet(Cat(s, <<k>>)) = ToSet(s) \cup {k}
<1>. PICK t : t = <<k>>
  OBVIOUS
<1>1. t \in Seq(Nat) /\ ToSet(t) = {k} /\ Increasing(t)
  BY DEF ToSet, Increasing
<1>2. ToSet(Cat(s, t)) = ToSet(s) \cup {k}
  <2>1. \A a, b \in Seq(Nat) : ToSet(Cat(a, b)) = ToSet(a) \cup ToSet(b)
    BY CatSeq
  <2>2. ToSet(Cat(s, t)) = ToSet(s) \cup ToSet(t)
    BY <1>1, <2>1
  <2>. QED BY <1>1, <2>2
<1>3. \A x \in ToSet(s), y \in ToSet(t) : x < y
  BY <1>1
<1>4. Increasing(Cat(s, t))
  BY <1>1, <1>3, CatIncreasing
<1>. QED BY <1>2, <1>4

\* The lines of y are dropped from between x and z.
LEMMA CatMiddle ==
  ASSUME NEW x \in Seq(Nat), NEW y \in Seq(Nat), NEW z \in Seq(Nat), Increasing(Cat(x, Cat(y, z)))
  PROVE  Increasing(Cat(x, z)) /\ ToSet(Cat(x, z)) = ToSet(Cat(x, Cat(y, z))) \ ToSet(y)
<1>1. /\ \A a, b \in Seq(Nat) : Cat(a, b) \in Seq(Nat)
      /\ \A a, b \in Seq(Nat) : ToSet(Cat(a, b)) = ToSet(a) \cup ToSet(b)
  BY CatSeq
<1>2. /\ Increasing(x) /\ Increasing(Cat(y, z))
      /\ \A u \in ToSet(x), v \in ToSet(Cat(y, z)) : u < v
  BY <1>1, CatIncreasing
<1>3. Increasing(y) /\ Increasing(z) /\ \A u \in ToSet(y), v \in ToSet(z) : u < v
  BY <1>2, CatIncreasing
<1>4. ToSet(Cat(y, z)) = ToSet(y) \cup ToSet(z) /\ ToSet(Cat(x, z)) = ToSet(x) \cup ToSet(z)
  BY <1>1
<1>5. ToSet(Cat(x, Cat(y, z))) = ToSet(x) \cup (ToSet(y) \cup ToSet(z))
  <2>. PICK v : v = Cat(y, z)
    OBVIOUS
  <2>1. v \in Seq(Nat) /\ ToSet(v) = ToSet(y) \cup ToSet(z)
    BY <1>1
  <2>2. ToSet(Cat(x, v)) = ToSet(x) \cup ToSet(v)
    BY <1>1, <2>1
  <2>. QED BY <2>1, <2>2
<1>6. Increasing(Cat(x, z))
  BY <1>2, <1>3, <1>4, CatIncreasing
<1>7. ToSet(x) \subseteq Nat /\ ToSet(y) \subseteq Nat /\ ToSet(z) \subseteq Nat
  BY LenProperties DEF ToSet
<1>8. ToSet(x) \cap ToSet(y) = {} /\ ToSet(y) \cap ToSet(z) = {}
  <2>1. \A u \in ToSet(x) : u \notin ToSet(y)
    BY <1>2, <1>4, <1>7
  <2>2. \A u \in ToSet(y) : u \notin ToSet(z)
    BY <1>3, <1>7
  <2>. QED BY <2>1, <2>2
<1>. QED BY <1>4, <1>5, <1>6, <1>8

LEMMA Regroup ==
  ASSUME NEW S, NEW w \in Seq(S), NEW f \in Seq(S), NEW g \in Seq(S),
         NEW h \in Seq(S), NEW c \in Seq(S)
  PROVE  /\ Cat(Cat(w, Cat(Cat(f, g), h)), c) = Cat(Cat(w, f), Cat(g, Cat(h, c)))
         /\ Cat(Cat(Cat(w, f), h), c) = Cat(Cat(w, f), Cat(h, c))
<1>1. \A x, y \in Seq(S) : Cat(x, y) \in Seq(S)
  BY CatAssoc
<1>2. \A x, y, z \in Seq(S) : Cat(Cat(x, y), z) = Cat(x, Cat(y, z))
  BY CatAssoc
<1>3. Cat(w, f) \in Seq(S) /\ Cat(g, h) \in Seq(S)
  BY <1>1
<1>. QED BY <1>2, <1>3

LEMMA LinesFull ==
  ASSUME NEW S, NEW w \in Seq(S), NEW b \in Seq(Seq(S)), NEW c \in Seq(S), NEW d \in Seq(S)
  PROVE  /\ Lines(w, b, c) \in Seq(S)
         /\ Lines(w, Append(b, c), d) = Cat(Lines(w, b, c), d)
         /\ Lines(w, b, Cat(c, d)) = Cat(Lines(w, b, c), d)
<1>. DEFINE f == FlattenSeq(b)
<1>1. f \in Seq(S) /\ FlattenSeq(Append(b, c)) = Cat(f, c)
  BY FlattenType, FlattenAppend DEF Cat
<1>2. Lines(w, b, c) = Cat(Cat(w, f), c) /\ Lines(w, b, Cat(c, d)) = Cat(Cat(w, f), Cat(c, d))
  BY DEF Lines, Cat
<1>3. Lines(w, Append(b, c), d) = Cat(Cat(w, FlattenSeq(Append(b, c))), d)
  BY DEF Lines, Cat
<1>. HIDE DEF f
<1>4. \A x, y \in Seq(S) : Cat(x, y) \in Seq(S)
  BY CatAssoc
<1>5. \A x, y, z \in Seq(S) : Cat(Cat(x, y), z) = Cat(x, Cat(y, z))
  BY CatAssoc
<1>6. Cat(w, f) \in Seq(S)
  BY <1>1, <1>4
<1>. QED BY <1>1, <1>2, <1>3, <1>4, <1>5, <1>6

\* write keeps the order and loses what it drops, no more.
LEMMA LinesSplit ==
  ASSUME NEW S, NEW w \in Seq(S), NEW p \in Seq(Seq(S)), NEW q \in Seq(Seq(S)),
         NEW b \in Seq(Seq(S)), NEW c \in Seq(S), NEW x, NEW y, NEW z,
         x = Cat(w, FlattenSeq(p)), y = FlattenSeq(q), z = Cat(FlattenSeq(b), c)
  PROVE  /\ x \in Seq(S) /\ y \in Seq(S) /\ z \in Seq(S)
         /\ Lines(w, Cat(Cat(p, q), b), c) = Cat(x, Cat(y, z))
         /\ Lines(x, b, c) = Cat(x, z)
<1>. PICK f, g, h : f = FlattenSeq(p) /\ g = FlattenSeq(q) /\ h = FlattenSeq(b)
  OBVIOUS
<1>1. f \in Seq(S) /\ g \in Seq(S) /\ h \in Seq(S)
  BY FlattenType
<1>2. Cat(p, q) \in Seq(Seq(S)) /\ FlattenSeq(Cat(p, q)) = Cat(f, g)
  BY CatSeq, FlattenConcat DEF Cat
<1>3. FlattenSeq(Cat(Cat(p, q), b)) = Cat(Cat(f, g), h)
  <2>1. FlattenSeq(Cat(Cat(p, q), b)) = Cat(FlattenSeq(Cat(p, q)), h)
    <3>. PICK r : r = Cat(p, q)
      OBVIOUS
    <3>1. FlattenSeq(r \o b) = FlattenSeq(r) \o FlattenSeq(b)
      BY <1>2, FlattenConcat
    <3>. QED BY <3>1 DEF Cat
  <2>. QED BY <1>2, <2>1
<1>4. /\ Lines(w, Cat(Cat(p, q), b), c) = Cat(Cat(w, FlattenSeq(Cat(Cat(p, q), b))), c)
      /\ Lines(x, b, c) = Cat(Cat(x, h), c)
  BY Zenon DEF Lines, Cat
<1>5. /\ Cat(Cat(w, Cat(Cat(f, g), h)), c) = Cat(Cat(w, f), Cat(g, Cat(h, c)))
      /\ Cat(Cat(Cat(w, f), h), c) = Cat(Cat(w, f), Cat(h, c))
  <2>1. \A F, G, H \in Seq(S) :
           /\ Cat(Cat(w, Cat(Cat(F, G), H)), c) = Cat(Cat(w, F), Cat(G, Cat(H, c)))
           /\ Cat(Cat(Cat(w, F), H), c) = Cat(Cat(w, F), Cat(H, c))
    BY Regroup
  <2>. QED BY <1>1, <2>1
<1>6. Cat(w, f) \in Seq(S) /\ Cat(h, c) \in Seq(S)
  BY <1>1, CatAssoc
<1>. QED BY <1>1, <1>3, <1>4, <1>5, <1>6

\* What is in order is the same sequence, or the same with one more line.
LEMMA OrderKept ==
  ASSUME TypeOK, DroppedInv, InOrderOnce,
         Lines(written, buffersToWrite \o buffers_, currentBuffer_)'
            = Lines(written, buffersToWrite \o buffers_, currentBuffer_),
         UNCHANGED <<appended, dropped>>
  PROVE  DroppedInv' /\ InOrderOnce'
BY DEF DroppedInv, InOrderOnce

LEMMA OrderAppends ==
  ASSUME IInv, append
  PROVE  DroppedInv' /\ InOrderOnce'
<1>. PICK N, w, t, b, c, k, d, L :
        /\ N = 1..MaxLines /\ w = written /\ t = buffersToWrite /\ b = buffers_
        /\ c = currentBuffer_ /\ k = appended + 1 /\ d = ToSet(dropped)
        /\ L = Lines(w, Cat(t, b), c)
  OBVIOUS
<1>1. /\ w \in Seq(N) /\ t \in Seq(Seq(N)) /\ b \in Seq(Seq(N)) /\ c \in Seq(N)
      /\ appended \in Nat /\ k \in N /\ N \subseteq Nat
  BY LinesAssumption DEF IInv, TypeOK, Buffers, append
<1>2. /\ Increasing(L) /\ ToSet(L) = (1..appended) \ d /\ d \subseteq 1..appended
      /\ written' = w /\ buffersToWrite' = t /\ dropped' = dropped /\ appended' = k
  BY DEF IInv, InOrderOnce, DroppedInv, append, Cat
<1>3. Cat(t, b) \in Seq(Seq(N)) /\ <<k>> \in Seq(N)
  BY <1>1, CatSeq
<1>4. L \in Seq(Nat)
  BY <1>1, <1>3, LinesFull, SeqMonotonic
<1>5. Lines(written, buffersToWrite \o buffers_, currentBuffer_)' = Cat(L, <<k>>)
  <2>0. /\ Lines(w, Append(Cat(t, b), c), <<k>>) = Cat(L, <<k>>)
        /\ Lines(w, Cat(t, b), Cat(c, <<k>>)) = Cat(L, <<k>>)
    <3>. PICK B, e : B = Cat(t, b) /\ e = <<k>>
      OBVIOUS
    <3>1. w \in Seq(N) /\ B \in Seq(Seq(N)) /\ c \in Seq(N) /\ e \in Seq(N)
      BY <1>1, <1>3
    <3>2. /\ Lines(w, Append(B, c), e) = Cat(Lines(w, B, c), e)
          /\ Lines(w, B, Cat(c, e)) = Cat(Lines(w, B, c), e)
      BY ONLY <3>1, LinesFull
    <3>. QED BY <3>2
  <2>1. CASE Fits
    <3>1. currentBuffer_' = Cat(c, <<k>>) /\ buffers_' = b
      BY <1>1, <2>1, AppendIsConcat DEF append, Cat
    <3>2. Lines(w, Cat(t, b), Cat(c, <<k>>)) = Cat(L, <<k>>)
      BY <2>0
    <3>3. Cat(t, b) = buffersToWrite' \o buffers_'
      BY <1>2, <3>1 DEF Cat
    <3>. QED BY <1>2, <3>1, <3>2, <3>3
  <2>2. CASE ~Fits
    <3>1. currentBuffer_' = <<k>> /\ buffers_' = Append(b, c)
      BY <2>2 DEF append, placed
    <3>2. buffersToWrite' \o buffers_' = Append(Cat(t, b), c)
      <4>1. t \o Append(b, c) = Append(t \o b, c)
        <5>. PICK Q : Q = Seq(N)
          OBVIOUS
        <5>1. \A u, v \in Seq(Q) : \A e \in Q : u \o Append(v, e) = Append(u \o v, e)
          BY ONLY ConcatAppend
        <5>2. t \in Seq(Q) /\ b \in Seq(Q) /\ c \in Q
          BY <1>1
        <5>. QED BY ONLY <5>1, <5>2
      <4>. QED BY <1>2, <3>1, <4>1, Zenon DEF Cat
    <3>3. Lines(w, Append(Cat(t, b), c), <<k>>) = Cat(L, <<k>>)
      BY <2>0
    <3>. QED BY <1>2, <3>1, <3>2, <3>3
  <2>. QED BY <2>1, <2>2
<1>6. Increasing(Cat(L, <<k>>)) /\ ToSet(Cat(L, <<k>>)) = ToSet(L) \cup {k}
  <2>1. \A x \in ToSet(L) : x < k
    BY <1>1, <1>2
  <2>. QED BY <1>1, <1>2, <1>4, <2>1, CatMore
<1>7. 1..k = (1..appended) \cup {k} /\ k \notin d
  BY <1>1, <1>2
<1>8. DroppedInv'
  BY <1>2, <1>7 DEF DroppedInv
<1>9. ToSet(Cat(L, <<k>>)) = (1..k) \ d
  BY <1>2, <1>6, <1>7
<1>10. ToSet(dropped') = d
  BY <1>2
<1>. QED BY <1>2, <1>5, <1>6, <1>8, <1>9, <1>10 DEF InOrderOnce

LEMMA OrderTakes ==
  ASSUME IInv, takeBuffers
  PROVE  DroppedInv' /\ InOrderOnce'
<1>. PICK N, w, b, c :
        N = 1..MaxLines /\ w = written /\ b = buffers_ /\ c = currentBuffer_
  OBVIOUS
<1>1. /\ w \in Seq(N) /\ b \in Seq(Seq(N)) /\ c \in Seq(N) /\ <<>> \in Seq(N)
      /\ buffersToWrite = <<>>
  BY DEF IInv, TypeOK, Buffers, RoundInv, takeBuffers
<1>2. /\ written' = w /\ buffersToWrite' = Append(b, c) /\ buffers_' = <<>>
      /\ currentBuffer_' = <<>> /\ UNCHANGED <<dropped, appended>>
  BY DEF takeBuffers
<1>3. Append(b, c) \in Seq(Seq(N))
  BY <1>1, AppendProperties
<1>4. <<>> \o b = b /\ Append(b, c) \o <<>> = Append(b, c)
  BY <1>1, <1>3, ConcatEmptySeq
<1>5. Lines(w, Append(b, c), <<>>) = Cat(Lines(w, b, c), <<>>) /\ Lines(w, b, c) \in Seq(N)
  <2>. PICK e : e = <<>>
    OBVIOUS
  <2>1. w \in Seq(N) /\ b \in Seq(Seq(N)) /\ c \in Seq(N) /\ e \in Seq(N)
    BY <1>1
  <2>2. Lines(w, Append(b, c), e) = Cat(Lines(w, b, c), e) /\ Lines(w, b, c) \in Seq(N)
    BY ONLY <2>1, LinesFull
  <2>. QED BY <2>2
<1>6. Cat(Lines(w, b, c), <<>>) = Lines(w, b, c)
  BY <1>5, ConcatEmptySeq DEF Cat
<1>7. Lines(written, buffersToWrite \o buffers_, currentBuffer_) = Lines(w, b, c)
  BY <1>1, <1>4
<1>8. Lines(written, buffersToWrite \o buffers_, currentBuffer_)' = Lines(w, b, c)
  BY <1>2, <1>4, <1>5, <1>6
<1>. QED BY <1>2, <1>7, <1>8, OrderKept DEF IInv

LEMMA OrderWrites ==
  ASSUME IInv, write
  PROVE  DroppedInv' /\ InOrderOnce'
<1>. PICK N, w, p, q, b, c, d, x, y, z :
        /\ N = 1..MaxLines /\ w = written /\ p = toFile /\ q = toDrop
        /\ b = buffers_ /\ c = currentBuffer_ /\ d = dropped
        /\ x = Cat(w, FlattenSeq(p)) /\ y = FlattenSeq(q) /\ z = Cat(FlattenSeq(b), c)
  OBVIOUS
<1>1. /\ w \in Seq(N) /\ b \in Seq(Seq(N)) /\ c \in Seq(N) /\ d \in Seq(N)
      /\ appended \in Nat /\ N \subseteq Nat
  BY LinesAssumption DEF IInv, TypeOK, Buffers
<1>2. p \in Seq(Seq(N)) /\ q \in Seq(Seq(N)) /\ buffersToWrite = Cat(p, q)
  BY Parts DEF IInv, TypeOK, Cat
<1>3. /\ written' = x /\ dropped' = Cat(d, y) /\ buffersToWrite' = <<>> /\ appended' = appended
      /\ buffers_' = b /\ currentBuffer_' = c
  BY DEF write, droppedThen, Cat
<1>4. /\ x \in Seq(N) /\ y \in Seq(N) /\ z \in Seq(N)
      /\ Lines(w, Cat(Cat(p, q), b), c) = Cat(x, Cat(y, z)) /\ Lines(x, b, c) = Cat(x, z)
  BY <1>1, <1>2, LinesSplit
<1>5. /\ Increasing(Cat(x, Cat(y, z))) /\ ToSet(Cat(x, Cat(y, z))) = (1..appended) \ ToSet(d)
      /\ ToSet(d) \subseteq 1..appended
  <2>1. buffersToWrite \o buffers_ = Cat(Cat(p, q), b)
    BY <1>2 DEF Cat
  <2>. QED BY <1>4, <2>1 DEF IInv, InOrderOnce, DroppedInv
<1>6. x \in Seq(Nat) /\ y \in Seq(Nat) /\ z \in Seq(Nat)
  BY <1>1, <1>4, SeqMonotonic
<1>7. Increasing(Cat(x, z)) /\ ToSet(Cat(x, z)) = ToSet(Cat(x, Cat(y, z))) \ ToSet(y)
  BY <1>5, <1>6, CatMiddle
<1>8. ToSet(Cat(d, y)) = ToSet(d) \cup ToSet(y)
  BY <1>1, <1>4, CatSeq
<1>9. ToSet(y) \subseteq ToSet(Cat(x, Cat(y, z)))
  <2>1. \A e, f \in Seq(Nat) : Cat(e, f) \in Seq(Nat) /\ ToSet(Cat(e, f)) = ToSet(e) \cup ToSet(f)
    BY CatSeq
  <2>2. Cat(y, z) \in Seq(Nat) /\ ToSet(y) \subseteq ToSet(Cat(y, z))
    BY <1>6, <2>1
  <2>. QED BY <1>6, <2>1, <2>2
<1>10. Lines(written, buffersToWrite \o buffers_, currentBuffer_)' = Cat(x, z)
  <2>1. <<>> \o b = b
    BY <1>1, ConcatEmptySeq
  <2>. QED BY <1>3, <1>4, <2>1
<1>11. ToSet(dropped)' = ToSet(d) \cup ToSet(y)
  BY <1>3, <1>8
<1>12. DroppedInv'
  BY <1>3, <1>5, <1>9, <1>11 DEF DroppedInv
<1>13. ToSet(Cat(x, z)) = (1..appended) \ (ToSet(d) \cup ToSet(y))
  BY <1>5, <1>7
<1>. QED BY <1>3, <1>7, <1>10, <1>11, <1>12, <1>13 DEF InOrderOnce

LEMMA OrderInductive ==
  ASSUME IInv, [Next]_vars
  PROVE  DroppedInv' /\ InOrderOnce'
<1>1. CASE append
  BY <1>1, OrderAppends
<1>2. CASE takeBuffers
  BY <1>2, OrderTakes
<1>3. CASE write
  BY <1>3, OrderWrites
<1>4. CASE /\ UNCHANGED <<written, buffersToWrite, buffers_, currentBuffer_, appended, dropped>>
  BY <1>4, OrderKept DEF IInv
<1>5. \/ append \/ takeBuffers \/ write
      \/ UNCHANGED <<written, buffersToWrite, buffers_, currentBuffer_, appended, dropped>>
  BY DEF Next, BackEndRuns, Quiet, start, threadBegins, stop, stopNotifies, stopJoins,
     whileRunning, wait, waitForSeconds, vars
<1>. QED BY <1>1, <1>2, <1>3, <1>4, <1>5

LEMMA Inductive == Spec => []IInv
<1>1. Init => IInv
  BY TypeInit
<1>2. IInv /\ [Next]_vars => IInv'
  BY TypeInductive, ReserveInductive, StartInductive, RoundInductive,
     OrderInductive DEF IInv
<1>. QED BY <1>1, <1>2, PTL DEF Spec

(***************************************************************************)
(* AlwaysRecycled: threadFunc never fails one of its assertions about the  *)
(* reserve buffers, whatever the front-end threads do and whether or not a *)
(* backlog is dropped.                                                     *)
(***************************************************************************)
THEOREM AlwaysRecycled == Spec => [](TypeOK /\ EnoughToRecycle)
<1>1. IInv => TypeOK /\ EnoughToRecycle
  <2>. SUFFICES ASSUME IInv PROVE TypeOK /\ EnoughToRecycle
    OBVIOUS
  <2>1. at # "write" => newBuffer1 /\ newBuffer2 /\ buffersToWrite = <<>>
    BY DEF IInv, RoundInv
  <2>2. ASSUME at = "write"
        PROVE  recyclable >= (IF newBuffer1 THEN 0 ELSE 1) + (IF newBuffer2 THEN 0 ELSE 1)
    <3>1. buffersToWrite \in Seq(Seq(1..MaxLines)) /\ buffersToWrite # <<>>
      BY <2>2 DEF IInv, TypeOK, Buffers, RoundInv
    <3>2. Len(buffersToWrite) \in Nat /\ Len(buffersToWrite) >= 1
      BY <3>1, EmptySeq, LenProperties
    <3>3. ~newBuffer2 => Len(buffersToWrite) >= 2
      BY <2>2 DEF IInv, RoundInv
    <3>4. recyclable \in Nat /\ recyclable >= 1 /\ (Len(buffersToWrite) >= 2 => recyclable >= 2)
      BY <3>1, <3>2, RecyclableLen DEF Buffers
    <3>. QED BY <3>3, <3>4
  <2>. QED BY <2>1, <2>2 DEF IInv, EnoughToRecycle
<1>. QED BY <1>1, Inductive, PTL

(***************************************************************************)
(* No line is written past the end of currentBuffer_, whichever thread     *)
(* appends and whenever the back end takes the buffer away.                *)
(***************************************************************************)
THEOREM Typed == Spec => []TypeOK
BY AlwaysRecycled, PTL

(***************************************************************************)
(* OrderAndOnce: the file never holds a line twice or out of the order of  *)
(* the appends, and together with the buffers on their way it holds every  *)
(* line but the dropped ones, however full buffers, timeouts of the wait   *)
(* and backlogs interleave with the appends.                               *)
(***************************************************************************)
THEOREM OrderAndOnce == Spec => []InOrderOnce
<1>1. IInv => InOrderOnce
  BY DEF IInv
<1>. QED BY <1>1, Inductive, PTL
=============================================================================
