-------------------------- MODULE TcpClientProofs ---------------------------
(***************************************************************************)
(* Proofs about TcpClient and the two pollers, for every program and every *)
(* set of descriptors.                                                     *)
(***************************************************************************)
EXTENDS TcpClient, SequenceTheorems, WellFoundedInduction, TLAPS

-----------------------------------------------------------------------------
(***************************************************************************)
(* The pollers.  Both are shown to be one map from descriptors to channels *)
(* with their events: W is V with e for fd, and V without fd.              *)
(***************************************************************************)
Updated(V, W, fd, e) == /\ DOMAIN W = DOMAIN V \cup {fd} /\ W[fd] = e
                        /\ \A d \in DOMAIN V \ {fd} : W[d] = V[d]

Removed(V, W, fd) == /\ DOMAIN W = DOMAIN V \ {fd}
                     /\ \A d \in DOMAIN V \ {fd} : W[d] = V[d]

Events == SUBSET {"R", "W"}
PollFd == [fd : Int, events : Events]

\* The number under which an entry of the array stands for fd.
Number(fd, events) == IF events = {} THEN -fd - 1 ELSE fd

\* The array F of n entries, and the map C.
Arranged(F, n, C) ==
  /\ n \in Nat /\ F \in [1..n -> PollFd]
  /\ DOMAIN C \subseteq Nat
  /\ C = [fd \in DOMAIN C |-> [channel |-> C[fd].channel, index |-> C[fd].index]]
  /\ \A fd \in DOMAIN C : C[fd].index \in 1..n
  /\ \A fd \in DOMAIN C : F[C[fd].index].fd = Number(fd, F[C[fd].index].events)
  /\ \A i \in 1..n : \E fd \in DOMAIN C : C[fd].index = i

LEMMA SoundArranged ==
  ASSUME NEW p
  PROVE  PP!Sound(p) <=> /\ p = [pollfds_ |-> p.pollfds_, channels_ |-> p.channels_]
                         /\ p.pollfds_ \in Seq(PollFd)
                         /\ Arranged(p.pollfds_, Len(p.pollfds_), p.channels_)
<1>1. p.pollfds_ \in Seq(PollFd) =>
         Len(p.pollfds_) \in Nat /\ p.pollfds_ \in [1..Len(p.pollfds_) -> PollFd]
  BY LenProperties
<1>. QED
  BY <1>1 DEF PP!Sound, PP!index, PP!ignored, Arranged, Number, PollFd, Events

\* An entry belongs to one descriptor.
LEMMA OneOfIndex ==
  ASSUME NEW F, NEW n, NEW C, Arranged(F, n, C), NEW c \in DOMAIN C, NEW d \in DOMAIN C,
         C[c].index = C[d].index
  PROVE  c = d
<1>1. c \in Nat /\ d \in Nat
  BY DEF Arranged
<1>2. Number(c, F[C[c].index].events) = Number(d, F[C[c].index].events)
  BY DEF Arranged
<1>. QED BY <1>1, <1>2 DEF Number

LEMMA AppendArranged ==
  ASSUME NEW F, NEW n, NEW C, Arranged(F, n, C), NEW fd \in Nat, fd \notin DOMAIN C,
         NEW ch, NEW ev \in Events, ev # {},
         NEW G, G \in [1..(n + 1) -> PollFd], G[n + 1] = [fd |-> fd, events |-> ev],
         \A i \in 1..n : G[i] = F[i]
  PROVE  Arranged(G, n + 1, Put(C, fd, [channel |-> ch, index |-> n + 1]))
<1>. DEFINE D == Put(C, fd, [channel |-> ch, index |-> n + 1])
<1>0. n \in Nat
  BY DEF Arranged
<1>1. DOMAIN D = DOMAIN C \cup {fd} /\ D[fd] = [channel |-> ch, index |-> n + 1]
  BY DEF Put
<1>2. \A d \in DOMAIN C : D[d] = C[d] /\ C[d] = [channel |-> C[d].channel, index |-> C[d].index]
  BY DEF Put, Arranged
<1>3. DOMAIN D \subseteq Nat
  BY <1>1 DEF Arranged
<1>4. D = [d \in DOMAIN D |-> [channel |-> D[d].channel, index |-> D[d].index]]
  BY <1>1, <1>2 DEF Put
<1>5. \A d \in DOMAIN D : D[d].index \in 1..(n + 1)
  BY <1>0, <1>1, <1>2 DEF Arranged
<1>6. \A d \in DOMAIN C : C[d].index \in 1..n /\ G[D[d].index] = F[C[d].index]
  BY <1>2 DEF Arranged
<1>7. \A d \in DOMAIN D : G[D[d].index].fd = Number(d, G[D[d].index].events)
  <2>1. G[D[fd].index].fd = Number(fd, G[D[fd].index].events)
    BY <1>1 DEF Number
  <2>2. \A d \in DOMAIN C : G[D[d].index].fd = Number(d, G[D[d].index].events)
    BY <1>2, <1>6 DEF Arranged
  <2>. QED BY <2>1, <2>2, <1>1
<1>8. ASSUME NEW i \in 1..(n + 1)
      PROVE  \E d \in DOMAIN D : D[d].index = i
  <2>1. CASE i = n + 1
    BY <2>1, <1>1
  <2>2. CASE i \in 1..n
    BY <2>2, <1>1, <1>2 DEF Arranged
  <2>. QED BY <2>1, <2>2, <1>0
<1>9. Arranged(G, n + 1, D)
  <2>. HIDE DEF D
  <2>. QED BY <1>0, <1>3, <1>4, <1>5, <1>7, <1>8 DEF Arranged
<1>. QED BY <1>9

LEMMA PollAdds ==
  ASSUME NEW p, PP!Sound(p), NEW fd \in Nat, fd \notin DOMAIN PP!Registered(p),
         NEW ch, NEW ev \in Events, ev # {}
  PROVE  LET q == PP!updateChannel(p, ch, fd, ev)
         IN  /\ PP!Sound(q)
             /\ PP!updateLegal(p, ch, fd, ev)
             /\ Updated(PP!Registered(p), PP!Registered(q), fd, Entry(ch, ev))
<1>. DEFINE F == p.pollfds_
            n == Len(F)
            C == p.channels_
            e == [fd |-> fd, events |-> ev]
            q == PP!updateChannel(p, ch, fd, ev)
            c == [channel |-> ch, index |-> n + 1]
<1>1. F \in Seq(PollFd) /\ Arranged(F, n, C) /\ n \in Nat
  BY SoundArranged, LenProperties
<1>2. fd \notin DOMAIN C
  BY DEF PP!Registered
<1>3. q = [pollfds_ |-> Append(F, e), channels_ |-> Put(C, fd, c)]
  BY <1>2 DEF PP!updateChannel, PP!Has, PP!Put, Put
<1>4. e \in PollFd
  BY DEF PollFd
<1>5. /\ Append(F, e) \in Seq(PollFd) /\ Len(Append(F, e)) = n + 1
      /\ Append(F, e)[n + 1] = e /\ \A i \in 1..n : Append(F, e)[i] = F[i]
  BY <1>1, <1>4, AppendProperties
<1>6. Append(F, e) \in [1..(n + 1) -> PollFd]
  BY <1>5, LenProperties
<1>7. Arranged(Append(F, e), n + 1, Put(C, fd, c))
  <2>. HIDE DEF F, C, n
  <2>. QED BY <1>1, <1>2, <1>5, <1>6, AppendArranged
<1>8. PP!Sound(q)
  <2>1. q.pollfds_ = Append(F, e) /\ q.channels_ = Put(C, fd, c)
    BY <1>3
  <2>2. q = [pollfds_ |-> q.pollfds_, channels_ |-> q.channels_]
    BY <1>3, <2>1
  <2>. HIDE DEF q
  <2>. QED BY <2>1, <2>2, <1>5, <1>7, SoundArranged
<1>9. PP!updateLegal(p, ch, fd, ev)
  BY <1>2 DEF PP!updateLegal
<1>10. Updated(PP!Registered(p), PP!Registered(q), fd, Entry(ch, ev))
  <2>. DEFINE D == Put(C, fd, c)
  <2>1. DOMAIN D = DOMAIN C \cup {fd} /\ D[fd] = c /\ \A d \in DOMAIN C : D[d] = C[d]
    BY <1>2 DEF Put
  <2>2. \A d \in DOMAIN C : C[d].index \in 1..n
    BY <1>1 DEF Arranged
  <2>3. q.pollfds_ = Append(F, e) /\ q.channels_ = D
    BY <1>3
  <2>4. PP!Registered(q)[fd] = Entry(ch, ev)
    <3>. HIDE DEF q, D
    <3>. QED BY <2>1, <2>3, <1>5 DEF PP!Registered, PP!index, Entry
  <2>5. \A d \in DOMAIN C : PP!Registered(q)[d] = PP!Registered(p)[d]
    <3>. HIDE DEF q, D
    <3>. QED BY <2>1, <2>2, <2>3, <1>5 DEF PP!Registered, PP!index
  <2>6. DOMAIN PP!Registered(q) = DOMAIN PP!Registered(p) \cup {fd}
    BY <2>1, <2>3 DEF PP!Registered
  <2>7. DOMAIN PP!Registered(p) = DOMAIN C
    BY DEF PP!Registered
  <2>. QED BY <2>4, <2>5, <2>6, <2>7 DEF Updated
<1>. QED BY <1>8, <1>9, <1>10

LEMMA PollDisables ==
  ASSUME NEW p, PP!Sound(p), NEW fd \in DOMAIN PP!Registered(p),
         NEW ch, PP!Registered(p)[fd].channel = ch, PP!Registered(p)[fd].events # {}
  PROVE  LET q == PP!updateChannel(p, ch, fd, {})
         IN  /\ PP!Sound(q)
             /\ PP!updateLegal(p, ch, fd, {})
             /\ Updated(PP!Registered(p), PP!Registered(q), fd, Entry(ch, {}))
<1>. DEFINE F == p.pollfds_
            n == Len(F)
            C == p.channels_
            i == C[fd].index
            e == [fd |-> -fd - 1, events |-> {}]
            G == [F EXCEPT ![i] = e]
            q == PP!updateChannel(p, ch, fd, {})
<1>1. /\ F \in Seq(PollFd) /\ Arranged(F, n, C) /\ n \in Nat
      /\ p = [pollfds_ |-> F, channels_ |-> C]
  BY SoundArranged, LenProperties
<1>2. fd \in DOMAIN C /\ C[fd].channel = ch
  BY DEF PP!Registered
<1>3. i \in 1..n /\ fd \in Nat /\ F \in [1..n -> PollFd]
  BY <1>1, <1>2 DEF Arranged
<1>4. q = [pollfds_ |-> G, channels_ |-> C]
  BY <1>1, <1>2 DEF PP!updateChannel, PP!Has, PP!index, PP!ignored
<1>5. e \in PollFd
  BY <1>3 DEF PollFd, Events
<1>6. G \in Seq(PollFd) /\ Len(G) = n /\ G \in [1..n -> PollFd]
  BY <1>1, <1>3, <1>5, ExceptSeq, LenProperties
<1>7. G[i] = e /\ \A j \in 1..n : j # i => G[j] = F[j]
  BY <1>3
<1>8. \A d \in DOMAIN C : d # fd => C[d].index # i /\ C[d].index \in 1..n
  <2>1. \A d \in DOMAIN C : C[d].index \in 1..n
    BY <1>1 DEF Arranged
  <2>2. ASSUME NEW d \in DOMAIN C, C[d].index = i
        PROVE  d = fd
    <3>. HIDE DEF F, n, C
    <3>. QED BY <1>1, <1>2, <2>2, OneOfIndex
  <2>. HIDE DEF C, i, n
  <2>. QED BY <2>1, <2>2
<1>9. Arranged(G, n, C)
  <2>1. \A d \in DOMAIN C : G[C[d].index].fd = Number(d, G[C[d].index].events)
    <3>1. G[C[fd].index].fd = Number(fd, G[C[fd].index].events)
      BY <1>7 DEF Number
    <3>2. \A d \in DOMAIN C : d # fd => G[C[d].index].fd = Number(d, G[C[d].index].events)
      <4>. HIDE DEF G, F, C, n, i
      <4>. QED BY <1>1, <1>7, <1>8 DEF Arranged
    <3>. QED BY <3>1, <3>2
  <2>. HIDE DEF G, F, C, n, i
  <2>. QED BY <1>1, <1>6, <2>1 DEF Arranged
<1>10. q.pollfds_ = G /\ q.channels_ = C /\ q = [pollfds_ |-> q.pollfds_, channels_ |-> q.channels_]
  BY <1>4
<1>11. PP!Sound(q)
  <2>. HIDE DEF q, G
  <2>. QED BY <1>6, <1>9, <1>10, SoundArranged
<1>12. PP!updateLegal(p, ch, fd, {})
  <2>1. F[i].fd = Number(fd, F[i].events)
    BY <1>1, <1>2 DEF Arranged
  <2>. QED BY <1>2, <1>3, <2>1 DEF PP!updateLegal, PP!index, PP!ignored, Number
<1>13. Updated(PP!Registered(p), PP!Registered(q), fd, Entry(ch, {}))
  <2>1. PP!Registered(q)[fd] = Entry(ch, {})
    <3>1. PP!Registered(q)[fd] = [channel |-> C[fd].channel, events |-> G[i].events]
      <4>. HIDE DEF G, q
      <4>. QED BY <1>2, <1>10 DEF PP!Registered, PP!index
    <3>2. G[i].events = {}
      <4>. HIDE DEF G
      <4>. QED BY <1>7
    <3>. HIDE DEF G, q, i
    <3>. QED BY <3>1, <3>2, <1>2 DEF Entry
  <2>2. \A d \in DOMAIN C : d # fd => PP!Registered(q)[d] = PP!Registered(p)[d]
    <3>. HIDE DEF G, q
    <3>. QED BY <1>7, <1>8, <1>10 DEF PP!Registered, PP!index
  <2>3. DOMAIN PP!Registered(p) = DOMAIN C /\ DOMAIN PP!Registered(q) = DOMAIN C
    BY <1>10 DEF PP!Registered
  <2>. QED BY <2>1, <2>2, <2>3, <1>2 DEF Updated
<1>. QED BY <1>11, <1>12, <1>13

\* The array F without the entry of fd, into whose place the last one moved, that of c.
Shrunk(F, n, C, fd, c, G, m, D) ==
  /\ m \in Nat /\ n = m + 1
  /\ fd \in DOMAIN C /\ c \in DOMAIN C /\ C[c].index = n
  /\ DOMAIN D = DOMAIN C \ {fd}
  /\ \A d \in DOMAIN D : D[d] = [channel |-> C[d].channel,
                                 index |-> IF d = c THEN C[fd].index ELSE C[d].index]
  /\ D = [d \in DOMAIN D |-> [channel |-> D[d].channel, index |-> D[d].index]]
  /\ G \in [1..m -> PollFd]
  /\ \A i \in 1..m : G[i] = IF i = C[fd].index THEN F[n] ELSE F[i]

LEMMA ShrinkArranged ==
  ASSUME NEW F, NEW n, NEW C, Arranged(F, n, C), NEW fd, NEW c, NEW G, NEW m, NEW D,
         Shrunk(F, n, C, fd, c, G, m, D)
  PROVE  /\ Arranged(G, m, D)
         /\ \A d \in DOMAIN D : G[D[d].index] = F[C[d].index]
<1>. USE DEF Shrunk
<1>1. \A d \in DOMAIN C : C[d].index \in 1..n /\ d \in Nat
  BY DEF Arranged
<1>2. \A d \in DOMAIN C : d # fd => C[d].index # C[fd].index
  BY OneOfIndex
<1>3. \A d \in DOMAIN C : d # c => C[d].index # n
  BY OneOfIndex
<1>4. ASSUME NEW d \in DOMAIN D
      PROVE  D[d].index \in 1..m /\ G[D[d].index] = F[C[d].index]
  <2>1. d \in DOMAIN C /\ d # fd
    OBVIOUS
  <2>2. CASE d = c
    <3>1. D[d].index = C[fd].index /\ C[fd].index # n
      BY <2>1, <2>2, <1>2
    <3>2. D[d].index \in 1..m
      BY <3>1, <1>1
    <3>. QED BY <3>1, <3>2, <2>2
  <2>3. CASE d # c
    <3>1. D[d].index = C[d].index /\ C[d].index # n /\ C[d].index # C[fd].index
      BY <2>1, <2>3, <1>2, <1>3
    <3>2. D[d].index \in 1..m
      BY <3>1, <2>1, <1>1
    <3>. QED BY <3>1, <3>2
  <2>. QED BY <2>2, <2>3
<1>5. \A d \in DOMAIN D : G[D[d].index].fd = Number(d, G[D[d].index].events)
  BY <1>4 DEF Arranged
<1>6. ASSUME NEW i \in 1..m
      PROVE  \E d \in DOMAIN D : D[d].index = i
  <2>1. i \in 1..n /\ i # n
    OBVIOUS
  <2>2. PICK d \in DOMAIN C : C[d].index = i
    BY <2>1 DEF Arranged
  <2>3. d # c
    BY <2>1, <2>2
  <2>4. CASE d # fd
    BY <2>2, <2>3, <2>4
  <2>5. CASE d = fd
    <3>1. c # fd
      BY <2>3, <2>5
    <3>. QED BY <3>1, <2>2, <2>5
  <2>. QED BY <2>4, <2>5
<1>7. DOMAIN D \subseteq Nat
  BY <1>1
<1>. QED BY <1>4, <1>5, <1>6, <1>7 DEF Arranged

LEMMA RecordIndex ==
  ASSUME NEW r, r = [channel |-> r.channel, index |-> r.index], NEW i
  PROVE  [r EXCEPT !.index = i] = [channel |-> r.channel, index |-> i]
OBVIOUS

LEMMA PollRemoves ==
  ASSUME NEW p, PP!Sound(p), NEW fd \in DOMAIN PP!Registered(p),
         NEW ch, PP!Registered(p)[fd] = Entry(ch, {})
  PROVE  LET q == PP!removeChannel(p, ch, fd)
         IN  /\ PP!Sound(q)
             /\ PP!removeLegal(p, ch, fd)
             /\ Removed(PP!Registered(p), PP!Registered(q), fd)
<1>. DEFINE F == p.pollfds_
            n == Len(F)
            C == p.channels_
            i == C[fd].index
            m == n - 1
            q == PP!removeChannel(p, ch, fd)
            B == SubSeq(F, 1, n - 1)
<1>1. F \in Seq(PollFd) /\ Arranged(F, n, C) /\ n \in Nat /\ F \in [1..n -> PollFd]
  BY SoundArranged, LenProperties
<1>2. fd \in DOMAIN C /\ C[fd].channel = ch /\ F[i].events = {}
  BY DEF PP!Registered, PP!index, Entry
<1>3. i \in 1..n /\ fd \in Nat /\ F[i].fd = -fd - 1
  BY <1>1, <1>2 DEF Arranged, Number
<1>4. m \in Nat /\ n = m + 1 /\ n \in 1..n
  BY <1>1, <1>3
<1>5. F[i] = [fd |-> -fd - 1, events |-> {}]
  BY <1>1, <1>2, <1>3 DEF PollFd
<1>6. PP!removeLegal(p, ch, fd)
  BY <1>2, <1>3, <1>5 DEF PP!removeLegal, PP!Has, PP!index, PP!ignored
<1>7. PICK c \in DOMAIN C : C[c].index = n
  BY <1>1, <1>4 DEF Arranged
<1>8. c \in Nat /\ F[n].fd = Number(c, F[n].events)
  BY <1>1, <1>7 DEF Arranged
<1>9. (IF F[n].fd < 0 THEN -F[n].fd - 1 ELSE F[n].fd) = c
  BY <1>8 DEF Number
<1>10. B \in Seq(PollFd) /\ Len(B) = m /\ \A j \in 1..m : B[j] = F[j]
  <2>1. \A j \in 1..m : F[j] \in PollFd
    BY <1>1, <1>4
  <2>2. 1 \in Int /\ m \in Int
    BY <1>4
  <2>3. /\ B \in Seq(PollFd)
        /\ Len(B) = IF 1 <= m THEN m - 1 + 1 ELSE 0
        /\ \A j \in 1..(m - 1 + 1) : B[j] = F[1 + j - 1]
    BY <2>1, <2>2, SubSeqProperties
  <2>0. m \in Nat
    BY <1>4
  <2>. HIDE DEF m
  <2>4. m - 1 + 1 = m /\ (~(1 <= m) => m = 0) /\ \A j \in 1..m : 1 + j - 1 = j
    BY <2>0
  <2>. QED BY <2>3, <2>4
<1>11. \A d \in DOMAIN C : C[d] = [channel |-> C[d].channel, index |-> C[d].index]
  BY <1>1 DEF Arranged
<1>12. i = n => fd = c
  <2>. HIDE DEF F, n, C
  <2>. QED BY <1>1, <1>2, <1>7, OneOfIndex
<1>13. /\ q.channels_ = [d \in DOMAIN C \ {fd} |->
                           [channel |-> C[d].channel, index |-> IF d = c THEN i ELSE C[d].index]]
       /\ q = [pollfds_ |-> q.pollfds_, channels_ |-> q.channels_]
       /\ q.pollfds_ \in Seq(PollFd) /\ Len(q.pollfds_) = m
       /\ \A j \in 1..m : q.pollfds_[j] = IF j = i THEN F[n] ELSE F[j]
  <2>1. CASE i = n
    <3>1. q = [pollfds_ |-> B, channels_ |-> [d \in DOMAIN C \ {fd} |-> C[d]]]
      BY <2>1 DEF PP!removeChannel, PP!index, PP!Front, PP!Without
    <3>2. [d \in DOMAIN C \ {fd} |-> C[d]] =
          [d \in DOMAIN C \ {fd} |-> [channel |-> C[d].channel,
                                      index |-> IF d = c THEN i ELSE C[d].index]]
      BY <2>1, <1>11, <1>12
    <3>3. \A j \in 1..m : j # i
      BY <2>1, <1>4
    <3>4. q.pollfds_ = B /\ q.channels_ = [d \in DOMAIN C \ {fd} |-> C[d]]
      BY <3>1
    <3>. HIDE DEF q, B, m, n, F, C, i
    <3>. QED BY <3>1, <3>2, <3>3, <3>4, <1>10
  <2>2. CASE i # n
    <3>. DEFINE G == [B EXCEPT ![i] = F[n]]
                W == [d \in DOMAIN C \ {fd} |-> C[d]]
                D == [W EXCEPT ![c] = [C[c] EXCEPT !.index = i]]
    <3>1. c # fd /\ c \in DOMAIN W
      BY <2>2, <1>7
    <3>2. q = [pollfds_ |-> G, channels_ |-> D]
      BY <2>2, <1>9 DEF PP!removeChannel, PP!index, PP!Front, PP!Without, PP!ignored, PP!moved
    <3>3. D = [d \in DOMAIN C \ {fd} |-> [channel |-> C[d].channel,
                                          index |-> IF d = c THEN i ELSE C[d].index]]
      <4>1. [C[c] EXCEPT !.index = i] = [channel |-> C[c].channel, index |-> i]
        BY <1>11, RecordIndex
      <4>. QED BY <4>1, <3>1, <1>11
    <3>4. i \in 1..Len(B) /\ F[n] \in PollFd
      BY <2>2, <1>1, <1>3, <1>4, <1>10
    <3>5. G \in Seq(PollFd) /\ Len(G) = m /\ \A j \in 1..m : G[j] = IF j = i THEN F[n] ELSE B[j]
      <4>. HIDE DEF B, F, m, i
      <4>. QED BY <3>4, <1>10, ExceptSeq
    <3>6. q.pollfds_ = G /\ q.channels_ = D
      BY <3>2
    <3>. HIDE DEF q, B, m, n, F, C, G, D, i
    <3>. QED BY <3>2, <3>3, <3>5, <3>6, <1>10
  <2>. QED BY <2>1, <2>2
<1>14. /\ Arranged(q.pollfds_, m, q.channels_)
       /\ \A d \in DOMAIN q.channels_ : q.pollfds_[q.channels_[d].index] = F[C[d].index]
  <2>. DEFINE G == q.pollfds_
              D == q.channels_
  <2>1. /\ DOMAIN D = DOMAIN C \ {fd}
        /\ \A d \in DOMAIN D : D[d] = [channel |-> C[d].channel,
                                       index |-> IF d = c THEN C[fd].index ELSE C[d].index]
        /\ D = [d \in DOMAIN D |-> [channel |-> D[d].channel, index |-> D[d].index]]
    BY <1>13
  <2>2. G \in [1..m -> PollFd]
    BY <1>13, LenProperties
  <2>3. \A j \in 1..m : G[j] = IF j = C[fd].index THEN F[n] ELSE F[j]
    BY <1>13
  <2>4. m \in Nat /\ n = m + 1
    BY <1>4
  <2>. HIDE DEF G, D, F, C, n, m, q, i, B
  <2>5. Shrunk(F, n, C, fd, c, G, m, D)
    BY <1>2, <1>7, <2>1, <2>2, <2>3, <2>4 DEF Shrunk
  <2>6. Arranged(G, m, D) /\ \A d \in DOMAIN D : G[D[d].index] = F[C[d].index]
    BY <1>1, <2>5, ShrinkArranged
  <2>. QED BY <2>6 DEF G, D
<1>15. PP!Sound(q)
  <2>. HIDE DEF q
  <2>. QED BY <1>13, <1>14, SoundArranged
<1>16. Removed(PP!Registered(p), PP!Registered(q), fd)
  <2>1. DOMAIN q.channels_ = DOMAIN C \ {fd}
        /\ \A d \in DOMAIN q.channels_ : q.channels_[d].channel = C[d].channel
    BY <1>13
  <2>. HIDE DEF q
  <2>. QED BY <1>14, <2>1 DEF PP!Registered, PP!index, Removed
<1>. QED BY <1>6, <1>15, <1>16

\* What poll() looks for, in terms of the map.
Looked(R) == {<<R[fd].channel, R[fd].events>> : fd \in {d \in DOMAIN R : R[d].events # {}}}

LEMMA PollWatches ==
  ASSUME NEW p, PP!Sound(p)
  PROVE  PP!Watched(p) = Looked(PP!Registered(p))
<1>. DEFINE F == p.pollfds_
            n == Len(F)
            C == p.channels_
            R == PP!Registered(p)
<1>1. F \in Seq(PollFd) /\ Arranged(F, n, C)
  BY SoundArranged
<1>2. /\ DOMAIN R = DOMAIN C
      /\ \A d \in DOMAIN C : R[d].channel = C[d].channel /\ R[d].events = F[C[d].index].events
  BY DEF PP!Registered, PP!index
<1>3. \A d \in DOMAIN C : C[d].index \in 1..n /\ d \in Nat
  BY <1>1 DEF Arranged
<1>4. ASSUME NEW d \in DOMAIN C, R[d].events # {}
      PROVE  /\ C[d].index \in 1..n
             /\ F[C[d].index].fd = d /\ F[C[d].index].fd >= 0
  <2>1. C[d].index \in 1..n /\ d \in Nat
    BY <1>3
  <2>2. F[C[d].index].fd = Number(d, F[C[d].index].events)
    BY <1>1 DEF Arranged
  <2>3. F[C[d].index].events # {}
    BY <1>2, <1>4
  <2>. HIDE DEF F, C, n
  <2>. QED BY <2>1, <2>2, <2>3 DEF Number
<1>5. ASSUME NEW j \in 1..n, F[j].fd >= 0
      PROVE  /\ F[j].fd \in DOMAIN C /\ R[F[j].fd].events # {}
             /\ F[j].events = R[F[j].fd].events
  <2>1. PICK d \in DOMAIN C : C[d].index = j
    BY <1>1 DEF Arranged
  <2>2. F[j].fd = Number(d, F[j].events) /\ d \in Nat
    BY <1>1, <2>1 DEF Arranged
  <2>3. F[j].events # {} /\ F[j].fd = d
    BY <2>2, <1>5 DEF Number
  <2>. QED BY <2>1, <2>3, <1>2
<1>6. PP!Watched(p) = {<<C[F[j].fd].channel, F[j].events>> : j \in {k \in 1..n : F[k].fd >= 0}}
  BY DEF PP!Watched
<1>7. Looked(R) = {<<R[d].channel, R[d].events>> : d \in {c \in DOMAIN R : R[c].events # {}}}
  BY DEF Looked
<1>8. PP!Watched(p) \subseteq Looked(R)
  <2>. HIDE DEF F, C, n, R
  <2>. QED BY <1>2, <1>5, <1>6, <1>7
<1>9. Looked(R) \subseteq PP!Watched(p)
  <2>. HIDE DEF F, C, n, R
  <2>. QED BY <1>2, <1>4, <1>6, <1>7
<1>. QED BY <1>8, <1>9

LEMMA EpollAdds ==
  ASSUME NEW p, EP!Sound(p), NEW fd, fd \notin DOMAIN EP!Registered(p),
         NEW ch, NEW ev, ev # {}
  PROVE  LET q == EP!updateChannel(p, ch, fd, ev)
         IN  /\ EP!Sound(q)
             /\ EP!updateLegal(p, ch, fd, ev)
             /\ Updated(EP!Registered(p), EP!Registered(q), fd, Entry(ch, ev))
<1>. DEFINE C == p.channels_
            K == p.epoll
            c == [channel |-> ch, index |-> "kAdded"]
            e == [channel |-> ch, events |-> ev]
            D == [d \in DOMAIN C \cup {fd} |-> IF d = fd THEN c ELSE C[d]]
            L == [d \in DOMAIN K \cup {fd} |-> IF d = fd THEN e ELSE K[d]]
            q == EP!updateChannel(p, ch, fd, ev)
<1>1. fd \notin DOMAIN C
  BY DEF EP!Registered
<1>2. fd \notin DOMAIN K
  BY <1>1 DEF EP!Sound
<1>3. q = [channels_ |-> D, epoll |-> L]
  BY <1>1 DEF EP!updateChannel, EP!Has, EP!Put
<1>4. q.channels_ = D /\ q.epoll = L /\ q = [channels_ |-> q.channels_, epoll |-> q.epoll]
  BY <1>3
<1>5. DOMAIN D = DOMAIN C \cup {fd} /\ D[fd] = c /\ \A d \in DOMAIN C : D[d] = C[d]
  BY <1>1
<1>6. DOMAIN L = DOMAIN K \cup {fd} /\ L[fd] = e /\ \A d \in DOMAIN K : L[d] = K[d]
  BY <1>2
<1>7. D = [d \in DOMAIN D |-> [channel |-> D[d].channel, index |-> D[d].index]]
  <2>1. \A d \in DOMAIN C : C[d] = [channel |-> C[d].channel, index |-> C[d].index]
    BY DEF EP!Sound
  <2>2. \A d \in DOMAIN D : D[d] = [channel |-> D[d].channel, index |-> D[d].index]
    BY <2>1, <1>5
  <2>. QED BY <2>2
<1>8. L = [d \in DOMAIN L |-> [channel |-> L[d].channel, events |-> L[d].events]]
  <2>1. \A d \in DOMAIN K : K[d] = [channel |-> K[d].channel, events |-> K[d].events]
    BY DEF EP!Sound
  <2>2. \A d \in DOMAIN L : L[d] = [channel |-> L[d].channel, events |-> L[d].events]
    BY <2>1, <1>6
  <2>. QED BY <2>2
<1>9. \A d \in DOMAIN C : C[d].index \in {"kAdded", "kDeleted"}
  BY DEF EP!Sound, EP!index
<1>10. DOMAIN K = {d \in DOMAIN C : C[d].index = "kAdded"}
  BY DEF EP!Sound, EP!index
<1>11. \A d \in DOMAIN K : K[d].channel = C[d].channel /\ K[d].events # {}
  BY DEF EP!Sound
<1>12. EP!Sound(q)
  <2>. HIDE DEF C, K, D, L, q
  <2>1. \A d \in DOMAIN D : D[d].index \in {"kAdded", "kDeleted"}
    BY <1>5, <1>9
  <2>2. DOMAIN L = {d \in DOMAIN D : D[d].index = "kAdded"}
    BY <1>5, <1>6, <1>10
  <2>3. \A d \in DOMAIN L : L[d].channel = D[d].channel /\ L[d].events # {}
    BY <1>5, <1>6, <1>10, <1>11
  <2>. QED BY <1>4, <1>7, <1>8, <2>1, <2>2, <2>3 DEF EP!Sound, EP!index
<1>13. EP!updateLegal(p, ch, fd, ev)
  BY <1>1, <1>2 DEF EP!updateLegal
<1>14. Updated(EP!Registered(p), EP!Registered(q), fd, Entry(ch, ev))
  <2>. HIDE DEF D, L, q
  <2>1. DOMAIN EP!Registered(q) = DOMAIN EP!Registered(p) \cup {fd}
    BY <1>4, <1>5 DEF EP!Registered
  <2>2. EP!Registered(q)[fd] = Entry(ch, ev)
    BY <1>4, <1>5, <1>6 DEF EP!Registered, EP!index, Entry
  <2>3. \A d \in DOMAIN EP!Registered(p) \ {fd} : EP!Registered(q)[d] = EP!Registered(p)[d]
    BY <1>4, <1>5, <1>6, <1>10 DEF EP!Registered, EP!index
  <2>. QED BY <2>1, <2>2, <2>3 DEF Updated
<1>. QED BY <1>12, <1>13, <1>14

LEMMA EpollDisables ==
  ASSUME NEW p, EP!Sound(p), NEW fd \in DOMAIN EP!Registered(p),
         NEW ch, EP!Registered(p)[fd].channel = ch, EP!Registered(p)[fd].events # {}
  PROVE  LET q == EP!updateChannel(p, ch, fd, {})
         IN  /\ EP!Sound(q)
             /\ EP!updateLegal(p, ch, fd, {})
             /\ Updated(EP!Registered(p), EP!Registered(q), fd, Entry(ch, {}))
<1>. DEFINE C == p.channels_
            K == p.epoll
            D == [C EXCEPT ![fd].index = "kDeleted"]
            L == [d \in DOMAIN K \ {fd} |-> K[d]]
            q == EP!updateChannel(p, ch, fd, {})
<1>1. fd \in DOMAIN C /\ C[fd].channel = ch /\ C[fd].index = "kAdded"
  BY DEF EP!Registered, EP!index
<1>2. q = [channels_ |-> D, epoll |-> L]
  BY <1>1 DEF EP!updateChannel, EP!Has, EP!index, EP!Without
<1>3. q.channels_ = D /\ q.epoll = L /\ q = [channels_ |-> q.channels_, epoll |-> q.epoll]
  BY <1>2
<1>4. \A d \in DOMAIN C : C[d] = [channel |-> C[d].channel, index |-> C[d].index]
  BY DEF EP!Sound
<1>5. /\ DOMAIN D = DOMAIN C /\ D[fd] = [channel |-> ch, index |-> "kDeleted"]
      /\ \A d \in DOMAIN C : d # fd => D[d] = C[d]
  BY <1>1, <1>4, RecordIndex
<1>6. DOMAIN L = DOMAIN K \ {fd} /\ \A d \in DOMAIN L : L[d] = K[d]
  OBVIOUS
<1>7. D = [d \in DOMAIN D |-> [channel |-> D[d].channel, index |-> D[d].index]]
  <2>1. \A d \in DOMAIN D : D[d] = [channel |-> D[d].channel, index |-> D[d].index]
    BY <1>4, <1>5
  <2>. QED BY <2>1
<1>8. L = [d \in DOMAIN L |-> [channel |-> L[d].channel, events |-> L[d].events]]
  <2>1. \A d \in DOMAIN K : K[d] = [channel |-> K[d].channel, events |-> K[d].events]
    BY DEF EP!Sound
  <2>. QED BY <2>1, <1>6
<1>9. \A d \in DOMAIN C : C[d].index \in {"kAdded", "kDeleted"}
  BY DEF EP!Sound, EP!index
<1>10. DOMAIN K = {d \in DOMAIN C : C[d].index = "kAdded"}
  BY DEF EP!Sound, EP!index
<1>11. \A d \in DOMAIN K : K[d].channel = C[d].channel /\ K[d].events # {}
  BY DEF EP!Sound
<1>12. EP!Sound(q)
  <2>. HIDE DEF C, K, D, L, q
  <2>1. \A d \in DOMAIN D : D[d].index \in {"kAdded", "kDeleted"}
    BY <1>5, <1>9
  <2>2. DOMAIN L = {d \in DOMAIN D : D[d].index = "kAdded"}
    BY <1>5, <1>6, <1>10
  <2>3. \A d \in DOMAIN L : L[d].channel = D[d].channel /\ L[d].events # {}
    BY <1>5, <1>6, <1>10, <1>11
  <2>. QED BY <1>3, <1>7, <1>8, <2>1, <2>2, <2>3 DEF EP!Sound, EP!index
<1>13. EP!updateLegal(p, ch, fd, {})
  BY <1>1 DEF EP!updateLegal, EP!index
<1>14. Updated(EP!Registered(p), EP!Registered(q), fd, Entry(ch, {}))
  <2>. HIDE DEF D, L, q
  <2>1. DOMAIN EP!Registered(q) = DOMAIN EP!Registered(p) \cup {fd}
    BY <1>1, <1>3, <1>5 DEF EP!Registered
  <2>2. EP!Registered(q)[fd] = Entry(ch, {})
    <3>1. EP!Registered(q)[fd] = [channel |-> D[fd].channel,
                                  events |-> IF D[fd].index = "kAdded" THEN L[fd].events ELSE {}]
      BY <1>1, <1>3, <1>5 DEF EP!Registered, EP!index
    <3>2. D[fd].channel = ch /\ D[fd].index = "kDeleted"
      BY <1>5
    <3>. QED BY <3>1, <3>2 DEF Entry
  <2>3. \A d \in DOMAIN EP!Registered(p) \ {fd} : EP!Registered(q)[d] = EP!Registered(p)[d]
    BY <1>3, <1>5, <1>6, <1>10 DEF EP!Registered, EP!index
  <2>. QED BY <2>1, <2>2, <2>3 DEF Updated
<1>. QED BY <1>12, <1>13, <1>14

LEMMA EpollRemoves ==
  ASSUME NEW p, EP!Sound(p), NEW fd \in DOMAIN EP!Registered(p),
         NEW ch, EP!Registered(p)[fd] = Entry(ch, {})
  PROVE  LET q == EP!removeChannel(p, ch, fd)
         IN  /\ EP!Sound(q)
             /\ EP!removeLegal(p, ch, fd)
             /\ Removed(EP!Registered(p), EP!Registered(q), fd)
<1>. DEFINE C == p.channels_
            K == p.epoll
            D == [d \in DOMAIN C \ {fd} |-> C[d]]
            q == EP!removeChannel(p, ch, fd)
<1>1. \A d \in DOMAIN K : K[d].channel = C[d].channel /\ K[d].events # {}
  BY DEF EP!Sound
<1>2. DOMAIN K = {d \in DOMAIN C : C[d].index = "kAdded"}
  BY DEF EP!Sound, EP!index
<1>3. fd \in DOMAIN C /\ C[fd].channel = ch /\ C[fd].index # "kAdded"
  BY <1>1, <1>2 DEF EP!Registered, EP!index, Entry
<1>4. q = [channels_ |-> D, epoll |-> K]
  BY <1>3 DEF EP!removeChannel, EP!index, EP!Without
<1>5. q.channels_ = D /\ q.epoll = K /\ q = [channels_ |-> q.channels_, epoll |-> q.epoll]
  BY <1>4
<1>6. DOMAIN D = DOMAIN C \ {fd} /\ \A d \in DOMAIN D : D[d] = C[d]
  OBVIOUS
<1>7. D = [d \in DOMAIN D |-> [channel |-> D[d].channel, index |-> D[d].index]]
  <2>1. \A d \in DOMAIN C : C[d] = [channel |-> C[d].channel, index |-> C[d].index]
    BY DEF EP!Sound
  <2>. QED BY <2>1, <1>6
<1>8. K = [d \in DOMAIN K |-> [channel |-> K[d].channel, events |-> K[d].events]]
  BY DEF EP!Sound
<1>9. \A d \in DOMAIN C : C[d].index \in {"kAdded", "kDeleted"}
  BY DEF EP!Sound, EP!index
<1>10. EP!Sound(q)
  <2>. HIDE DEF C, K, D, q
  <2>1. DOMAIN K = {d \in DOMAIN D : D[d].index = "kAdded"}
    BY <1>2, <1>3, <1>6
  <2>2. \A d \in DOMAIN K : K[d].channel = D[d].channel /\ K[d].events # {}
    BY <1>1, <1>6, <2>1
  <2>. QED BY <1>5, <1>6, <1>7, <1>8, <1>9, <2>1, <2>2 DEF EP!Sound, EP!index
<1>11. EP!removeLegal(p, ch, fd)
  BY <1>3 DEF EP!removeLegal, EP!Has
<1>12. Removed(EP!Registered(p), EP!Registered(q), fd)
  <2>. HIDE DEF D, q
  <2>. QED BY <1>5, <1>6 DEF EP!Registered, EP!index, Removed
<1>. QED BY <1>10, <1>11, <1>12

LEMMA EpollWatches ==
  ASSUME NEW p, EP!Sound(p)
  PROVE  EP!Watched(p) = Looked(EP!Registered(p))
<1>. DEFINE C == p.channels_
            K == p.epoll
            R == EP!Registered(p)
<1>1. \A d \in DOMAIN K : K[d].channel = C[d].channel /\ K[d].events # {}
  BY DEF EP!Sound
<1>2. DOMAIN K = {d \in DOMAIN C : C[d].index = "kAdded"}
  BY DEF EP!Sound, EP!index
<1>3. DOMAIN R = DOMAIN C /\ \A d \in DOMAIN C : R[d].channel = C[d].channel
  BY DEF EP!Registered
<1>4. \A d \in DOMAIN C : R[d].events = IF C[d].index = "kAdded" THEN K[d].events ELSE {}
  BY DEF EP!Registered, EP!index
<1>5. DOMAIN K = {d \in DOMAIN R : R[d].events # {}}
  <2>. HIDE DEF C, K, R
  <2>. QED BY <1>1, <1>2, <1>3, <1>4
<1>6. \A d \in DOMAIN K : K[d].channel = R[d].channel /\ K[d].events = R[d].events
  <2>. HIDE DEF C, K, R
  <2>. QED BY <1>1, <1>2, <1>3, <1>4
<1>7. EP!Watched(p) = {<<K[d].channel, K[d].events>> : d \in DOMAIN K}
  BY DEF EP!Watched
<1>8. Looked(R) = {<<R[d].channel, R[d].events>> : d \in DOMAIN K}
  <2>. HIDE DEF C, K, R
  <2>. QED BY <1>5 DEF Looked
<1>. HIDE DEF C, K
<1>. QED BY <1>6, <1>7, <1>8
-----------------------------------------------------------------------------
(***************************************************************************)
(* Either poller.                                                          *)
(***************************************************************************)
LEMMA Adds ==
  ASSUME NEW p, Sound(p), NEW fd \in Nat, fd \notin DOMAIN Registered(p),
         NEW ch, NEW ev \in Events, ev # {}
  PROVE  LET q == UpdateChannel(p, ch, fd, ev)
         IN  /\ Sound(q)
             /\ UpdateLegal(p, ch, fd, ev)
             /\ Updated(Registered(p), Registered(q), fd, Entry(ch, ev))
<1>1. CASE use.poller = "poll"
  BY <1>1, PollAdds DEF Sound, Registered, UpdateChannel, UpdateLegal
<1>2. CASE use.poller # "poll"
  BY <1>2, EpollAdds DEF Sound, Registered, UpdateChannel, UpdateLegal
<1>. QED BY <1>1, <1>2

LEMMA Disables ==
  ASSUME NEW p, Sound(p), NEW fd \in DOMAIN Registered(p), NEW ch, NEW ev, ev # {},
         Registered(p)[fd] = Entry(ch, ev)
  PROVE  LET q == UpdateChannel(p, ch, fd, {})
         IN  /\ Sound(q)
             /\ UpdateLegal(p, ch, fd, {})
             /\ Updated(Registered(p), Registered(q), fd, Entry(ch, {}))
<1>0. Registered(p)[fd].channel = ch /\ Registered(p)[fd].events # {}
  BY DEF Entry
<1>1. CASE use.poller = "poll"
  BY <1>0, <1>1, PollDisables DEF Sound, Registered, UpdateChannel, UpdateLegal
<1>2. CASE use.poller # "poll"
  BY <1>0, <1>2, EpollDisables DEF Sound, Registered, UpdateChannel, UpdateLegal
<1>. QED BY <1>1, <1>2

LEMMA Removes ==
  ASSUME NEW p, Sound(p), NEW fd \in DOMAIN Registered(p), NEW ch,
         Registered(p)[fd] = Entry(ch, {})
  PROVE  LET q == RemoveChannel(p, ch, fd)
         IN  /\ Sound(q)
             /\ RemoveLegal(p, ch, fd)
             /\ Removed(Registered(p), Registered(q), fd)
<1>1. CASE use.poller = "poll"
  BY <1>1, PollRemoves DEF Sound, Registered, RemoveChannel, RemoveLegal
<1>2. CASE use.poller # "poll"
  BY <1>2, EpollRemoves DEF Sound, Registered, RemoveChannel, RemoveLegal
<1>. QED BY <1>1, <1>2

LEMMA Watches ==
  ASSUME Sound(poller)
  PROVE  Watched = Looked(Registered(poller))
BY PollWatches, EpollWatches DEF Sound, Registered, Watched

LEMMA NewPoller ==
  ASSUME poller = newPoller(use)
  PROVE  /\ Sound(poller)
         /\ DOMAIN Registered(poller) = {0, 1}
         /\ Registered(poller)[0] = Entry(TimerChannel, {"R"})
         /\ Registered(poller)[1] = Entry(WakeupChannel, {"R"})
<1>. DEFINE empty == IF use.poller = "poll" THEN PP!newPoller ELSE EP!newPoller
            p == UpdateChannel(empty, TimerChannel, 0, {"R"})
<1>1. Sound(empty) /\ DOMAIN Registered(empty) = {}
  <2>1. CASE use.poller = "poll"
    <3>1. /\ PP!newPoller.pollfds_ = <<>> /\ PP!newPoller.channels_ = <<>>
          /\ PP!newPoller = [pollfds_ |-> PP!newPoller.pollfds_,
                             channels_ |-> PP!newPoller.channels_]
      BY DEF PP!newPoller
    <3>2. DOMAIN <<>> = {} /\ Len(<<>>) = 0 /\ <<>> \in Seq(PollFd) /\ <<>> \in [1..0 -> PollFd]
      OBVIOUS
    <3>3. Arranged(<<>>, 0, <<>>)
      BY <3>2 DEF Arranged
    <3>4. PP!Sound(PP!newPoller)
      BY <3>1, <3>2, <3>3, SoundArranged
    <3>5. DOMAIN PP!Registered(PP!newPoller) = {}
      BY <3>1, <3>2 DEF PP!Registered
    <3>. QED BY <2>1, <3>4, <3>5 DEF Sound, Registered
  <2>2. CASE use.poller # "poll"
    <3>1. /\ EP!newPoller.channels_ = <<>> /\ EP!newPoller.epoll = <<>>
          /\ EP!newPoller = [channels_ |-> EP!newPoller.channels_, epoll |-> EP!newPoller.epoll]
      BY DEF EP!newPoller
    <3>2. DOMAIN <<>> = {}
      OBVIOUS
    <3>3. EP!Sound(EP!newPoller)
      BY <3>1, <3>2 DEF EP!Sound
    <3>4. DOMAIN EP!Registered(EP!newPoller) = {}
      BY <3>1, <3>2 DEF EP!Registered
    <3>. QED BY <2>2, <3>3, <3>4 DEF Sound, Registered
  <2>. QED BY <2>1, <2>2
<1>2. poller = UpdateChannel(p, WakeupChannel, 1, {"R"})
  BY DEF newPoller, UpdateChannel
<1>3. {"R"} \in Events /\ {"R"} # {}
  BY DEF Events
<1>4. Sound(p) /\ Updated(Registered(empty), Registered(p), 0, Entry(TimerChannel, {"R"}))
  <2>. HIDE DEF empty
  <2>. QED BY <1>1, <1>3, Adds
<1>5. DOMAIN Registered(p) = {0} /\ Registered(p)[0] = Entry(TimerChannel, {"R"})
  BY <1>1, <1>4 DEF Updated
<1>6. Sound(poller) /\ Updated(Registered(p), Registered(poller), 1, Entry(WakeupChannel, {"R"}))
  <2>. HIDE DEF p
  <2>. QED BY <1>2, <1>3, <1>4, <1>5, Adds
<1>. QED BY <1>5, <1>6 DEF Updated
-----------------------------------------------------------------------------
(***************************************************************************)
(* The functors.                                                           *)
(***************************************************************************)
LEMMA FunctorEq ==
  ASSUME NEW a, NEW b, NEW x, NEW y
  PROVE  Functor(a, x) = Functor(b, y) <=> a = b /\ x = y
<1>1. Functor(a, x).op = a /\ Functor(a, x).fd = x
  BY DEF Functor
<1>2. Functor(b, y).op = b /\ Functor(b, y).fd = y
  BY DEF Functor
<1>. QED BY <1>1, <1>2

LEMMA FunctorType ==
  /\ \A op \in {"startInLoop", "stopInLoop", "resetChannel"} : Functor(op, None) \in Functors_
  /\ \A fd \in Fds : Functor("connectDestroyed", fd) \in Functors_
  /\ \A f \in Functors_ : /\ f = Functor(f.op, f.fd)
                          /\ f.op \in {"startInLoop", "stopInLoop", "resetChannel"} => f.fd = None
                          /\ f.op = "connectDestroyed" => f.fd \in Fds
BY DEF Functor, Functors_

LEMMA ElementsAppend ==
  ASSUME NEW S, NEW s \in Seq(S), NEW x \in S
  PROVE  /\ Elements(Append(s, x)) = Elements(s) \cup {x}
         /\ Distinct(s) /\ x \notin Elements(s) => Distinct(Append(s, x))
<1>. DEFINE t == Append(s, x)
            n == Len(s)
<1>1. n \in Nat /\ Len(t) = n + 1 /\ t[n + 1] = x /\ \A i \in 1..n : t[i] = s[i]
  BY AppendProperties, LenProperties
<1>. HIDE DEF t
<1>2. 1..(n + 1) = 1..n \cup {n + 1}
  BY <1>1
<1>3. Elements(t) = Elements(s) \cup {x}
  BY <1>1, <1>2 DEF Elements
<1>4. ASSUME Distinct(s), x \notin Elements(s), NEW i \in 1..(n + 1), NEW j \in 1..(n + 1),
             t[i] = t[j]
      PROVE  i = j
  <2>1. CASE i \in 1..n /\ j \in 1..n
    BY <1>1, <1>4, <2>1 DEF Distinct
  <2>2. \A k \in 1..n : t[k] # x
    BY <1>1, <1>4 DEF Elements
  <2>. QED BY <1>1, <1>2, <1>4, <2>1, <2>2
<1>5. Distinct(s) /\ x \notin Elements(s) => Distinct(t)
  BY <1>1, <1>4 DEF Distinct
<1>. QED BY <1>3, <1>5 DEF t

LEMMA ElementsTail ==
  ASSUME NEW S, NEW s \in Seq(S), s # <<>>
  PROVE  /\ Head(s) \in S /\ Tail(s) \in Seq(S)
         /\ Elements(s) = Elements(Tail(s)) \cup {Head(s)}
         /\ Distinct(s) => Distinct(Tail(s)) /\ Head(s) \notin Elements(Tail(s))
<1>. DEFINE t == Tail(s)
            n == Len(t)
<1>1. /\ Head(s) \in S /\ t \in Seq(S) /\ n \in Nat /\ Len(s) = n + 1 /\ s[1] = Head(s)
      /\ \A i \in 1..n : t[i] = s[i + 1]
  BY HeadTailProperties, LenProperties, EmptySeq
<1>. HIDE DEF t
<1>2. \A i \in 1..(n + 1) : i = 1 \/ i - 1 \in 1..n
  BY <1>1
<1>3. \A i \in 1..n : i + 1 \in 1..(n + 1) /\ i + 1 # 1
  BY <1>1
<1>4. 1 \in 1..(n + 1)
  BY <1>1
<1>5. \A i \in 1..(n + 1) : i - 1 + 1 = i
  BY <1>1
<1>6. \A i \in 1..(n + 1) : i = 1 \/ s[i] = t[i - 1]
  BY <1>1, <1>2, <1>5
<1>7. Elements(s) \subseteq Elements(t) \cup {Head(s)}
  BY <1>1, <1>2, <1>6 DEF Elements
<1>8. Elements(t) \cup {Head(s)} \subseteq Elements(s)
  BY <1>1, <1>3, <1>4 DEF Elements
<1>9. ASSUME Distinct(s) PROVE Distinct(t)
  <2>. SUFFICES ASSUME NEW i \in 1..n, NEW j \in 1..n, t[i] = t[j] PROVE i = j
    BY DEF Distinct
  <2>1. i + 1 = j + 1
    BY <1>1, <1>3, <1>9 DEF Distinct
  <2>. QED BY <2>1, <1>1
<1>10. ASSUME Distinct(s) PROVE Head(s) \notin Elements(t)
  <2>. SUFFICES ASSUME NEW i \in 1..n, t[i] = Head(s) PROVE FALSE
    BY DEF Elements
  <2>1. i + 1 = 1
    BY <1>1, <1>3, <1>4, <1>10 DEF Distinct
  <2>. QED BY <2>1, <1>3
<1>. QED BY <1>1, <1>7, <1>8, <1>9, <1>10 DEF t

LEMMA ElementsEmpty == Elements(<<>>) = {} /\ Distinct(<<>>)
BY DEF Elements, Distinct

\* No functor waits twice.
Apart(b, q) == Distinct(b) /\ Distinct(q) /\ Elements(b) \cap Elements(q) = {}

Queues == /\ batch \in Seq(Functors_) /\ queue \in Seq(Functors_)
          /\ Apart(batch, queue)

LEMMA Queued ==
  ASSUME Queues, NEW f \in Functors_, f \notin Waiting,
         queue' = Append(queue, f), UNCHANGED batch
  PROVE  /\ Queues' /\ Waiting' = Waiting \cup {f}
         /\ Elements(queue)' = Elements(queue) \cup {f}
BY ElementsAppend, AppendProperties DEF Queues, Apart, Waiting

LEMMA Called ==
  ASSUME Queues, batch # <<>>, batch' = Tail(batch), UNCHANGED queue
  PROVE  /\ Queues' /\ Waiting' = Waiting \ {Head(batch)}
         /\ Head(batch) \in Waiting /\ Head(batch) \in Functors_
         /\ Elements(queue)' = Elements(queue)
<1>. DEFINE h == Head(batch)
            t == Tail(batch)
<1>1. /\ h \in Functors_ /\ t \in Seq(Functors_) /\ Elements(batch) = Elements(t) \cup {h}
      /\ Distinct(t) /\ h \notin Elements(t)
  BY ElementsTail DEF Queues, Apart
<1>2. Elements(queue)' = Elements(queue) /\ Elements(batch)' = Elements(t)
  BY DEF Elements
<1>3. Distinct(queue)' /\ Distinct(batch)'
  BY <1>1 DEF Queues, Apart, Distinct
<1>. HIDE DEF h, t
<1>4. h \in Elements(batch) /\ h \notin Elements(queue)
  BY <1>1 DEF Queues, Apart
<1>5. Queues'
  BY <1>1, <1>2, <1>3 DEF Queues, Apart, t
<1>6. Waiting' = Waiting \ {h} /\ h \in Waiting
  BY <1>1, <1>2, <1>4 DEF Waiting
<1>. QED BY <1>1, <1>2, <1>5, <1>6 DEF h

LEMMA CalledQueued ==
  ASSUME Queues, batch # <<>>, batch' = Tail(batch), NEW f \in Functors_, f \notin Waiting,
         queue' = Append(queue, f)
  PROVE  /\ Queues' /\ Waiting' = (Waiting \ {Head(batch)}) \cup {f}
         /\ Head(batch) \in Waiting /\ Head(batch) \in Functors_
         /\ Elements(queue)' = Elements(queue) \cup {f}
<1>. DEFINE h == Head(batch)
            t == Tail(batch)
            q == Append(queue, f)
<1>1. /\ h \in Functors_ /\ t \in Seq(Functors_) /\ Elements(batch) = Elements(t) \cup {h}
      /\ Distinct(t) /\ h \notin Elements(t)
  BY ElementsTail DEF Queues, Apart
<1>2. f \notin Elements(queue) /\ f \notin Elements(batch)
  BY DEF Waiting
<1>3. q \in Seq(Functors_) /\ Elements(q) = Elements(queue) \cup {f} /\ Distinct(q)
  BY <1>2, ElementsAppend, AppendProperties DEF Queues, Apart
<1>4. Elements(queue)' = Elements(q) /\ Elements(batch)' = Elements(t)
  BY DEF Elements
<1>5. Distinct(queue)' /\ Distinct(batch)'
  BY <1>1, <1>3 DEF Distinct
<1>6. queue' = q /\ batch' = t
  OBVIOUS
<1>. HIDE DEF h, t, q
<1>7. h \in Elements(batch) /\ h \notin Elements(queue) /\ h # f
  BY <1>1, <1>2 DEF Queues, Apart
<1>8. Queues'
  BY <1>1, <1>2, <1>3, <1>4, <1>5, <1>6 DEF Queues, Apart
<1>9. Waiting' = (Waiting \ {h}) \cup {f} /\ h \in Waiting
  BY <1>1, <1>2, <1>3, <1>4, <1>7 DEF Waiting
<1>. QED BY <1>1, <1>3, <1>4, <1>8, <1>9 DEF h

LEMMA Taken ==
  ASSUME Queues, batch = <<>>, batch' = queue, queue' = <<>>
  PROVE  Queues' /\ Waiting' = Waiting /\ Elements(queue)' = {}
<1>1. Elements(batch) = {} /\ Elements(queue') = {} /\ Distinct(queue') /\ queue' \in Seq(Functors_)
  BY ElementsEmpty
<1>. QED BY <1>1 DEF Queues, Apart, Waiting, Elements, Distinct

LEMMA QueuesSame ==
  ASSUME Queues, UNCHANGED <<batch, queue>>
  PROVE  Queues' /\ Waiting' = Waiting /\ Elements(queue)' = Elements(queue)
<1>1. Elements(queue)' = Elements(queue) /\ Elements(batch)' = Elements(batch)
  BY DEF Elements
<1>2. Distinct(queue)' /\ Distinct(batch)'
  BY DEF Queues, Apart, Distinct
<1>3. (batch \in Seq(Functors_))' /\ (queue \in Seq(Functors_))'
  BY DEF Queues
<1>. QED BY <1>1, <1>2, <1>3 DEF Queues, Apart, Waiting
-----------------------------------------------------------------------------
(***************************************************************************)
(* The poller's map R, for a connector in state s with channel c and       *)
(* connections k.                                                          *)
(***************************************************************************)
View(R, s, c, k) ==
  /\ DOMAIN R = {0, 1} \cup (IF s = "kConnecting" THEN {c} ELSE {})
                       \cup {fd \in DOMAIN k : k[fd].added}
  /\ R[0] = Entry(TimerChannel, {"R"}) /\ R[1] = Entry(WakeupChannel, {"R"})
  /\ s = "kConnecting" => R[c] = Entry(ConnectorChannel(c), {"W"})
  /\ \A fd \in DOMAIN k : k[fd].added => R[fd] = Entry(ConnChannel(fd), k[fd].events)

LEMMA PollerInvView == PollerInv <=> Sound(poller) /\ View(Registered(poller), state_, channel_, conn)
BY DEF PollerInv, View

LEMMA PollerInvNext ==
  ASSUME UNCHANGED use
  PROVE  PollerInv' <=> Sound(poller') /\ View(Registered(poller'), state_', channel_', conn')
<1>1. Sound(poller)' <=> Sound(poller')
  BY DEF Sound
<1>2. Registered(poller)' = Registered(poller')
  BY DEF Registered
<1>. QED BY <1>1, <1>2 DEF PollerInv, View

\* connect().
LEMMA ViewConnects ==
  ASSUME NEW R, NEW s, NEW c, NEW k, View(R, s, c, k), s # "kConnecting",
         NEW fd, fd \notin DOMAIN R, NEW W,
         Updated(R, W, fd, Entry(ConnectorChannel(fd), {"W"}))
  PROVE  View(W, "kConnecting", fd, k)
BY DEF View, Updated

\* removeAndResetChannel().
LEMMA ViewRemoves ==
  ASSUME NEW R, NEW c, NEW k, View(R, "kConnecting", c, k), c \notin DOMAIN k, c \notin {0, 1},
         NEW W, Removed(R, W, c), NEW s, s # "kConnecting", NEW d
  PROVE  View(W, s, d, k)
BY DEF View, Removed

\* connectEstablished().
LEMMA ViewEstablishes ==
  ASSUME NEW R, NEW s, NEW c, NEW k, View(R, s, c, k), s # "kConnecting",
         NEW fd, fd \notin DOMAIN R, NEW W,
         Updated(R, W, fd, Entry(ConnChannel(fd), {"R"})),
         NEW r, r.added = TRUE, r.events = {"R"}
  PROVE  View(W, s, c, Put(k, fd, r))
<1>. DEFINE l == Put(k, fd, r)
<1>1. DOMAIN l = DOMAIN k \cup {fd} /\ l[fd] = r /\ \A d \in DOMAIN k : d # fd => l[d] = k[d]
  BY DEF Put
<1>. HIDE DEF l
<1>2. \A d \in DOMAIN k : k[d].added => d \in DOMAIN R /\ d # fd
  BY DEF View
<1>3. {d \in DOMAIN l : l[d].added} = {d \in DOMAIN k : k[d].added} \cup {fd}
  BY <1>1, <1>2
<1>4. 0 \in DOMAIN R \ {fd} /\ 1 \in DOMAIN R \ {fd}
  BY DEF View
<1>5. /\ DOMAIN W = DOMAIN R \cup {fd} /\ W[fd] = Entry(ConnChannel(fd), {"R"})
      /\ \A d \in DOMAIN R : d # fd => W[d] = R[d]
  BY DEF Updated
<1>6. DOMAIN R = {0, 1} \cup {d \in DOMAIN k : k[d].added}
  BY DEF View
<1>7. DOMAIN W = {0, 1} \cup (IF s = "kConnecting" THEN {c} ELSE {})
                       \cup {d \in DOMAIN l : l[d].added}
  BY <1>3, <1>5, <1>6
<1>8. W[0] = Entry(TimerChannel, {"R"}) /\ W[1] = Entry(WakeupChannel, {"R"})
  BY <1>4, <1>5 DEF View
<1>9. ASSUME NEW d \in DOMAIN l, l[d].added
      PROVE  W[d] = Entry(ConnChannel(d), l[d].events)
  <2>1. CASE d = fd
    BY <1>1, <1>5, <2>1
  <2>2. CASE d # fd
    <3>1. d \in DOMAIN k /\ l[d] = k[d]
      BY <1>1, <2>2
    <3>2. W[d] = R[d] /\ R[d] = Entry(ConnChannel(d), k[d].events)
      BY <1>2, <1>5, <1>9, <2>2, <3>1 DEF View
    <3>. QED BY <3>1, <3>2
  <2>. QED BY <2>1, <2>2
<1>10. View(W, s, c, l)
  BY <1>7, <1>8, <1>9 DEF View
<1>. QED BY <1>10 DEF l

\* handleClose().
LEMMA ViewCloses ==
  ASSUME NEW R, NEW s, NEW c, NEW k, View(R, s, c, k),
         NEW fd \in DOMAIN k, k[fd].added, fd \notin {0, 1}, s = "kConnecting" => fd # c,
         NEW W, Updated(R, W, fd, Entry(ConnChannel(fd), {})),
         NEW r, r.added = TRUE, r.events = {}
  PROVE  View(W, s, c, [k EXCEPT ![fd] = r])
<1>. DEFINE l == [k EXCEPT ![fd] = r]
<1>1. DOMAIN l = DOMAIN k /\ l[fd] = r /\ \A d \in DOMAIN k : d # fd => l[d] = k[d]
  OBVIOUS
<1>. HIDE DEF l
<1>2. {d \in DOMAIN l : l[d].added} = {d \in DOMAIN k : k[d].added}
  BY <1>1
<1>3. fd \in DOMAIN R
  BY DEF View
<1>4. DOMAIN W = DOMAIN R /\ W[fd] = Entry(ConnChannel(fd), {})
  BY <1>3 DEF Updated
<1>5. \A d \in DOMAIN R : d # fd => W[d] = R[d]
  BY DEF Updated
<1>6. View(W, s, c, l)
  BY <1>1, <1>2, <1>4, <1>5 DEF View
<1>. QED BY <1>6 DEF l

\* connectDestroyed().
LEMMA ViewDestroys ==
  ASSUME NEW R, NEW s, NEW c, NEW k, View(R, s, c, k),
         NEW fd \in DOMAIN k, k[fd].added, fd \notin {0, 1}, s = "kConnecting" => fd # c,
         NEW W, Removed(R, W, fd), NEW r, r.added = FALSE
  PROVE  View(W, s, c, [k EXCEPT ![fd] = r])
<1>. DEFINE l == [k EXCEPT ![fd] = r]
<1>1. DOMAIN l = DOMAIN k /\ l[fd] = r /\ \A d \in DOMAIN k : d # fd => l[d] = k[d]
  OBVIOUS
<1>. HIDE DEF l
<1>2. {d \in DOMAIN l : l[d].added} = {d \in DOMAIN k : k[d].added} \ {fd}
  BY <1>1
<1>3. DOMAIN W = DOMAIN R \ {fd} /\ \A d \in DOMAIN R : d # fd => W[d] = R[d]
  BY DEF Removed
<1>4. \A d \in DOMAIN l : l[d].added => d \in DOMAIN k /\ d # fd /\ k[d].added
  BY <1>1
<1>5. \A d \in DOMAIN l : l[d].added => W[d] = Entry(ConnChannel(d), l[d].events)
  BY <1>1, <1>3, <1>4 DEF View
<1>6. View(W, s, c, l)
  BY <1>2, <1>3, <1>5 DEF View
<1>. QED BY <1>6 DEF l

\* The same registered connections.
LEMMA ViewSame ==
  ASSUME NEW R, NEW s, NEW c, NEW k, View(R, s, c, k), NEW l,
         DOMAIN l \subseteq DOMAIN k,
         \A fd \in DOMAIN k \ DOMAIN l : ~k[fd].added,
         \A fd \in DOMAIN l : l[fd].added = k[fd].added /\ l[fd].events = k[fd].events
  PROVE  View(R, s, c, l)
<1>1. {d \in DOMAIN l : l[d].added} = {d \in DOMAIN k : k[d].added}
  OBVIOUS
<1>. QED BY <1>1 DEF View

\* The connector leaves one channel for another without the poller.
LEMMA ViewQuiet ==
  ASSUME NEW R, NEW s, NEW c, NEW k, View(R, s, c, k), s # "kConnecting",
         NEW t, t # "kConnecting", NEW d
  PROVE  View(R, t, d, k)
BY DEF View
-----------------------------------------------------------------------------
(***************************************************************************)
(* The parts that the actions share.                                       *)
(***************************************************************************)
\* A state in which the program still runs.
Ok == /\ TypeOK /\ failed = {}
      /\ PollerInv /\ FunctorInv /\ ConnectorInv /\ ConnectionInv /\ ActiveInv /\ StopInv /\ OwnerInv

LEMMA FdsAre ==
  Fds \subseteq Nat /\ 0 \notin Fds /\ 1 \notin Fds /\ None \notin Fds
BY ClientAssumption DEF None

LEMMA NewFd ==
  ASSUME UsedFds # Fds, UsedFds \subseteq Fds
  PROVE  newFd \in Fds \ UsedFds
<1>. DEFINE T == Fds \ UsedFds
<1>1. T \subseteq Nat /\ T # {}
  BY FdsAre
<1>2. PICK x \in T : \A y \in T : ~(<<y, x>> \in OpToRel(<, Nat))
  <2>. HIDE DEF T
  <2>. QED BY <1>1, NatLessThanWellFounded, WFMin
<1>3. \A y \in T : ~(y < x)
  BY <1>1, <1>2 DEF OpToRel
<1>4. \A y \in T : x <= y
  BY <1>1, <1>3
<1>. QED BY <1>4 DEF newFd

LEMMA OkFds ==
  ASSUME Ok
  PROVE  /\ DOMAIN conn \subseteq Fds /\ channel_ \in Fds \cup {None}
         /\ connection_ # None => connection_ \in DOMAIN conn
         /\ state_ = "kConnecting" => channel_ \in Fds /\ channel_ \notin DOMAIN conn
BY FdsAre DEF Ok, TypeOK, ConnectorInv

LEMMA OkPoller ==
  ASSUME Ok
  PROVE  Sound(poller) /\ View(Registered(poller), state_, channel_, conn)
BY PollerInvView DEF Ok

\* What connect() leaves when it is called in a right state.
Attempted(n) ==
  /\ failed' = {} /\ PollerInv'
  /\ gaveUp' \in {gaveUp, TRUE}
  /\ \/ state_' = "kConnecting" /\ channel_' \in Fds \ DOMAIN conn /\ timers' = n
     \/ state_' = "kDisconnected" /\ channel_' = channel_ /\ timers' \in {n, n + 1}

LEMMA Connects ==
  ASSUME Ok, NEW n, connect(n), channel_ = None, state_ # "kConnecting", UNCHANGED <<use, conn>>
  PROVE  Attempted(n)
<1>. DEFINE R == Registered(poller)
            W == Registered(poller')
<1>1. Sound(poller) /\ View(R, state_, channel_, conn)
  BY OkPoller
<1>2. CASE /\ UsedFds # Fds
           /\ state_' = "kConnecting"
           /\ channel_' = newFd
           /\ poller' = UpdateChannel(poller, ConnectorChannel(newFd), newFd, {"W"})
           /\ timers' = n
           /\ failed' = Unless(channel_ = None, "connecting")
                    \cup Unless(UpdateLegal(poller, ConnectorChannel(newFd), newFd, {"W"}), "poller")
           /\ UNCHANGED gaveUp
  <2>1. UsedFds = DOMAIN conn /\ UsedFds \subseteq Fds
    BY OkFds DEF UsedFds
  <2>2. newFd \in Fds /\ newFd \notin DOMAIN conn
    BY <1>2, <2>1, NewFd
  <2>3. newFd \in Nat /\ newFd \notin DOMAIN R
    BY <1>1, <2>2, FdsAre DEF View
  <2>4. {"W"} \in Events /\ {"W"} # {}
    BY DEF Events
  <2>5. /\ Sound(poller') /\ UpdateLegal(poller, ConnectorChannel(newFd), newFd, {"W"})
        /\ Updated(R, W, newFd, Entry(ConnectorChannel(newFd), {"W"}))
    BY <1>1, <1>2, <2>3, <2>4, Adds
  <2>6. failed' = {}
    BY <1>2, <2>5 DEF Unless
  <2>7. View(W, "kConnecting", newFd, conn)
    <3>. HIDE DEF R, W
    <3>. QED BY <1>1, <2>3, <2>5, ViewConnects
  <2>8. PollerInv'
    BY <1>2, <2>5, <2>7, PollerInvNext
  <2>. QED BY <1>2, <2>2, <2>6, <2>8 DEF Attempted
<1>3. CASE /\ state_' = "kDisconnected"
           /\ timers' \in {n, n + 1}
           /\ gaveUp' \in {gaveUp, TRUE}
           /\ UNCHANGED <<channel_, poller, failed>>
  <2>1. View(R, "kDisconnected", channel_, conn)
    BY <1>1, ViewQuiet
  <2>2. PollerInv'
    BY <1>1, <1>3, <2>1, PollerInvNext
  <2>. QED BY <1>3, <2>2 DEF Attempted, Ok
<1>. QED BY <1>2, <1>3 DEF connect, retryTimers

\* The same while the channel of an earlier attempt is still there.
LEMMA ConnectsLate ==
  ASSUME Ok, NEW n, connect(n), channel_ # None, state_ # "kConnecting", state_' = "kConnecting"
  PROVE  /\ channel_' = newFd /\ newFd \in Fds /\ timers' = n /\ gaveUp' = gaveUp
         /\ failed' = {"connecting"}
<1>1. /\ UsedFds # Fds /\ channel_' = newFd /\ timers' = n /\ gaveUp' = gaveUp
      /\ failed' = Unless(channel_ = None, "connecting")
                    \cup Unless(UpdateLegal(poller, ConnectorChannel(newFd), newFd, {"W"}), "poller")
  BY DEF connect
<1>2. UsedFds = DOMAIN conn /\ UsedFds \subseteq Fds
  BY OkFds DEF UsedFds
<1>3. newFd \in Fds /\ newFd \notin DOMAIN conn
  BY <1>1, <1>2, NewFd
<1>4. newFd \in Nat /\ newFd \notin DOMAIN Registered(poller)
  BY <1>3, OkPoller, FdsAre DEF View
<1>5. {"W"} \in Events /\ {"W"} # {}
  BY DEF Events
<1>6. UpdateLegal(poller, ConnectorChannel(newFd), newFd, {"W"})
  BY <1>4, <1>5, OkPoller, Adds
<1>. QED BY <1>1, <1>3, <1>6 DEF Unless

LEMMA AttemptTyped ==
  ASSUME Ok, Attempted(0)
  PROVE  /\ timers' \in 0..1 /\ gaveUp' \in BOOLEAN /\ channel_' \in Fds \cup {None}
         /\ state_' \in {"kDisconnected", "kConnecting", "kConnected"}
<1>1. gaveUp \in BOOLEAN /\ channel_ \in Fds \cup {None}
  BY Zenon DEF Ok, TypeOK
<1>2. gaveUp' \in BOOLEAN
  BY <1>1, Zenon DEF Attempted
<1>3. timers' \in 0..1
  BY DEF Attempted
<1>4. /\ channel_' \in Fds \cup {None}
      /\ state_' \in {"kDisconnected", "kConnecting", "kConnected"}
  BY <1>1 DEF Attempted
<1>. QED BY <1>2, <1>3, <1>4

\* The connector's channel is disabled and removed.
LEMMA ConnectorRemoved ==
  ASSUME Ok, state_ = "kConnecting"
  PROVE  /\ RemoveConnectorLegal /\ Sound(removedConnector)
         /\ \A s, d : s # "kConnecting" => View(Registered(removedConnector), s, d, conn)
         /\ channel_ \notin DOMAIN Registered(removedConnector)
<1>. DEFINE R == Registered(poller)
            ch == ConnectorChannel(channel_)
            p == disabledConnector
            q == removedConnector
<1>1. Sound(poller) /\ View(R, "kConnecting", channel_, conn)
  BY OkPoller
<1>2. channel_ \in Fds /\ channel_ \notin DOMAIN conn /\ channel_ \notin {0, 1}
  BY OkFds, FdsAre
<1>3. channel_ \in DOMAIN R /\ R[channel_] = Entry(ch, {"W"})
  BY <1>1 DEF View
<1>4. /\ Sound(p) /\ UpdateLegal(poller, ch, channel_, {})
      /\ Updated(R, Registered(p), channel_, Entry(ch, {}))
  <2>1. {"W"} # {}
    OBVIOUS
  <2>. HIDE DEF ch
  <2>. QED BY <1>1, <1>3, <2>1, Disables DEF disabledConnector, ch
<1>5. channel_ \in DOMAIN Registered(p) /\ Registered(p)[channel_] = Entry(ch, {})
  BY <1>3, <1>4 DEF Updated
<1>6. Sound(q) /\ RemoveLegal(p, ch, channel_) /\ Removed(Registered(p), Registered(q), channel_)
  BY <1>4, <1>5, Removes DEF removedConnector
<1>7. Removed(R, Registered(q), channel_)
  <2>. HIDE DEF R, p, q
  <2>. QED BY <1>4, <1>5, <1>6 DEF Removed, Updated
<1>8. \A s, d : s # "kConnecting" => View(Registered(q), s, d, conn)
  <2>. HIDE DEF R, q
  <2>. QED BY <1>1, <1>2, <1>7, ViewRemoves
<1>. QED BY <1>4, <1>6, <1>7, <1>8 DEF RemoveConnectorLegal, Removed

\* What stopInLoop() leaves.
Stopped(on) ==
  \/ /\ state_ # "kConnecting" /\ UNCHANGED <<state_, queue, timers, failed>>
  \/ /\ state_ = "kConnecting" /\ state_' = "kDisconnected" /\ queue' = resetQueued
     /\ timers' = IF on THEN timers + 1 ELSE timers
     /\ failed' = Unless(ConnectorChannel(channel_) \notin active, "EventLoop::removeChannel")

LEMMA Stops ==
  ASSUME Ok, NEW on, stopInLoop(on), UNCHANGED <<use, channel_, conn>>
  PROVE  Stopped(on) /\ PollerInv'
<1>1. CASE state_ = "kConnecting"
  <2>1. /\ state_' = "kDisconnected" /\ queue' = resetQueued /\ poller' = removedConnector
        /\ timers' = IF on THEN timers + 1 ELSE timers
        /\ failed' = Unless(RemoveConnectorLegal, "poller")
                      \cup Unless(ConnectorChannel(channel_) \notin active, "EventLoop::removeChannel")
    BY <1>1 DEF stopInLoop, retryTimers
  <2>2. RemoveConnectorLegal /\ Sound(removedConnector)
    BY <1>1, ConnectorRemoved
  <2>3. View(Registered(removedConnector), "kDisconnected", channel_, conn)
    BY <1>1, ConnectorRemoved
  <2>4. PollerInv'
    BY <2>1, <2>2, <2>3, PollerInvNext
  <2>5. Stopped(on)
    BY <1>1, <2>1, <2>2 DEF Stopped, Unless
  <2>. QED BY <2>4, <2>5
<1>2. CASE state_ # "kConnecting"
  <2>1. UNCHANGED <<state_, poller, queue, timers, failed>>
    BY <1>2 DEF stopInLoop
  <2>2. PollerInv'
    BY <2>1, OkPoller, PollerInvNext
  <2>. QED BY <1>2, <2>1, <2>2 DEF Stopped
<1>. QED BY <1>1, <1>2
-----------------------------------------------------------------------------
(***************************************************************************)
(* The actions.                                                            *)
(***************************************************************************)
LEMMA FunctorsDiffer ==
  /\ Functor("startInLoop", None) # Functor("stopInLoop", None)
  /\ Functor("startInLoop", None) # Functor("resetChannel", None)
  /\ Functor("stopInLoop", None) # Functor("resetChannel", None)
  /\ \A fd : /\ Functor("connectDestroyed", fd) # Functor("startInLoop", None)
             /\ Functor("connectDestroyed", fd) # Functor("stopInLoop", None)
             /\ Functor("connectDestroyed", fd) # Functor("resetChannel", None)
  /\ \A c, d : Functor("connectDestroyed", c) = Functor("connectDestroyed", d) => c = d
BY FunctorEq

LEMMA ChannelsDiffer ==
  /\ TimerChannel # WakeupChannel
  /\ \A fd : /\ ConnectorChannel(fd) # TimerChannel /\ ConnectorChannel(fd) # WakeupChannel
             /\ ConnChannel(fd) # TimerChannel /\ ConnChannel(fd) # WakeupChannel
  /\ \A c, d : ConnectorChannel(c) # ConnChannel(d)
  /\ \A c, d : ConnectorChannel(c) = ConnectorChannel(d) => c = d
  /\ \A c, d : ConnChannel(c) = ConnChannel(d) => c = d
BY DEF TimerChannel, WakeupChannel, ConnectorChannel, ConnChannel

\* What the waiting functors say.
Placed ==
  /\ Pending("startInLoop") => state_ = "kDisconnected" /\ channel_ = None /\ timers = 0
  /\ Pending("resetChannel") <=> channel_ # None /\ state_ # "kConnecting"
  /\ Pending("stopInLoop") => other = "done"
  /\ \A fd \in Fds : Functor("connectDestroyed", fd) \in Waiting <=>
        fd \in DOMAIN conn /\ conn[fd].added /\ conn[fd].state_ = "kDisconnected"

LEMMA OkFunctors ==
  ASSUME Ok
  PROVE  Queues /\ Placed
<1>1. FunctorInv /\ batch \in Seq(Functors_) /\ queue \in Seq(Functors_)
  BY DEF Ok, TypeOK
<1>. QED BY <1>1 DEF FunctorInv, Queues, Apart, Placed

LEMMA Together ==
  ASSUME TypeOK', NoOtherAssertion', Queues', Placed',
         PollerInv', ConnectorInv', ConnectionInv', ActiveInv', StopInv', OwnerInv'
  PROVE  IInv'
<1>1. FunctorInv'
  BY DEF FunctorInv, Queues, Apart, Placed
<1>. QED BY <1>1 DEF IInv

LEMMA Partly ==
  ASSUME TypeOK', NoOtherAssertion', failed' # {}
  PROVE  IInv'
BY DEF IInv

LEMMA OtherStores ==
  ASSUME Ok, otherStores, UNCHANGED use
  PROVE  IInv'
<1>. USE DEF clientVars, connectorVars, connVars, loopVars, history
<1>1. Queues' /\ Waiting' = Waiting /\ Elements(queue)' = Elements(queue)
  BY OkFunctors, QueuesSame DEF otherStores
<1>2. TypeOK'
  BY <1>1 DEF Ok, TypeOK, otherStores, Queues
<1>3. NoOtherAssertion'
  BY DEF Ok, otherStores, NoOtherAssertion
<1>4. PollerInv'
  BY OkPoller, PollerInvNext DEF otherStores
<1>5. Placed'
  BY <1>1, OkFunctors DEF Placed, Pending, otherStores
<1>6. ConnectorInv'
  BY DEF Ok, ConnectorInv, otherStores
<1>7. ConnectionInv'
  BY DEF Ok, ConnectionInv, Live, otherStores
<1>8. ActiveInv'
  BY <1>1 DEF Ok, ActiveInv, Live, Pending, otherStores
<1>9. StopInv'
  BY <1>1, OkFunctors DEF Ok, StopInv, Pending, otherStores, Placed
<1>10. OwnerInv'
  BY <1>1 DEF Ok, OwnerInv, Pending, otherStores
<1>. QED BY <1>1, <1>2, <1>3, <1>4, <1>5, <1>6, <1>7, <1>8, <1>9, <1>10, Together

LEMMA OtherStops ==
  ASSUME Ok, otherStops, UNCHANGED use
  PROVE  IInv'
<1>. USE DEF clientVars, connectorVars, connVars, loopVars, history
<1>1. Queues' /\ Waiting' = Waiting /\ Elements(queue)' = Elements(queue)
  BY OkFunctors, QueuesSame DEF otherStops
<1>2. TypeOK'
  BY <1>1 DEF Ok, TypeOK, otherStops, Queues
<1>3. NoOtherAssertion'
  <2>1. client # "up" => "destroy" \in use.calls /\ use.thread
    BY DEF Ok, TypeOK, OwnerInv, otherStops
  <2>. QED BY <2>1 DEF Ok, otherStops, NoOtherAssertion, MayFail, Unless
<1>4. PollerInv'
  BY OkPoller, PollerInvNext DEF otherStops
<1>5. Placed'
  BY <1>1, OkFunctors DEF Placed, Pending, otherStops
<1>6. ConnectorInv'
  BY DEF Ok, ConnectorInv, otherStops
<1>7. ConnectionInv'
  BY DEF Ok, ConnectionInv, Live, otherStops
<1>8. ActiveInv'
  BY <1>1 DEF Ok, ActiveInv, Live, Pending, otherStops
<1>9. StopInv'
  BY <1>1, OkFunctors DEF Ok, StopInv, Pending, otherStops, Placed
<1>10. OwnerInv'
  BY <1>1 DEF Ok, OwnerInv, Pending, otherStops
<1>. QED BY <1>1, <1>2, <1>3, <1>4, <1>5, <1>6, <1>7, <1>8, <1>9, <1>10, Together

LEMMA OtherQueues ==
  ASSUME Ok, otherQueues, UNCHANGED use
  PROVE  IInv'
<1>. USE DEF clientVars, connectorVars, connVars, loopVars, history
<1>. DEFINE f == Functor("stopInLoop", None)
<1>0. f \notin Waiting
  BY OkFunctors DEF Placed, Pending, otherQueues
<1>1. /\ Queues' /\ Waiting' = Waiting \cup {f}
      /\ Elements(queue)' = Elements(queue) \cup {f}
  BY <1>0, OkFunctors, Queued, FunctorType DEF otherQueues
<1>. HIDE DEF f
<1>2. TypeOK'
  BY <1>1 DEF Ok, TypeOK, otherQueues, Queues
<1>3. NoOtherAssertion'
  <2>1. Freed => "destroy" \in use.calls /\ use.thread
    BY DEF Ok, OwnerInv, otherQueues, Freed
  <2>. QED BY <2>1 DEF Ok, otherQueues, NoOtherAssertion, MayFail, Unless
<1>4. PollerInv'
  BY OkPoller, PollerInvNext DEF otherQueues
<1>5. Placed'
  BY <1>1, OkFunctors, FunctorsDiffer DEF Placed, Pending, otherQueues, f
<1>6. ConnectorInv'
  BY DEF Ok, ConnectorInv, otherQueues
<1>7. ConnectionInv'
  BY DEF Ok, ConnectionInv, Live, otherQueues
<1>8. ActiveInv'
  BY <1>1, FunctorsDiffer DEF Ok, ActiveInv, Live, Pending, otherQueues, f
<1>9. StopInv'
  BY <1>1, OkFunctors DEF Ok, StopInv, Pending, otherQueues, Placed, f
<1>10. OwnerInv'
  BY <1>1, FunctorsDiffer DEF Ok, OwnerInv, Pending, otherQueues, f
<1>. QED BY <1>1, <1>2, <1>3, <1>4, <1>5, <1>6, <1>7, <1>8, <1>9, <1>10, Together

LEMMA PeerCloses ==
  ASSUME Ok, NEW fd \in DOMAIN conn, peerCloses(fd), UNCHANGED use
  PROVE  IInv'
<1>. USE DEF clientVars, connectorVars, connVars, loopVars, history
<1>1. Queues' /\ Waiting' = Waiting /\ Elements(queue)' = Elements(queue)
  BY OkFunctors, QueuesSame DEF peerCloses
<1>2. TypeOK'
  BY <1>1 DEF Ok, TypeOK, peerCloses, Queues
<1>3. NoOtherAssertion'
  BY DEF Ok, peerCloses, NoOtherAssertion
<1>4. PollerInv'
  BY OkPoller, PollerInvNext DEF peerCloses
<1>5. Placed'
  BY <1>1, OkFunctors DEF Placed, Pending, peerCloses
<1>6. ConnectorInv'
  BY DEF Ok, ConnectorInv, peerCloses
<1>7. ConnectionInv'
  BY DEF Ok, ConnectionInv, Live, peerCloses
<1>8. ActiveInv'
  BY <1>1 DEF Ok, ActiveInv, Live, Pending, peerCloses
<1>9. StopInv'
  BY <1>1 DEF Ok, StopInv, Pending, peerCloses
<1>10. OwnerInv'
  BY <1>1 DEF Ok, OwnerInv, Pending, peerCloses
<1>. QED BY <1>1, <1>2, <1>3, <1>4, <1>5, <1>6, <1>7, <1>8, <1>9, <1>10, Together

\* The connections afterwards, when only the state of a live one may have changed.
Alike ==
  /\ DOMAIN conn' = DOMAIN conn /\ conn' \in [DOMAIN conn -> Connection]
  /\ \A d \in DOMAIN conn :
        /\ conn'[d].added = conn[d].added /\ conn'[d].events = conn[d].events
        /\ conn'[d].state_ = "kDisconnected" <=> conn[d].state_ = "kDisconnected"
        /\ closeLegal(conn[d]) => closeLegal(conn'[d])

LEMMA DisconnectAlike ==
  ASSUME Ok, disconnect
  PROVE  Alike
<1>. DEFINE fd == connection_
            k == shutdownInLoop([conn[fd] EXCEPT !.state_ = "kDisconnecting"])
<1>1. CASE fd # None /\ conn[fd].state_ = "kConnected"
  <2>1. fd \in DOMAIN conn /\ conn[fd] \in Connection
    BY <1>1 DEF Ok, TypeOK
  <2>2. /\ k \in Connection /\ k.state_ = "kDisconnecting"
        /\ k.events = conn[fd].events /\ k.added = conn[fd].added
    BY <2>1 DEF shutdownInLoop, Connection, States
  <2>3. conn' = [conn EXCEPT ![fd] = k]
    BY <1>1, <2>1 DEF disconnect
  <2>. HIDE DEF k
  <2>4. DOMAIN conn' = DOMAIN conn /\ conn' \in [DOMAIN conn -> Connection]
    BY <2>2, <2>3 DEF Ok, TypeOK
  <2>5. \A d \in DOMAIN conn : d # fd => conn'[d] = conn[d]
    BY <2>3
  <2>6. conn'[fd] = k
    BY <2>1, <2>3
  <2>. QED BY <1>1, <2>2, <2>4, <2>5, <2>6 DEF Alike, closeLegal
<1>2. CASE ~(fd # None /\ conn[fd].state_ = "kConnected")
  <2>1. conn' = conn /\ conn \in [DOMAIN conn -> Connection]
    BY <1>2 DEF disconnect, Ok, TypeOK
  <2>. QED BY <2>1 DEF Alike
<1>. QED BY <1>1, <1>2

LEMMA Disconnect ==
  ASSUME Ok, disconnect, UNCHANGED use
  PROVE  IInv'
<1>. USE DEF clientVars, connectorVars, connVars, loopVars, history
<1>0. Alike
  BY DisconnectAlike
<1>1. Queues' /\ Waiting' = Waiting /\ Elements(queue)' = Elements(queue)
  BY OkFunctors, QueuesSame DEF disconnect
<1>2. TypeOK'
  <2>1. /\ connect_' = FALSE
        /\ UNCHANGED <<client, hack, connection_, connectorOn, channel_, state_, timers,
                       closeCallback_, peer, phase, active, other, stopped, overtaken, gaveUp>>
    BY DEF disconnect
  <2>2. queue' \in Seq(Functors_) /\ batch' \in Seq(Functors_)
    BY <1>1 DEF Queues
  <2>3. DOMAIN conn' = DOMAIN conn /\ conn' \in [DOMAIN conn' -> Connection]
    BY <1>0 DEF Alike
  <2>4. connect_' \in BOOLEAN /\ hack' \in BOOLEAN /\ connectorOn' \in BOOLEAN
    BY <2>1, Zenon DEF Ok, TypeOK
  <2>5. {stopped', overtaken', gaveUp'} \subseteq BOOLEAN
    BY <2>1, Zenon DEF Ok, TypeOK
  <2>6. /\ connection_' \in DOMAIN conn' \cup {None} /\ DOMAIN conn' \subseteq Fds
        /\ closeCallback_' \in [DOMAIN conn' -> {"client", "detail"}]
        /\ peer' \in [DOMAIN conn' -> {"open", "closed"}]
    BY <2>1, <2>3 DEF Ok, TypeOK
  <2>. QED BY <2>1, <2>2, <2>3, <2>4, <2>5, <2>6 DEF Ok, TypeOK
<1>3. NoOtherAssertion'
  BY DEF Ok, disconnect, NoOtherAssertion
<1>4. PollerInv'
  <2>1. UNCHANGED <<poller, state_, channel_>>
    BY DEF disconnect
  <2>2. View(Registered(poller), state_, channel_, conn')
    BY <1>0, OkPoller, ViewSame DEF Alike
  <2>. QED BY <2>1, <2>2, OkPoller, PollerInvNext
<1>5. Placed'
  BY <1>0, <1>1, OkFunctors DEF Placed, Pending, disconnect, Alike
<1>6. ConnectorInv'
  BY <1>0 DEF Ok, ConnectorInv, disconnect, Alike
<1>7. ConnectionInv'
  BY <1>0 DEF Ok, ConnectionInv, Live, disconnect, Alike
<1>8. ActiveInv'
  BY <1>0, <1>1 DEF Ok, ActiveInv, Live, Pending, disconnect, Alike
<1>9. StopInv'
  BY <1>1 DEF Ok, StopInv, Pending, disconnect
<1>10. OwnerInv'
  BY <1>1 DEF Ok, OwnerInv, Pending, disconnect
<1>. QED BY <1>1, <1>2, <1>3, <1>4, <1>5, <1>6, <1>7, <1>8, <1>9, <1>10, Together

\* What poll() can report.
LEMMA ReadyOnly ==
  ASSUME Ok
  PROVE  /\ Ready \subseteq {TimerChannel} \cup {ConnectorChannel(fd) : fd \in Fds}
                                           \cup {ConnChannel(fd) : fd \in Fds}
         /\ TimerChannel \in Ready => use.slow \/ ((timers > 0 \/ hack) /\ ~Pending("resetChannel"))
         /\ \A fd \in Fds : ConnectorChannel(fd) \in Ready => fd = channel_ /\ state_ = "kConnecting"
         /\ \A fd \in Fds : ConnChannel(fd) \in Ready => Live(fd)
<1>. DEFINE R == Registered(poller)
<1>1. View(R, state_, channel_, conn) /\ Watched = Looked(R)
  BY OkPoller, Watches
<1>2. ASSUME NEW ch \in Ready
      PROVE  \E fd \in DOMAIN R : ch = R[fd].channel /\ R[fd].events # {}
  <2>1. PICK w \in Watched : ch = w[1]
    BY DEF Ready
  <2>. QED BY <2>1, <1>1 DEF Looked
<1>. HIDE DEF R
<1>3. ASSUME NEW ch \in Ready
      PROVE  \/ ch = TimerChannel \/ ch = WakeupChannel
             \/ ch = ConnectorChannel(channel_) /\ state_ = "kConnecting"
             \/ \E fd \in DOMAIN conn : ch = ConnChannel(fd) /\ conn[fd].events # {}
  <2>1. PICK fd \in DOMAIN R : ch = R[fd].channel /\ R[fd].events # {}
    BY <1>2
  <2>2. \A c, e : Entry(c, e).channel = c /\ Entry(c, e).events = e
    BY DEF Entry
  <2>3. CASE fd = 0
    BY <1>1, <2>1, <2>2, <2>3 DEF View
  <2>4. CASE fd = 1
    BY <1>1, <2>1, <2>2, <2>4 DEF View
  <2>5. CASE fd = channel_ /\ state_ = "kConnecting"
    BY <1>1, <2>1, <2>2, <2>5 DEF View
  <2>6. CASE fd \in DOMAIN conn /\ conn[fd].added
    BY <1>1, <2>1, <2>2, <2>6 DEF View
  <2>. QED BY <1>1, <2>3, <2>4, <2>5, <2>6 DEF View
<1>4. TimerChannel \in Ready => use.slow \/ ((timers > 0 \/ hack) /\ ~Pending("resetChannel"))
  <2>. SUFFICES ASSUME TimerChannel \in Ready
                PROVE  use.slow \/ ((timers > 0 \/ hack) /\ ~Pending("resetChannel"))
    OBVIOUS
  <2>1. Occurs(TimerChannel) /\ TimerChannel[1] = "timer"
    BY DEF Ready, TimerChannel
  <2>. QED BY <2>1 DEF Occurs
<1>5. WakeupChannel \notin Ready
  BY DEF Ready, Occurs, WakeupChannel
<1>6. \A fd \in DOMAIN conn : fd \in Fds /\ (conn[fd].events # {} => Live(fd))
  BY OkFds DEF Ok, ConnectionInv
<1>7. state_ = "kConnecting" => channel_ \in Fds
  BY OkFds
<1>8. \A fd \in Fds : ConnectorChannel(fd) \in Ready => fd = channel_ /\ state_ = "kConnecting"
  BY <1>3, ChannelsDiffer
<1>9. \A fd \in Fds : ConnChannel(fd) \in Ready => Live(fd)
  BY <1>3, <1>6, ChannelsDiffer
<1>10. Ready \subseteq {TimerChannel} \cup {ConnectorChannel(fd) : fd \in Fds}
                                      \cup {ConnChannel(fd) : fd \in Fds}
  BY <1>3, <1>5, <1>6, <1>7
<1>. QED BY <1>4, <1>8, <1>9, <1>10

LEMMA Poll ==
  ASSUME Ok, poll, UNCHANGED use
  PROVE  IInv'
<1>. USE DEF clientVars, connectorVars, connVars, loopVars, history
<1>1. Queues' /\ Waiting' = Waiting /\ Elements(queue)' = Elements(queue)
  BY OkFunctors, QueuesSame DEF poll
<1>2. active' \subseteq Ready /\ phase = "poll" /\ phase' = "events"
  BY DEF poll
<1>3. TypeOK'
  <2>1. active' \subseteq Channels
    BY <1>2, ReadyOnly DEF Channels
  <2>. QED BY <1>1, <2>1 DEF Ok, TypeOK, poll, Queues
<1>4. NoOtherAssertion'
  BY DEF Ok, poll, NoOtherAssertion
<1>5. PollerInv'
  BY OkPoller, PollerInvNext DEF poll
<1>6. Placed'
  BY <1>1, OkFunctors DEF Placed, Pending, poll
<1>7. ConnectorInv'
  BY DEF Ok, ConnectorInv, poll
<1>8. ConnectionInv'
  BY DEF Ok, ConnectionInv, Live, poll
<1>9. ActiveInv'
  <2>1. state_ = "kConnected" => channel_ = None
    <3>1. batch = <<>> /\ Waiting = Elements(queue)
      BY <1>2, ElementsEmpty DEF Ok, ActiveInv, Waiting
    <3>. QED BY <3>1, <1>2, OkFunctors DEF Ok, ActiveInv, Placed, Pending
  <2>2. \A fd \in Fds : ConnChannel(fd) \in active' => Live(fd) /\ channel_ = None
    BY <1>2, <2>1, ReadyOnly DEF Ok, ConnectionInv, Live
  <2>3. \A fd \in Fds : ConnectorChannel(fd) \in active' => fd = channel_ /\ state_ = "kConnecting"
    BY <1>2, ReadyOnly
  <2>4. TimerChannel \in active' /\ ~use.slow => IF timers > 0 THEN ~Pending("resetChannel") ELSE hack
    BY <1>2, ReadyOnly
  <2>5. WakeupChannel \notin active'
    BY <1>2, ReadyOnly, ChannelsDiffer
  <2>6. UNCHANGED <<state_, channel_, client, timers, hack, conn, batch>>
    BY DEF poll
  <2>. QED BY <1>1, <1>2, <2>2, <2>3, <2>4, <2>5, <2>6 DEF Ok, ActiveInv, Live, Pending
<1>10. StopInv'
  BY <1>1 DEF Ok, StopInv, Pending, poll
<1>11. OwnerInv'
  <2>1. batch = <<>> /\ Waiting = Elements(queue)
    BY <1>2, ElementsEmpty DEF Ok, ActiveInv, Waiting
  <2>2. Pending("startInLoop") => client = "up" /\ timers = 0 /\ ~hack
    BY <1>2, <2>1, OkFunctors DEF Placed, Pending, Ok, OwnerInv, ConnectorInv
  <2>3. Pending("startInLoop") /\ ~use.slow => TimerChannel \notin active'
    BY <1>2, <2>2, ReadyOnly
  <2>4. UNCHANGED <<client, other, hack>>
    BY DEF poll
  <2>. QED BY <1>1, <1>2, <2>2, <2>3, <2>4 DEF Ok, OwnerInv, Pending
<1>. QED BY <1>1, <1>3, <1>4, <1>5, <1>6, <1>7, <1>8, <1>9, <1>10, <1>11, Together

LEMMA TakeBatch ==
  ASSUME Ok, takeBatch, UNCHANGED use
  PROVE  IInv'
<1>. USE DEF clientVars, connectorVars, connVars, loopVars, history
<1>0. batch = <<>>
  BY DEF Ok, ActiveInv, takeBatch
<1>1. Queues' /\ Waiting' = Waiting /\ Elements(queue)' = {}
  BY <1>0, OkFunctors, Taken DEF takeBatch
<1>2. TypeOK'
  BY <1>1 DEF Ok, TypeOK, takeBatch, Queues
<1>3. NoOtherAssertion'
  BY DEF Ok, takeBatch, NoOtherAssertion
<1>4. PollerInv'
  BY OkPoller, PollerInvNext DEF takeBatch
<1>5. Placed'
  BY <1>1, OkFunctors DEF Placed, Pending, takeBatch
<1>6. ConnectorInv'
  BY DEF Ok, ConnectorInv, takeBatch
<1>7. ConnectionInv'
  BY DEF Ok, ConnectionInv, Live, takeBatch
<1>8. ActiveInv'
  BY <1>1 DEF Ok, ActiveInv, Live, Pending, takeBatch
<1>9. StopInv'
  BY <1>1 DEF Ok, StopInv, Pending, takeBatch
<1>10. OwnerInv'
  BY <1>1 DEF Ok, OwnerInv, Pending, takeBatch
<1>. QED BY <1>1, <1>2, <1>3, <1>4, <1>5, <1>6, <1>7, <1>8, <1>9, <1>10, Together

LEMMA EndBatch ==
  ASSUME Ok, endBatch, UNCHANGED use
  PROVE  IInv'
<1>. USE DEF clientVars, connectorVars, connVars, loopVars, history
<1>1. Queues' /\ Waiting' = Waiting /\ Elements(queue)' = Elements(queue)
  BY OkFunctors, QueuesSame DEF endBatch
<1>2. /\ DOMAIN conn' = {fd \in DOMAIN conn : Kept(fd)}
      /\ \A fd \in DOMAIN conn' : conn'[fd] = conn[fd] /\ closeCallback_'[fd] = closeCallback_[fd]
      /\ UNCHANGED <<use, poller, state_, channel_, timers, other, connection_, client, connectorOn,
                     hack, active, batch>>
      /\ phase = "functors" /\ phase' = "poll" /\ batch = <<>>
  BY DEF endBatch
<1>3. \A fd \in DOMAIN conn \ DOMAIN conn' : ~conn[fd].added /\ ~Live(fd) /\ connection_ # fd
  <2>1. Waiting = Elements(queue)
    BY <1>2, ElementsEmpty DEF Waiting
  <2>2. DOMAIN conn \subseteq Fds
    BY OkFds
  <2>. QED BY <1>2, <2>1, <2>2, OkFunctors DEF Kept, Placed, Live
<1>4. TypeOK'
  <2>1. conn' \in [DOMAIN conn' -> Connection]
    BY DEF Ok, TypeOK, endBatch
  <2>2. closeCallback_' \in [DOMAIN conn' -> {"client", "detail"}]
    BY DEF Ok, TypeOK, endBatch
  <2>3. peer' \in [DOMAIN conn' -> {"open", "closed"}]
    BY DEF Ok, TypeOK, endBatch
  <2>4. connection_' \in DOMAIN conn' \cup {None} /\ DOMAIN conn' \subseteq Fds
    BY <1>2, <1>3 DEF Ok, TypeOK
  <2>. QED BY <1>1, <2>1, <2>2, <2>3, <2>4 DEF Ok, TypeOK, endBatch, Queues
<1>5. NoOtherAssertion'
  BY DEF Ok, endBatch, NoOtherAssertion
<1>6. PollerInv'
  <2>1. View(Registered(poller), state_, channel_, conn')
    BY <1>2, <1>3, OkPoller, ViewSame
  <2>. QED BY <1>2, <2>1, OkPoller, PollerInvNext
<1>7. Placed'
  BY <1>1, <1>2, <1>3, OkFunctors DEF Placed, Pending
<1>8. ConnectorInv'
  BY <1>2 DEF Ok, ConnectorInv
<1>9. ConnectionInv'
  BY <1>2, <1>3 DEF Ok, ConnectionInv, Live
<1>10. ActiveInv'
  <2>1. active = {}
    BY <1>2 DEF Ok, ActiveInv
  <2>2. ~(state_ = "kConnected" /\ Functor("resetChannel", None) \in Elements(queue))
    BY <1>2 DEF Ok, ActiveInv
  <2>. QED BY <1>1, <1>2, <2>1, <2>2 DEF ActiveInv
<1>11. StopInv'
  BY <1>1 DEF Ok, StopInv, Pending, endBatch
<1>12. OwnerInv'
  BY <1>1, <1>2 DEF Ok, OwnerInv, Pending
<1>. QED BY <1>1, <1>4, <1>5, <1>6, <1>7, <1>8, <1>9, <1>10, <1>11, <1>12, Together

\* The functor that is called.
LEMMA Heads ==
  ASSUME Ok, NEW op, calls(op)
  PROVE  /\ Head(batch) \in Functors_ /\ Head(batch) \in Waiting
         /\ Head(batch) = Functor(op, Head(batch).fd)
         /\ op \in {"startInLoop", "stopInLoop", "resetChannel"} => Head(batch) = Functor(op, None)
         /\ op = "connectDestroyed" => Head(batch).fd \in Fds
         /\ active = {} /\ phase = "functors"
<1>1. Queues /\ batch # <<>> /\ Head(batch).op = op /\ phase = "functors"
  BY OkFunctors DEF calls
<1>2. Head(batch) \in Functors_ /\ Head(batch) \in Elements(batch)
  BY <1>1, ElementsTail DEF Queues
<1>3. active = {}
  BY <1>1 DEF Ok, ActiveInv
<1>. QED BY <1>1, <1>2, <1>3, FunctorType DEF Waiting

LEMMA CallResetChannel ==
  ASSUME Ok, callResetChannel, UNCHANGED use
  PROVE  IInv'
<1>. USE DEF clientVars, connectorVars, connVars, loopVars, history
<1>. DEFINE f == Functor("resetChannel", None)
<1>0. f \in Waiting /\ active = {} /\ phase = "functors" /\ Head(batch) = f
  BY Heads DEF callResetChannel
<1>1. Queues' /\ Waiting' = Waiting \ {f} /\ Elements(queue)' = Elements(queue)
  BY <1>0, OkFunctors, Called DEF callResetChannel, calls
<1>. HIDE DEF f
<1>2. TypeOK'
  BY <1>1 DEF Ok, TypeOK, callResetChannel, calls, Queues
<1>3. NoOtherAssertion'
  BY DEF Ok, callResetChannel, NoOtherAssertion
<1>4. channel_ # None /\ state_ # "kConnecting"
  BY <1>0, OkFunctors DEF Placed, Pending, f
<1>5. PollerInv'
  <2>1. View(Registered(poller), state_, None, conn)
    BY <1>4, OkPoller, ViewQuiet
  <2>. QED BY <2>1, OkPoller, PollerInvNext DEF callResetChannel
<1>6. Placed'
  BY <1>1, <1>4, OkFunctors, FunctorsDiffer DEF Placed, Pending, callResetChannel, calls, f
<1>7. ConnectorInv'
  BY <1>4 DEF Ok, ConnectorInv, callResetChannel, calls
<1>8. ConnectionInv'
  BY DEF Ok, ConnectionInv, Live, callResetChannel, calls
<1>9. ActiveInv'
  BY <1>0, <1>1 DEF Ok, ActiveInv, callResetChannel, calls
<1>10. StopInv'
  BY <1>1 DEF Ok, StopInv, Pending, callResetChannel, calls
<1>11. OwnerInv'
  BY <1>0, <1>1 DEF Ok, OwnerInv, Pending, callResetChannel, calls
<1>. QED BY <1>1, <1>2, <1>3, <1>5, <1>6, <1>7, <1>8, <1>9, <1>10, <1>11, Together

LEMMA CallStartInLoop ==
  ASSUME Ok, callStartInLoop, UNCHANGED use
  PROVE  IInv'
<1>. USE DEF clientVars, connectorVars, connVars, loopVars, history
<1>. DEFINE f == Functor("startInLoop", None)
<1>0. f \in Waiting /\ active = {} /\ phase = "functors" /\ Head(batch) = f
  BY Heads DEF callStartInLoop
<1>1. Queues' /\ Waiting' = Waiting \ {f} /\ Elements(queue)' = Elements(queue)
  BY <1>0, OkFunctors, Called DEF callStartInLoop, calls
<1>. HIDE DEF f
<1>2. state_ = "kDisconnected" /\ channel_ = None /\ timers = 0
  BY <1>0, OkFunctors DEF Placed, Pending, f
<1>3. CASE Freed
  <2>1. failed' = {"Connector"} /\ UNCHANGED <<state_, channel_, timers, gaveUp>>
    BY <1>3 DEF callStartInLoop
  <2>2. client = "gone" /\ ~hack
    BY <1>3 DEF Freed
  <2>3. "destroy" \in use.calls /\ use.slow
    BY <1>0, <2>2 DEF Ok, OwnerInv, Pending, f
  <2>4. TypeOK'
    BY <1>1, <2>1 DEF Ok, TypeOK, callStartInLoop, calls, Queues
  <2>5. NoOtherAssertion'
    BY <2>1, <2>3 DEF NoOtherAssertion, MayFail
  <2>. QED BY <2>1, <2>4, <2>5, Partly
<1>. SUFFICES ASSUME ~Freed PROVE IInv'
  BY <1>3
<1>12. Attempted(0) /\ (connectorOn \/ state_' = "kDisconnected")
  <2>1. CASE connectorOn
    BY <1>2, <2>1, Connects DEF callStartInLoop, startInLoop, Wanted
  <2>2. CASE ~connectorOn
    <3>1. timers' = 0 /\ UNCHANGED <<state_, channel_, poller, gaveUp, failed, conn>>
      BY <1>2, <2>2 DEF callStartInLoop, startInLoop, Wanted, lastPointer, Unless, Ok
    <3>2. PollerInv'
      BY <3>1, OkPoller, PollerInvNext
    <3>. QED BY <1>2, <3>1, <3>2 DEF Attempted, Ok
  <2>. QED BY <2>1, <2>2
<1>4. TypeOK'
  <2>1. /\ timers' \in 0..1 /\ gaveUp' \in BOOLEAN /\ channel_' \in Fds \cup {None}
        /\ state_' \in {"kDisconnected", "kConnecting", "kConnected"}
    BY <1>12, AttemptTyped
  <2>. QED BY <1>1, <2>1 DEF Ok, TypeOK, callStartInLoop, calls, Queues
<1>5. NoOtherAssertion'
  BY <1>12 DEF Attempted, NoOtherAssertion
<1>6. PollerInv'
  BY <1>12 DEF Attempted
<1>7. Placed'
  BY <1>1, <1>2, <1>12, OkFunctors, FunctorsDiffer
     DEF Attempted, Placed, Pending, callStartInLoop, calls, f
<1>8. ConnectorInv'
  BY <1>2, <1>12, FdsAre DEF Attempted, Ok, ConnectorInv, callStartInLoop, calls
<1>9. ConnectionInv'
  BY <1>2 DEF Ok, ConnectionInv, Live, callStartInLoop, calls
<1>10. ActiveInv'
  BY <1>0, <1>1, <1>12 DEF Attempted, Ok, ActiveInv, callStartInLoop, calls
<1>11. StopInv'
  BY <1>1 DEF Ok, StopInv, Pending, callStartInLoop, calls
<1>13. OwnerInv'
  BY <1>0, <1>1 DEF Ok, OwnerInv, Pending, callStartInLoop, calls, f
<1>. QED BY <1>1, <1>4, <1>5, <1>6, <1>7, <1>8, <1>9, <1>10, <1>11, <1>13, Together

LEMMA CallStopInLoop ==
  ASSUME Ok, callStopInLoop, UNCHANGED use
  PROVE  IInv'
<1>. USE DEF clientVars, connectorVars, connVars, loopVars, history
<1>. DEFINE f == Functor("stopInLoop", None)
            g == Functor("resetChannel", None)
<1>0. f \in Waiting /\ active = {} /\ phase = "functors" /\ Head(batch) = f
  BY Heads DEF callStopInLoop
<1>5. CASE Freed
  <2>1. failed' = {"Connector"} /\ UNCHANGED <<state_, timers, queue, stopped>>
    BY <1>5 DEF callStopInLoop
  <2>2. "destroy" \in use.calls /\ use.thread
    BY <1>0, <1>5 DEF Ok, OwnerInv, Pending, Freed
  <2>3. Queues'
    BY <1>0, <2>1, OkFunctors, Called DEF callStopInLoop, calls
  <2>4. TypeOK'
    BY <2>1, <2>3 DEF Ok, TypeOK, callStopInLoop, calls, Queues
  <2>5. NoOtherAssertion'
    BY <2>1, <2>2 DEF NoOtherAssertion, MayFail
  <2>. QED BY <2>1, <2>4, <2>5, Partly
<1>. SUFFICES ASSUME ~Freed PROVE IInv'
  BY <1>5
<1>1. Stopped(connectorOn) /\ PollerInv'
  BY Stops DEF callStopInLoop
<1>2. failed' = {}
  BY <1>0, <1>1 DEF Stopped, Unless, Ok
<1>3. CASE state_ # "kConnecting"
  <2>1. UNCHANGED <<state_, queue, timers>>
    BY <1>1, <1>3 DEF Stopped
  <2>2. Queues' /\ Waiting' = Waiting \ {f} /\ Elements(queue)' = Elements(queue)
    BY <1>0, <2>1, OkFunctors, Called DEF callStopInLoop, calls
  <2>. HIDE DEF f, g
  <2>3. TypeOK'
    BY <2>1, <2>2 DEF Ok, TypeOK, callStopInLoop, calls, Queues
  <2>4. Placed'
    BY <2>1, <2>2, OkFunctors, FunctorsDiffer DEF Placed, Pending, callStopInLoop, calls, f
  <2>5. ConnectorInv'
    BY <2>1 DEF Ok, ConnectorInv, callStopInLoop, calls
  <2>6. ConnectionInv'
    BY <2>1 DEF Ok, ConnectionInv, Live, callStopInLoop, calls
  <2>7. ActiveInv'
    BY <1>0, <2>1, <2>2 DEF Ok, ActiveInv, callStopInLoop, calls
  <2>8. StopInv'
    BY <1>0, <2>1, <2>2 DEF Ok, StopInv, Pending, callStopInLoop, calls, f
  <2>9. NoOtherAssertion'
    BY <1>2 DEF NoOtherAssertion
  <2>10. OwnerInv'
    BY <1>0, <2>1, <2>2 DEF Ok, OwnerInv, Pending, callStopInLoop, calls
  <2>. QED BY <1>1, <2>2, <2>3, <2>4, <2>5, <2>6, <2>7, <2>8, <2>9, <2>10, Together
<1>4. CASE state_ = "kConnecting"
  <2>1. /\ state_' = "kDisconnected" /\ queue' = Append(queue, g)
        /\ timers' = IF connectorOn THEN timers + 1 ELSE timers
    BY <1>1, <1>4 DEF Stopped, resetQueued
  <2>2. timers = 0 /\ channel_ # None /\ ~Pending("startInLoop") /\ g \notin Waiting
    BY <1>4, OkFunctors DEF Placed, Pending, Ok, TypeOK, ConnectorInv
  <2>3. /\ Queues' /\ Waiting' = (Waiting \ {f}) \cup {g}
        /\ Elements(queue)' = Elements(queue) \cup {g}
    BY <1>0, <2>1, <2>2, OkFunctors, CalledQueued, FunctorType DEF callStopInLoop, calls
  <2>. HIDE DEF f, g
  <2>4. TypeOK'
    BY <2>1, <2>2, <2>3 DEF Ok, TypeOK, callStopInLoop, calls, Queues
  <2>5. Placed'
    BY <1>4, <2>1, <2>2, <2>3, OkFunctors, FunctorsDiffer
       DEF Placed, Pending, callStopInLoop, calls, f, g
  <2>6. ConnectorInv'
    BY <1>4, <2>1, <2>2 DEF Ok, ConnectorInv, callStopInLoop, calls
  <2>7. ConnectionInv'
    BY <1>4, <2>1 DEF Ok, ConnectionInv, Live, callStopInLoop, calls
  <2>8. ActiveInv'
    BY <1>0, <2>1, <2>3 DEF Ok, ActiveInv, callStopInLoop, calls
  <2>9. StopInv'
    BY <1>0, <2>1, <2>3, FunctorsDiffer DEF Ok, StopInv, Pending, callStopInLoop, calls, f, g
  <2>10. NoOtherAssertion'
    BY <1>2 DEF NoOtherAssertion
  <2>11. OwnerInv'
    <3>1. ~Pending("startInLoop")' /\ Functor("startInLoop", None) \notin Elements(queue)'
      BY <2>2, <2>3, FunctorsDiffer DEF Pending, Waiting, g
    <3>2. ~Pending("stopInLoop")'
      BY <2>3, FunctorsDiffer DEF Pending, f, g
    <3>. QED BY <3>1, <3>2 DEF Ok, OwnerInv, callStopInLoop, calls
  <2>. QED BY <1>1, <2>3, <2>4, <2>5, <2>6, <2>7, <2>8, <2>9, <2>10, <2>11, Together
<1>. QED BY <1>3, <1>4

(***************************************************************************)
(* What the timer of the connector leaves.  In a slow program it may come  *)
(* before resetChannel(), and then a new socket breaks the assertion of    *)
(* connecting().                                                           *)
(***************************************************************************)
Retried(n) ==
  /\ timers' \in 0..1 /\ gaveUp' \in BOOLEAN /\ channel_' \in Fds \cup {None}
  /\ state_' \in {"kDisconnected", "kConnecting", "kConnected"}
  /\ NoOtherAssertion'
  /\ failed' = {} => /\ Attempted(n) /\ (connectorOn \/ state_' = "kDisconnected")
                     /\ channel_ # None => state_' = "kDisconnected"

LEMMA Retries ==
  ASSUME Ok, startInLoop(0, connectorOn), state_ = "kDisconnected", UNCHANGED <<use, conn, client>>,
         channel_ # None => use.slow
  PROVE  Retried(0)
<1>1. gaveUp \in BOOLEAN /\ channel_ \in Fds \cup {None} /\ failed = {}
  BY Zenon DEF Ok, TypeOK
<1>2. CASE connectorOn
  <2>1. connect(0)
    BY <1>2 DEF startInLoop, Wanted
  <2>2. CASE channel_ = None
    <3>1. Attempted(0)
      BY <2>1, <2>2, Connects
    <3>. QED BY <1>2, <2>2, <3>1, AttemptTyped DEF Retried, Attempted, NoOtherAssertion
  <2>3. CASE channel_ # None /\ state_' = "kConnecting"
    <3>1. /\ channel_' = newFd /\ newFd \in Fds /\ timers' = 0 /\ gaveUp' = gaveUp
          /\ failed' = {"connecting"}
      BY <2>1, <2>3, ConnectsLate
    <3>2. gaveUp' \in BOOLEAN
      BY <1>1, <3>1, Zenon
    <3>3. NoOtherAssertion'
      BY <2>3, <3>1 DEF NoOtherAssertion, MayFail
    <3>. QED BY <2>3, <3>1, <3>2, <3>3 DEF Retried
  <2>4. CASE state_' # "kConnecting"
    <3>1. /\ state_' = "kDisconnected" /\ timers' \in {0, 0 + 1} /\ gaveUp' \in {gaveUp, TRUE}
          /\ UNCHANGED <<channel_, poller, failed>>
      BY <2>1, <2>4 DEF connect, retryTimers
    <3>2. Attempted(0)
      <4>1. View(Registered(poller), "kDisconnected", channel_, conn)
        BY OkPoller
      <4>2. PollerInv'
        BY <3>1, <4>1, OkPoller, PollerInvNext
      <4>. QED BY <1>1, <3>1, <4>2 DEF Attempted
    <3>. QED BY <1>1, <1>2, <3>1, <3>2, AttemptTyped DEF Retried, NoOtherAssertion
  <2>. QED BY <2>2, <2>3, <2>4
<1>3. CASE ~connectorOn
  <2>1. /\ timers' = 0 /\ UNCHANGED <<state_, channel_, poller, gaveUp>>
        /\ failed' = lastPointer(client = "up" \/ 0 > 0 \/ hack)
    BY <1>3 DEF startInLoop, Wanted
  <2>2. NoOtherAssertion'
    <3>1. client # "up" => "destroy" \in use.calls
      BY DEF Ok, TypeOK, OwnerInv
    <3>. QED BY <2>1, <3>1 DEF NoOtherAssertion, MayFail, lastPointer, Unless
  <2>3. PollerInv'
    BY <2>1, OkPoller, PollerInvNext
  <2>4. gaveUp' \in BOOLEAN /\ gaveUp' \in {gaveUp, TRUE}
    BY <1>1, <2>1, Zenon
  <2>. QED BY <1>1, <2>1, <2>2, <2>3, <2>4 DEF Retried, Attempted
<1>. QED BY <1>2, <1>3

\* The timer of the connector.
LEMMA HandleRetry ==
  ASSUME Ok, handleTimer, timers > 0, startInLoop(expired, connectorOn), UNCHANGED <<use, hack>>
  PROVE  IInv'
<1>. USE DEF clientVars, connectorVars, connVars, loopVars, history
<1>0. /\ active' = active \ {TimerChannel} /\ TimerChannel \in active
      /\ UNCHANGED <<client, connect_, connection_, connectorOn, conn, closeCallback_, peer, phase,
                     revents, queue, batch, other, stopped, overtaken>>
  BY DEF handleTimer
<1>1. Queues' /\ Waiting' = Waiting /\ Elements(queue)' = Elements(queue)
  BY <1>0, OkFunctors, QueuesSame
<1>2. state_ = "kDisconnected" /\ expired = 0
  BY DEF Ok, TypeOK, ConnectorInv, expired
<1>3. channel_ # None => use.slow
  BY <1>0, <1>2, OkFunctors DEF Ok, ActiveInv, Placed
<1>4. Retried(0)
  BY <1>0, <1>2, <1>3, Retries
<1>5. TypeOK'
  <2>1. /\ timers' \in 0..1 /\ gaveUp' \in BOOLEAN /\ channel_' \in Fds \cup {None}
        /\ state_' \in {"kDisconnected", "kConnecting", "kConnected"}
    BY <1>4 DEF Retried
  <2>. QED BY <1>0, <1>1, <2>1 DEF Ok, TypeOK, Queues
<1>6. NoOtherAssertion'
  BY <1>4 DEF Retried
<1>7. CASE failed' # {}
  BY <1>5, <1>6, <1>7, Partly
<1>. SUFFICES ASSUME failed' = {} PROVE IInv'
  BY <1>7
<1>8. /\ Attempted(0) /\ (connectorOn \/ state_' = "kDisconnected")
      /\ channel_ # None => state_' = "kDisconnected"
  BY <1>4 DEF Retried
<1>9. PollerInv'
  BY <1>8 DEF Attempted
<1>10. ~Pending("startInLoop") /\ Functor("startInLoop", None) \notin Elements(queue)
  BY OkFunctors DEF Placed, Pending, Waiting
<1>11. Placed'
  BY <1>0, <1>1, <1>2, <1>8, <1>10, OkFunctors, FunctorsDiffer DEF Attempted, Placed, Pending
<1>12. ConnectorInv'
  BY <1>0, <1>2, <1>8, FdsAre DEF Attempted, Ok, ConnectorInv
<1>13. ConnectionInv'
  BY <1>0, <1>2 DEF Ok, ConnectionInv, Live
<1>14. ActiveInv'
  <2>1. \A fd \in Fds : ConnectorChannel(fd) \notin active' /\ ConnChannel(fd) \notin active'
    BY <1>0, <1>2 DEF Ok, ActiveInv, ConnectionInv, Live
  <2>2. TimerChannel \notin active' /\ WakeupChannel \notin active'
    BY <1>0 DEF Ok, ActiveInv
  <2>. QED BY <1>0, <1>1, <1>2, <1>8, <2>1, <2>2 DEF Attempted, Ok, ActiveInv
<1>15. StopInv'
  BY <1>0, <1>1 DEF Ok, StopInv, Pending
<1>16. OwnerInv'
  BY <1>0, <1>1, <1>10 DEF Ok, OwnerInv, Pending
<1>. QED BY <1>1, <1>5, <1>6, <1>9, <1>11, <1>12, <1>13, <1>14, <1>15, <1>16, Together

\* The timer of the destructor.
LEMMA HandleHack ==
  ASSUME Ok, handleTimer, hack, hack' = FALSE,
         failed' = lastPointer(timers > 0),
         UNCHANGED <<state_, channel_, timers, poller, gaveUp, use>>
  PROVE  IInv'
<1>. USE DEF clientVars, connectorVars, connVars, loopVars, history
<1>0. /\ active' = active \ {TimerChannel} /\ TimerChannel \in active
      /\ UNCHANGED <<client, connect_, connection_, connectorOn, conn, closeCallback_, peer, phase,
                     revents, queue, batch, other, stopped, overtaken>>
  BY DEF handleTimer
<1>1. Queues' /\ Waiting' = Waiting /\ Elements(queue)' = Elements(queue)
  BY <1>0, OkFunctors, QueuesSame
<1>2. TypeOK'
  <2>1. queue' \in Seq(Functors_) /\ batch' \in Seq(Functors_)
    BY <1>1 DEF Queues
  <2>2. active' \subseteq Channels
    BY <1>0 DEF Ok, TypeOK
  <2>3. connect_' \in BOOLEAN /\ hack' \in BOOLEAN /\ connectorOn' \in BOOLEAN
    BY <1>0, Zenon DEF Ok, TypeOK
  <2>4. {stopped', overtaken', gaveUp'} \subseteq BOOLEAN
    BY <1>0, Zenon DEF Ok, TypeOK
  <2>. QED BY <1>0, <2>1, <2>2, <2>3, <2>4 DEF Ok, TypeOK
<1>3. NoOtherAssertion'
  <2>1. "destroy" \in use.calls
    BY DEF Ok, ConnectorInv, OwnerInv
  <2>. QED BY <2>1 DEF lastPointer, Unless, NoOtherAssertion, MayFail
<1>4. PollerInv'
  BY <1>0, OkPoller, PollerInvNext
<1>5. Placed'
  BY <1>0, <1>1, OkFunctors DEF Placed, Pending
<1>6. ConnectorInv'
  BY <1>0 DEF Ok, ConnectorInv
<1>7. ConnectionInv'
  BY <1>0 DEF Ok, ConnectionInv, Live
<1>8. ActiveInv'
  BY <1>0, <1>1 DEF Ok, ActiveInv, Live, Pending
<1>9. StopInv'
  BY <1>0, <1>1 DEF Ok, StopInv, Pending
<1>10. OwnerInv'
  BY <1>0, <1>1 DEF Ok, OwnerInv, Pending
<1>. QED BY <1>1, <1>2, <1>3, <1>4, <1>5, <1>6, <1>7, <1>8, <1>9, <1>10, Together

\* Timers of the program only.
LEMMA HandleOthers ==
  ASSUME Ok, handleTimer, UNCHANGED <<hack, state_, channel_, timers, poller, gaveUp, failed, use>>
  PROVE  IInv'
<1>. USE DEF clientVars, connectorVars, connVars, loopVars, history
<1>0. /\ active' = active \ {TimerChannel}
      /\ UNCHANGED <<client, connect_, connection_, connectorOn, conn, closeCallback_, peer, phase,
                     revents, queue, batch, other, stopped, overtaken>>
  BY DEF handleTimer
<1>1. Queues' /\ Waiting' = Waiting /\ Elements(queue)' = Elements(queue)
  BY <1>0, OkFunctors, QueuesSame
<1>2. TypeOK'
  BY <1>0, <1>1 DEF Ok, TypeOK, Queues
<1>3. NoOtherAssertion'
  BY DEF Ok, NoOtherAssertion
<1>4. PollerInv'
  BY <1>0, OkPoller, PollerInvNext
<1>5. Placed'
  BY <1>0, <1>1, OkFunctors DEF Placed, Pending
<1>6. ConnectorInv'
  BY <1>0 DEF Ok, ConnectorInv
<1>7. ConnectionInv'
  BY <1>0 DEF Ok, ConnectionInv, Live
<1>8. ActiveInv'
  BY <1>0, <1>1 DEF Ok, ActiveInv, Live, Pending
<1>9. StopInv'
  BY <1>0, <1>1 DEF Ok, StopInv, Pending
<1>10. OwnerInv'
  BY <1>0, <1>1 DEF Ok, OwnerInv, Pending
<1>. QED BY <1>1, <1>2, <1>3, <1>4, <1>5, <1>6, <1>7, <1>8, <1>9, <1>10, Together

LEMMA HandleTimer ==
  ASSUME Ok, handleTimer, UNCHANGED use
  PROVE  IInv'
<1>1. CASE timers > 0 /\ startInLoop(expired, connectorOn) /\ UNCHANGED hack
  BY <1>1, HandleRetry
<1>2. CASE /\ hack
           /\ hack' = FALSE
           /\ failed' = lastPointer(timers > 0)
           /\ UNCHANGED <<state_, channel_, timers, poller, gaveUp>>
  BY <1>2, HandleHack
<1>3. CASE UNCHANGED <<hack, state_, channel_, timers, poller, gaveUp, failed>>
  BY <1>3, HandleOthers
<1>. QED BY <1>1, <1>2, <1>3 DEF handleTimer

LEMMA Restart ==
  ASSUME Ok, restart, UNCHANGED use
  PROVE  IInv'
<1>. USE DEF clientVars, connectorVars, connVars, loopVars, history
<1>0. /\ phase = "restart" /\ connectorOn' = TRUE /\ overtaken' = (overtaken \/ ~connect_)
      /\ connect(timers) /\ phase' = "events"
      /\ UNCHANGED <<client, connect_, connection_, hack, conn, closeCallback_, peer, active,
                     revents, queue, batch, other, stopped>>
  BY DEF restart
<1>1. Queues' /\ Waiting' = Waiting /\ Elements(queue)' = Elements(queue)
  BY <1>0, OkFunctors, QueuesSame
<1>2. state_ = "kConnected" /\ channel_ = None /\ client = "up"
  BY <1>0 DEF Ok, ActiveInv
<1>3. timers = 0 /\ ~hack
  BY <1>2 DEF Ok, TypeOK, ConnectorInv
<1>4. Attempted(0)
  BY <1>0, <1>2, <1>3, Connects
<1>5. TypeOK'
  <2>1. /\ timers' \in 0..1 /\ gaveUp' \in BOOLEAN /\ channel_' \in Fds \cup {None}
        /\ state_' \in {"kDisconnected", "kConnecting", "kConnected"}
    BY <1>4, AttemptTyped
  <2>2. overtaken' \in BOOLEAN
    BY <1>0
  <2>. QED BY <1>0, <1>1, <2>1, <2>2 DEF Ok, TypeOK, Queues
<1>6. NoOtherAssertion'
  BY <1>4 DEF Attempted, NoOtherAssertion
<1>7. PollerInv'
  BY <1>4 DEF Attempted
<1>8. Placed'
  BY <1>0, <1>1, <1>2, <1>4, OkFunctors, FunctorsDiffer DEF Attempted, Placed, Pending
<1>9. ConnectorInv'
  BY <1>0, <1>2, <1>3, <1>4, FdsAre DEF Attempted, Ok, ConnectorInv
<1>10. \A fd \in DOMAIN conn : ~Live(fd)
  BY <1>0 DEF Ok, ConnectionInv
<1>11. ConnectionInv'
  BY <1>0, <1>10 DEF Ok, ConnectionInv, Live
<1>12. ActiveInv'
  <2>1. \A fd \in Fds : ConnectorChannel(fd) \notin active' /\ ConnChannel(fd) \notin active'
    BY <1>0, <1>2, <1>10 DEF Ok, ActiveInv, Live
  <2>2. (TimerChannel \in active' => use.slow) /\ WakeupChannel \notin active'
    BY <1>0, <1>3 DEF Ok, ActiveInv
  <2>. QED BY <1>0, <1>1, <1>4, <2>1, <2>2 DEF Attempted, Ok, ActiveInv
<1>13. StopInv'
  BY <1>0, <1>1 DEF Ok, StopInv, Pending
<1>14. OwnerInv'
  <2>1. ~Pending("startInLoop") /\ Functor("startInLoop", None) \notin Elements(queue)
    BY <1>2, OkFunctors DEF Placed, Pending, Waiting
  <2>. QED BY <1>0, <1>1, <2>1 DEF Ok, OwnerInv, Pending
<1>. QED BY <1>1, <1>5, <1>6, <1>7, <1>8, <1>9, <1>11, <1>12, <1>13, <1>14, Together

\* The parts that stopInLoop() could break, when nobody takes its functors meanwhile.
StoppedWell ==
  /\ Queues' /\ Placed'
  /\ Pending("stopInLoop")' => Pending("stopInLoop")
  /\ Pending("startInLoop")' => Pending("startInLoop")
  /\ Functor("startInLoop", None) \in Elements(queue)' => Functor("startInLoop", None) \in Elements(queue)
  /\ state_' \in {state_, "kDisconnected"} /\ timers' = timers
  /\ state_' = "kConnecting" => state_ = "kConnecting"
  /\ state_' = "kConnected" <=> state_ = "kConnected"
  /\ timers' > 0 => state_' = "kDisconnected"
  /\ (TimerChannel \in active /\ ~use.slow => IF timers > 0 THEN ~Pending("resetChannel")' ELSE hack)
  /\ state_' = "kConnected" => Elements(queue)' = Elements(queue)
  /\ \A fd \in Fds : ConnectorChannel(fd) \in active => fd = channel_ /\ state_' = "kConnecting"

LEMMA StoppedInLoop ==
  ASSUME Ok, Stopped(FALSE), failed' = {}, UNCHANGED <<channel_, conn, batch, other>>
  PROVE  StoppedWell
<1>1. CASE state_ # "kConnecting"
  <2>1. UNCHANGED <<state_, queue, timers>>
    BY <1>1 DEF Stopped
  <2>2. Queues' /\ Waiting' = Waiting /\ Elements(queue)' = Elements(queue)
    BY <2>1, OkFunctors, QueuesSame
  <2>3. Placed'
    BY <2>1, <2>2, OkFunctors DEF Placed, Pending
  <2>. QED BY <2>1, <2>2, <2>3 DEF StoppedWell, Pending, Ok, ConnectorInv, ActiveInv
<1>2. CASE state_ = "kConnecting"
  <2>. DEFINE g == Functor("resetChannel", None)
  <2>1. /\ state_' = "kDisconnected" /\ queue' = Append(queue, g) /\ timers' = timers
        /\ ConnectorChannel(channel_) \notin active
    BY <1>2 DEF Stopped, resetQueued, Unless
  <2>2. timers = 0 /\ channel_ # None /\ ~Pending("startInLoop") /\ g \notin Waiting
    BY <1>2, OkFunctors DEF Placed, Pending, Ok, TypeOK, ConnectorInv
  <2>3. Queues' /\ Waiting' = Waiting \cup {g}
    BY <2>1, <2>2, OkFunctors, Queued, FunctorType
  <2>. HIDE DEF g
  <2>4. Placed'
    BY <1>2, <2>1, <2>2, <2>3, OkFunctors, FunctorsDiffer DEF Placed, Pending, g
  <2>5. Pending("stopInLoop")' => Pending("stopInLoop")
    BY <2>3, FunctorsDiffer DEF Pending, g
  <2>6. TimerChannel \in active /\ ~use.slow => hack
    BY <2>2 DEF Ok, ActiveInv
  <2>8. ~Pending("startInLoop")' /\ Functor("startInLoop", None) \notin Elements(queue)'
    BY <2>2, <2>3, FunctorsDiffer DEF Pending, Waiting, g
  <2>7. \A fd \in Fds : ConnectorChannel(fd) \notin active
    BY <2>1 DEF Ok, ActiveInv
  <2>. QED BY <1>2, <2>1, <2>2, <2>3, <2>4, <2>5, <2>6, <2>7, <2>8 DEF StoppedWell
<1>. QED BY <1>1, <1>2

\* The same, when the assertion of EventLoop::removeChannel may fail.
LEMMA StoppedTyped ==
  ASSUME Ok, Stopped(FALSE), UNCHANGED use, use.calls \cap {"stop", "destroy"} # {}
  PROVE  /\ state_' \in {"kDisconnected", "kConnecting", "kConnected"} /\ timers' \in 0..1
         /\ queue' \in Seq(Functors_) /\ NoOtherAssertion'
<1>1. queue \in Seq(Functors_) /\ Functor("resetChannel", None) \in Functors_
  BY OkFunctors, FunctorType DEF Queues
<1>2. queue' \in Seq(Functors_)
  BY <1>1, AppendProperties DEF Stopped, resetQueued
<1>3. NoOtherAssertion'
  BY DEF Stopped, Unless, NoOtherAssertion, MayFail, Ok
<1>4. state_' \in {"kDisconnected", "kConnecting", "kConnected"} /\ timers' \in 0..1
  BY DEF Stopped, Ok, TypeOK
<1>. QED BY <1>2, <1>3, <1>4

LEMMA Stop ==
  ASSUME Ok, stop, UNCHANGED use
  PROVE  IInv'
<1>. USE DEF clientVars, connectorVars, connVars, loopVars, history
<1>0. /\ client = "up" /\ "stop" \in use.calls /\ phase \in {"events", "functors"}
      /\ connect_' = FALSE /\ connectorOn' = FALSE /\ stopped' = TRUE
      /\ UNCHANGED <<client, connection_, hack, channel_, conn, closeCallback_, peer, phase, active,
                     revents, batch, other, overtaken, gaveUp>>
  BY DEF stop, InLoop
<1>1. Stopped(FALSE) /\ PollerInv'
  BY <1>0, Stops DEF stop
<1>2. TypeOK' /\ NoOtherAssertion'
  BY <1>0, <1>1, StoppedTyped DEF Ok, TypeOK
<1>3. CASE failed' # {}
  BY <1>2, <1>3, Partly
<1>4. CASE failed' = {}
  <2>1. StoppedWell
    BY <1>0, <1>1, <1>4, StoppedInLoop
  <2>2. ConnectorInv'
    BY <1>0, <2>1 DEF StoppedWell, Ok, ConnectorInv
  <2>3. ConnectionInv'
    BY <1>0, <2>1 DEF StoppedWell, Ok, ConnectionInv, Live
  <2>4. ActiveInv'
    BY <1>0, <2>1 DEF StoppedWell, Ok, ActiveInv, Live
  <2>5. StopInv'
    BY <1>0, <2>1 DEF StoppedWell, Ok, StopInv
  <2>6. OwnerInv'
    BY <1>0, <2>1 DEF StoppedWell, Ok, OwnerInv
  <2>. QED BY <1>1, <1>2, <2>1, <2>2, <2>3, <2>4, <2>5, <2>6, Together DEF StoppedWell
<1>. QED BY <1>3, <1>4

\* ~TcpClient with a connection.
LEMMA DestroyDetaches ==
  ASSUME Ok, destroy, connection_ # None, UNCHANGED use
  PROVE  IInv'
<1>. USE DEF clientVars, connectorVars, connVars, loopVars, history
<1>0. /\ "destroy" \in use.calls
      /\ phase \in {"events", "functors"} /\ client' = "gone"
      /\ closeCallback_' = [closeCallback_ EXCEPT ![connection_] = "detail"]
      /\ connection_' = None
      /\ failed' = lastPointer(timers > 0)
      /\ UNCHANGED <<connectorOn, state_, channel_, timers, poller, queue, hack, connect_, conn, peer,
                     phase, active, revents, batch, other, stopped, overtaken, gaveUp>>
  BY DEF destroy, InLoop, detached
<1>1. Queues' /\ Waiting' = Waiting /\ Elements(queue)' = Elements(queue)
  BY <1>0, OkFunctors, QueuesSame
<1>2. TypeOK'
  BY <1>0, <1>1 DEF Ok, TypeOK, Queues
<1>3. NoOtherAssertion'
  BY <1>0 DEF lastPointer, Unless, NoOtherAssertion, MayFail
<1>4. PollerInv'
  BY <1>0, OkPoller, PollerInvNext
<1>5. Placed'
  BY <1>0, <1>1, OkFunctors DEF Placed, Pending
<1>6. connection_ \in DOMAIN conn /\ Live(connection_) /\ state_ = "kConnected"
  BY DEF Ok, TypeOK, ConnectionInv
<1>7. ConnectorInv'
  BY <1>0, <1>6 DEF Ok, ConnectorInv
<1>8. ConnectionInv'
  <2>1. \A fd \in DOMAIN conn : Live(fd) => closeCallback_'[fd] = "detail" /\ fd # None
    <3>1. \A fd \in DOMAIN conn : fd # None
      BY OkFds, FdsAre
    <3>2. \A fd \in DOMAIN conn : Live(fd) => fd = connection_
      BY <1>6 DEF Ok, ConnectionInv
    <3>3. connection_ \in DOMAIN closeCallback_
      BY <1>6 DEF Ok, TypeOK
    <3>. QED BY <1>0, <3>1, <3>2, <3>3
  <2>. QED BY <1>0, <2>1 DEF Ok, ConnectionInv, Live
<1>9. ActiveInv'
  BY <1>0, <1>1 DEF Ok, ActiveInv, Live, Pending
<1>10. StopInv'
  BY <1>0, <1>1 DEF Ok, StopInv, Pending
<1>11. OwnerInv'
  <2>1. ~Pending("startInLoop") /\ Functor("startInLoop", None) \notin Elements(queue)
    BY <1>6, OkFunctors DEF Placed, Pending, Waiting
  <2>. QED BY <1>0, <1>1, <2>1 DEF Ok, OwnerInv, Pending
<1>. QED BY <1>1, <1>2, <1>3, <1>4, <1>5, <1>7, <1>8, <1>9, <1>10, <1>11, Together

\* ~TcpClient without one.
LEMMA DestroyStops ==
  ASSUME Ok, destroy, connection_ = None, UNCHANGED use
  PROVE  IInv'
<1>. USE DEF clientVars, connectorVars, connVars, loopVars, history
<1>0. /\ "destroy" \in use.calls
      /\ phase \in {"events", "functors"} /\ client' = "gone" /\ connectorOn' = FALSE /\ hack' = TRUE
      /\ UNCHANGED <<connection_, closeCallback_, channel_, connect_, conn, peer, phase, active,
                     revents, batch, other, stopped, overtaken, gaveUp>>
  BY DEF destroy, InLoop
<1>1. Stopped(FALSE) /\ PollerInv'
  BY <1>0, Stops DEF destroy
<1>2. TypeOK' /\ NoOtherAssertion'
  BY <1>0, <1>1, StoppedTyped DEF Ok, TypeOK
<1>3. CASE failed' # {}
  BY <1>2, <1>3, Partly
<1>4. CASE failed' = {}
  <2>1. StoppedWell
    BY <1>0, <1>1, <1>4, StoppedInLoop
  <2>2. ConnectorInv'
    BY <1>0, <2>1 DEF StoppedWell, Ok, ConnectorInv
  <2>3. ConnectionInv'
    BY <1>0, <2>1 DEF StoppedWell, Ok, ConnectionInv, Live
  <2>4. ActiveInv'
    BY <1>0, <2>1 DEF StoppedWell, Ok, ActiveInv, Live
  <2>5. StopInv'
    BY <1>0, <2>1 DEF StoppedWell, Ok, StopInv
  <2>6. OwnerInv'
    BY <1>0, <2>1 DEF StoppedWell, Ok, OwnerInv
  <2>. QED BY <1>1, <1>2, <2>1, <2>2, <2>3, <2>4, <2>5, <2>6, Together DEF StoppedWell
<1>. QED BY <1>3, <1>4

\* What every outcome of an attempt has in common.
LEMMA AttemptEnds ==
  ASSUME Ok, handleConnector, UNCHANGED use
  PROVE  /\ state_ = "kConnecting" /\ timers = 0 /\ channel_ \in Fds /\ channel_ \notin DOMAIN conn
         /\ phase = "events" /\ (client = "gone" => ~connectorOn)
         /\ active' \subseteq active /\ WakeupChannel \notin active'
         /\ \A fd \in Fds : ConnectorChannel(fd) \notin active' /\ ConnChannel(fd) \notin active'
         /\ TimerChannel \in active' => hack \/ use.slow
         /\ \A fd \in DOMAIN conn : ~Live(fd)
         /\ connection_ = None
         /\ Queues' /\ Waiting' = Waiting \cup {Functor("resetChannel", None)}
         /\ ~Pending("startInLoop")
<1>. DEFINE g == Functor("resetChannel", None)
<1>1. /\ phase = "events" /\ ConnectorChannel(channel_) \in active
      /\ active' = active \ {ConnectorChannel(channel_)}
      /\ queue' = Append(queue, g) /\ UNCHANGED batch
  BY DEF handleConnector, resetQueued
<1>2. state_ = "kConnecting" /\ channel_ \in Fds
  <2>1. \A fd : ConnectorChannel(fd) \in active => fd \in Fds
    <3>1. active \subseteq Channels
      BY DEF Ok, TypeOK
    <3>. QED BY <3>1, ChannelsDiffer DEF Channels
  <2>. QED BY <1>1, <2>1 DEF Ok, ActiveInv
<1>3. timers = 0 /\ channel_ \notin DOMAIN conn /\ (client = "gone" => ~connectorOn)
  BY <1>2 DEF Ok, TypeOK, ConnectorInv
<1>4. \A fd \in DOMAIN conn : ~Live(fd)
  BY <1>2 DEF Ok, ConnectionInv
<1>5. connection_ = None
  BY <1>4, OkFds DEF Ok, ConnectionInv
<1>6. \A fd \in Fds : ConnectorChannel(fd) \notin active' /\ ConnChannel(fd) \notin active'
  BY <1>1, <1>4 DEF Ok, ActiveInv, Live
<1>7. (TimerChannel \in active' => hack \/ use.slow) /\ WakeupChannel \notin active'
  BY <1>1, <1>3 DEF Ok, ActiveInv
<1>8. g \notin Waiting /\ ~Pending("startInLoop")
  BY <1>2, OkFunctors DEF Placed, Pending
<1>9. Queues' /\ Waiting' = Waiting \cup {g}
  BY <1>1, <1>8, OkFunctors, Queued, FunctorType
<1>. QED BY <1>1, <1>2, <1>3, <1>4, <1>5, <1>6, <1>7, <1>8, <1>9

\* The attempt ends without a connection: state_ as given, or kDisconnected and a timer.
LEMMA AttemptFruitless ==
  ASSUME Ok, handleConnector, UNCHANGED <<use, connection_, conn, closeCallback_, peer>>,
         state_' \in {"kDisconnected", "kConnected"},
         timers' = timers \/ (timers' = timers + 1 /\ connectorOn /\ state_' = "kDisconnected"),
         state_' = "kConnected" \/ (client = "gone" => ~connectorOn),
         poller' = removedConnector, failed' = Unless(RemoveConnectorLegal, "poller")
  PROVE  IInv'
<1>. USE DEF clientVars, connectorVars, connVars, loopVars, history
<1>. DEFINE g == Functor("resetChannel", None)
<1>0. UNCHANGED <<client, connect_, hack, connectorOn, channel_, phase, batch, other, stopped,
                  overtaken, gaveUp>>
  BY DEF handleConnector
<1>1. /\ state_ = "kConnecting" /\ timers = 0 /\ channel_ \in Fds /\ channel_ \notin DOMAIN conn
      /\ phase = "events" /\ (client = "gone" => ~connectorOn)
      /\ active' \subseteq active /\ WakeupChannel \notin active'
      /\ \A fd \in Fds : ConnectorChannel(fd) \notin active' /\ ConnChannel(fd) \notin active'
      /\ TimerChannel \in active' => hack \/ use.slow
  BY AttemptEnds
<1>2. /\ \A fd \in DOMAIN conn : ~Live(fd)
      /\ connection_ = None /\ Queues' /\ Waiting' = Waiting \cup {g}
      /\ ~Pending("startInLoop")
  BY AttemptEnds
<1>. HIDE DEF g
<1>3. PollerInv' /\ failed' = {}
  BY <1>0, <1>1, ConnectorRemoved, PollerInvNext DEF Unless
<1>4. NoOtherAssertion'
  BY <1>3 DEF NoOtherAssertion
<1>5. TypeOK'
  BY <1>0, <1>1, <1>2 DEF Ok, TypeOK, Queues
<1>6. Placed'
  BY <1>0, <1>1, <1>2, OkFunctors, FunctorsDiffer, FdsAre DEF Placed, Pending, g
<1>7. ConnectorInv'
  BY <1>0, <1>1 DEF Ok, ConnectorInv
<1>8. ConnectionInv'
  BY <1>0, <1>2 DEF Ok, ConnectionInv, Live
<1>9. ActiveInv'
  <2>1. TimerChannel \in active' /\ ~use.slow => timers' = 0 /\ hack'
    BY <1>0, <1>1 DEF Ok, ConnectorInv
  <2>. QED BY <1>0, <1>1, <2>1 DEF Ok, ActiveInv
<1>10. StopInv'
  BY <1>0, <1>2, FunctorsDiffer DEF Ok, StopInv, Pending, g
<1>11. OwnerInv'
  <2>1. ~Pending("startInLoop")' /\ Functor("startInLoop", None) \notin Elements(queue)'
    BY <1>2, FunctorsDiffer DEF Pending, Waiting, g
  <2>2. Pending("stopInLoop")' => Pending("stopInLoop")
    BY <1>2, FunctorsDiffer DEF Pending, g
  <2>. QED BY <1>0, <2>1, <2>2 DEF Ok, OwnerInv
<1>. QED BY <1>2, <1>3, <1>4, <1>5, <1>6, <1>7, <1>8, <1>9, <1>10, <1>11, Together

LEMMA NewRecord ==
  /\ newConnectionRecord \in Connection /\ newConnectionRecord.state_ = "kConnected"
  /\ newConnectionRecord.added = TRUE /\ newConnectionRecord.events = {"R"}
<1>. DEFINE j == newTcpConnection
            k == [j EXCEPT !.state_ = "kConnected", !.events = {"R"}, !.added = TRUE, !.ups = @ + 1]
<1>1. j \in Connection
  BY DEF newTcpConnection, Connection, States
<1>2. newConnectionRecord = k
  BY DEF newConnectionRecord, connectEstablished
<1>. HIDE DEF j
<1>3. j.ups + 1 \in Nat /\ {"R"} \in SUBSET {"R", "W"} /\ "kConnected" \in States
  BY <1>1 DEF Connection, States
<1>4. k \in Connection
  BY <1>1, <1>3 DEF Connection
<1>5. k.state_ = "kConnected" /\ k.added = TRUE /\ k.events = {"R"}
  BY <1>1 DEF Connection
<1>. QED BY <1>2, <1>4, <1>5

LEMMA ClosedRecord ==
  ASSUME NEW j \in Connection, NEW k, k = handleClose(j)
  PROVE  k \in Connection /\ k.state_ = "kDisconnected" /\ k.added = j.added /\ k.events = {}
<1>1. k = [j EXCEPT !.events = {}, !.state_ = "kDisconnected", !.downs = @ + 1]
  BY DEF handleClose, disableAll, Connection
<1>2. j.downs + 1 \in Nat /\ {} \in SUBSET {"R", "W"} /\ "kDisconnected" \in States
  BY DEF Connection, States
<1>3. k \in Connection
  BY <1>1, <1>2 DEF Connection
<1>4. k.state_ = "kDisconnected" /\ k.added = j.added /\ k.events = {}
  BY <1>1 DEF Connection
<1>. QED BY <1>3, <1>4

\* TcpClient::newConnection.
LEMMA AttemptFruitful ==
  ASSUME Ok, handleConnector, UNCHANGED <<use, timers>>, connectorOn, state_' = "kConnected",
         newConnection(channel_, removedConnector)
  PROVE  IInv'
<1>. USE DEF clientVars, connectorVars, connVars, loopVars, history
<1>. DEFINE g == Functor("resetChannel", None)
            fd == channel_
            p == removedConnector
            r == newConnectionRecord
<1>0. UNCHANGED <<client, connect_, hack, connectorOn, channel_, phase, batch, other, stopped,
                  overtaken, gaveUp>>
  BY DEF handleConnector
<1>1. /\ state_ = "kConnecting" /\ timers = 0 /\ fd \in Fds /\ fd \notin DOMAIN conn
      /\ phase = "events" /\ client # "gone"
      /\ active' \subseteq active /\ WakeupChannel \notin active'
      /\ \A d \in Fds : ConnectorChannel(d) \notin active' /\ ConnChannel(d) \notin active'
      /\ TimerChannel \in active' => hack \/ use.slow
  BY AttemptEnds
<1>2. /\ \A d \in DOMAIN conn : ~Live(d)
      /\ connection_ = None /\ Queues' /\ Waiting' = Waiting \cup {g}
      /\ ~Pending("startInLoop")
  BY AttemptEnds
<1>. HIDE DEF g
<1>3. fd \in Nat /\ fd # None /\ client = "up"
  BY <1>1, FdsAre DEF Ok, TypeOK
<1>4. /\ RemoveConnectorLegal /\ Sound(p) /\ fd \notin DOMAIN Registered(p)
      /\ View(Registered(p), "kConnected", fd, conn)
  BY <1>1, ConnectorRemoved
<1>5. /\ connection_' = fd /\ conn' = Put(conn, fd, r)
      /\ closeCallback_' = Put(closeCallback_, fd, "client") /\ peer' = Put(peer, fd, "open")
      /\ poller' = UpdateChannel(p, ConnChannel(fd), fd, {"R"})
      /\ failed' = Unless(RemoveConnectorLegal /\ UpdateLegal(p, ConnChannel(fd), fd, {"R"}), "poller")
                     \cup Unless(client = "up", "newConnection")
  BY DEF newConnection
<1>. HIDE DEF p, r
<1>6. {"R"} \in Events /\ {"R"} # {}
  BY DEF Events
<1>7. /\ Sound(poller') /\ UpdateLegal(p, ConnChannel(fd), fd, {"R"})
      /\ Updated(Registered(p), Registered(poller'), fd, Entry(ConnChannel(fd), {"R"}))
  BY <1>3, <1>4, <1>5, <1>6, Adds
<1>8. /\ r \in Connection /\ r.state_ = "kConnected" /\ r.added = TRUE /\ r.events = {"R"}
  BY NewRecord DEF r
<1>9. failed' = {}
  BY <1>3, <1>4, <1>5, <1>7 DEF Unless
<1>10. PollerInv'
  <2>1. View(Registered(poller'), "kConnected", fd, conn')
    <3>. HIDE DEF fd
    <3>. QED BY <1>4, <1>5, <1>7, <1>8, ViewEstablishes
  <2>. QED BY <1>0, <1>7, <2>1, PollerInvNext
<1>11. /\ DOMAIN conn' = DOMAIN conn \cup {fd} /\ conn'[fd] = r
       /\ \A d \in DOMAIN conn : conn'[d] = conn[d] /\ d # fd
       /\ closeCallback_'[fd] = "client"
  BY <1>1, <1>5 DEF Put
<1>12. TypeOK'
  <2>1. conn' \in [DOMAIN conn' -> Connection]
    BY <1>5, <1>8 DEF Ok, TypeOK, Put
  <2>2. closeCallback_' \in [DOMAIN conn' -> {"client", "detail"}]
    BY <1>5, <1>11 DEF Ok, TypeOK, Put
  <2>3. peer' \in [DOMAIN conn' -> {"open", "closed"}]
    BY <1>5, <1>11 DEF Ok, TypeOK, Put
  <2>4. connection_' \in DOMAIN conn' \cup {None} /\ DOMAIN conn' \subseteq Fds
    BY <1>1, <1>5, <1>11 DEF Ok, TypeOK
  <2>. QED BY <1>0, <1>1, <1>2, <2>1, <2>2, <2>3, <2>4 DEF Ok, TypeOK, Queues
<1>13. NoOtherAssertion'
  BY <1>9 DEF NoOtherAssertion
<1>14. Placed'
  BY <1>0, <1>1, <1>2, <1>3, <1>8, <1>11, OkFunctors, FunctorsDiffer DEF Placed, Pending, g
<1>15. ConnectorInv'
  BY <1>0, <1>1 DEF Ok, ConnectorInv
<1>16. ConnectionInv'
  <2>1. Live(fd)' /\ \A d \in DOMAIN conn : ~Live(d)'
    BY <1>0, <1>2, <1>8, <1>11 DEF Live
  <2>2. closeLegal(conn'[fd]) /\ conn'[fd].added /\ conn'[fd].events = {"R"}
    BY <1>8, <1>11 DEF closeLegal
  <2>3. \A d \in DOMAIN conn : conn'[d].events = {}
    BY <1>2, <1>11 DEF Ok, ConnectionInv
  <2>. QED BY <1>0, <1>1, <1>3, <1>5, <1>11, <2>1, <2>2, <2>3 DEF ConnectionInv
<1>17. ActiveInv'
  BY <1>0, <1>1 DEF Ok, ActiveInv
<1>18. StopInv'
  BY <1>0, <1>2, FunctorsDiffer DEF Ok, StopInv, Pending, g
<1>19. OwnerInv'
  <2>1. ~Pending("startInLoop")' /\ Functor("startInLoop", None) \notin Elements(queue)'
    BY <1>2, FunctorsDiffer DEF Pending, Waiting, g
  <2>2. Pending("stopInLoop")' => Pending("stopInLoop")
    BY <1>2, FunctorsDiffer DEF Pending, g
  <2>. QED BY <1>0, <2>1, <2>2 DEF Ok, OwnerInv
<1>. QED BY <1>2, <1>10, <1>12, <1>13, <1>14, <1>15, <1>16, <1>17, <1>18, <1>19, Together

LEMMA HandleConnector ==
  ASSUME Ok, handleConnector, UNCHANGED use
  PROVE  IInv'
<1>. USE DEF connVars
<1>1. state_ = "kConnecting" /\ (client = "gone" => ~connectorOn)
  BY AttemptEnds
<1>2. CASE attemptFails
  <2>1. failed' = Unless(RemoveConnectorLegal, "poller")
    BY <1>1, <1>2 DEF attemptFails, Unless
  <2>2. /\ state_' = "kDisconnected" /\ poller' = removedConnector
        /\ timers' = IF connectorOn THEN timers + 1 ELSE timers
        /\ UNCHANGED <<connection_, conn, closeCallback_, peer>>
    BY <1>2 DEF attemptFails, retryTimers
  <2>. QED BY <1>1, <2>1, <2>2, AttemptFruitless
<1>3. CASE attemptSucceeds /\ ~connectorOn
  <2>1. /\ state_' = "kConnected" /\ poller' = removedConnector /\ timers' = timers
        /\ failed' = Unless(RemoveConnectorLegal, "poller")
        /\ UNCHANGED <<connection_, conn, closeCallback_, peer>>
    BY <1>3 DEF attemptSucceeds
  <2>. QED BY <2>1, AttemptFruitless
<1>4. CASE attemptSucceeds /\ connectorOn
  <2>1. state_' = "kConnected" /\ timers' = timers /\ newConnection(channel_, removedConnector)
    BY <1>4 DEF attemptSucceeds
  <2>. QED BY <1>4, <2>1, AttemptFruitful
<1>. QED BY <1>2, <1>3, <1>4 DEF handleConnector

LEMMA HandleConnection ==
  ASSUME Ok, NEW fd \in DOMAIN conn, handleConnection(fd), UNCHANGED use
  PROVE  IInv'
<1>. USE DEF clientVars, connectorVars, connVars, loopVars, history
<1>. DEFINE f == Functor("connectDestroyed", fd)
            ch == ConnChannel(fd)
            k == handleClose(conn[fd])
<1>0. /\ phase = "events" /\ ch \in active /\ active' = active \ {ch}
      /\ conn' = [conn EXCEPT ![fd] = k]
      /\ poller' = UpdateChannel(poller, ch, fd, {})
      /\ queue' = Append(queue, f)
      /\ UNCHANGED <<client, connect_, hack, connectorOn, state_, channel_, timers, closeCallback_,
                     peer, revents, batch, other, stopped, overtaken, gaveUp>>
  BY DEF handleConnection
<1>1. fd \in Fds /\ fd \notin {0, 1}
  BY OkFds, FdsAre
<1>2. Live(fd) /\ channel_ = None
  BY <1>0, <1>1 DEF Ok, ActiveInv
<1>3. /\ closeLegal(conn[fd]) /\ conn[fd].added /\ conn[fd].events = {"R"}
      /\ state_ = "kConnected"
      /\ closeCallback_[fd] = "client" <=> connection_ = fd
      /\ \A d \in DOMAIN conn : Live(d) => d = fd
  BY <1>2 DEF Ok, ConnectionInv
<1>4. /\ k \in Connection /\ k.state_ = "kDisconnected" /\ k.added = TRUE /\ k.events = {}
  <2>1. conn[fd] \in Connection
    BY DEF Ok, TypeOK
  <2>2. conn[fd].added = TRUE
    BY <1>3, <2>1 DEF Connection
  <2>. QED BY <2>1, <2>2, ClosedRecord
<1>5. connection_ # None => connection_ = fd /\ client = "up"
  BY <1>3, OkFds DEF Ok, ConnectionInv
<1>6. /\ fd # None /\ connection_' = None
      /\ phase' \in {"events", "restart"}
      /\ phase' = "restart" => client = "up" /\ connect_
  <2>1. fd # None
    BY <1>1, FdsAre
  <2>2. CASE closeCallback_[fd] = "client"
    BY <1>0, <1>3, <1>5, <2>1, <2>2 DEF handleConnection, Reconnects
  <2>3. CASE closeCallback_[fd] # "client"
    BY <1>0, <1>3, <1>5, <2>1, <2>3 DEF handleConnection
  <2>. QED BY <2>1, <2>2, <2>3
<1>7. f \notin Waiting /\ f \in Functors_
  BY <1>1, <1>2, OkFunctors, FunctorType DEF Placed, Live
<1>8. Queues' /\ Waiting' = Waiting \cup {f} /\ Elements(queue)' = Elements(queue) \cup {f}
  BY <1>0, <1>7, OkFunctors, Queued
<1>. HIDE DEF k, f, ch
<1>9. /\ DOMAIN conn' = DOMAIN conn /\ conn'[fd] = k
      /\ \A d \in DOMAIN conn : d # fd => conn'[d] = conn[d]
  BY <1>0
<1>10. /\ Sound(poller') /\ UpdateLegal(poller, ch, fd, {})
       /\ Updated(Registered(poller), Registered(poller'), fd, Entry(ch, {}))
  <2>1. fd \in DOMAIN Registered(poller) /\ Registered(poller)[fd] = Entry(ch, {"R"})
    BY <1>3, OkPoller DEF View, ch
  <2>2. {"R"} # {}
    OBVIOUS
  <2>. QED BY <1>0, <2>1, <2>2, OkPoller, Disables
<1>11. PollerInv'
  <2>1. View(Registered(poller'), state_, channel_, conn')
    BY <1>0, <1>1, <1>3, <1>4, <1>10, OkPoller, ViewCloses DEF ch
  <2>. QED BY <1>0, <1>10, <2>1, PollerInvNext
<1>12. failed' = {}
  <2>1. closeCallback_[fd] = "client" => client = "up" /\ connection_ = fd
    BY <1>3, <1>5, <1>6
  <2>. QED BY <1>3, <1>10, <2>1 DEF handleConnection, Unless, ch
<1>13. TypeOK'
  <2>1. conn' \in [DOMAIN conn' -> Connection]
    BY <1>0, <1>4, <1>9 DEF Ok, TypeOK
  <2>. QED BY <1>0, <1>6, <1>8, <1>9, <2>1 DEF Ok, TypeOK, Queues
<1>14. NoOtherAssertion'
  BY <1>12 DEF NoOtherAssertion
<1>15. Placed'
  BY <1>0, <1>2, <1>4, <1>8, <1>9, OkFunctors, FunctorsDiffer DEF Placed, Pending, f
<1>16. ConnectorInv'
  BY <1>0, <1>9 DEF Ok, ConnectorInv
<1>17. \A d \in DOMAIN conn : ~Live(d)' /\ conn'[d].events = {}
  BY <1>3, <1>4, <1>9 DEF Live, Ok, ConnectionInv
<1>18. ConnectionInv'
  BY <1>6, <1>9, <1>17 DEF ConnectionInv
<1>19. ActiveInv'
  <2>1. \A d \in Fds : ConnectorChannel(d) \notin active'
    BY <1>0, <1>3 DEF Ok, ActiveInv
  <2>2. \A d \in Fds : ConnChannel(d) \notin active'
    BY <1>0, <1>3 DEF Ok, ActiveInv, ch, Live
  <2>3. TimerChannel \in active' /\ ~use.slow => IF timers > 0 THEN ~Pending("resetChannel") ELSE hack
    BY <1>0 DEF Ok, ActiveInv
  <2>4. Pending("resetChannel")' => Pending("resetChannel")
    BY <1>8, FunctorsDiffer DEF Pending, f
  <2>5. ~Pending("resetChannel")
    BY <1>2, OkFunctors DEF Placed
  <2>6. Functor("resetChannel", None) \notin Elements(queue)'
    BY <1>8, <2>5, FunctorsDiffer DEF Pending, Waiting, f
  <2>. QED BY <1>0, <1>2, <1>3, <1>6, <2>1, <2>2, <2>3, <2>4, <2>6 DEF Ok, ActiveInv
<1>20. StopInv'
  <2>1. Pending("stopInLoop")' => Pending("stopInLoop")
    BY <1>8, FunctorsDiffer DEF Pending, f
  <2>. QED BY <1>0, <1>6, <2>1 DEF Ok, StopInv
<1>21. OwnerInv'
  <2>1. ~Pending("startInLoop") /\ Functor("startInLoop", None) \notin Elements(queue)
    BY <1>3, OkFunctors DEF Placed, Pending, Waiting
  <2>2. Functor("startInLoop", None) \notin Elements(queue)' /\ ~Pending("startInLoop")'
    BY <1>8, <2>1, FunctorsDiffer DEF Pending, f
  <2>3. Pending("stopInLoop")' => Pending("stopInLoop")
    BY <1>8, FunctorsDiffer DEF Pending, f
  <2>. QED BY <1>0, <2>2, <2>3 DEF Ok, OwnerInv
<1>. QED BY <1>8, <1>11, <1>13, <1>14, <1>15, <1>16, <1>18, <1>19, <1>20, <1>21, Together

LEMMA CallConnectDestroyed ==
  ASSUME Ok, callConnectDestroyed, UNCHANGED use
  PROVE  IInv'
<1>. USE DEF clientVars, connectorVars, connVars, loopVars, history
<1>. DEFINE fd == Head(batch).fd
            f == Functor("connectDestroyed", fd)
            ch == ConnChannel(fd)
            k == connectDestroyed(conn[fd])
<1>0. f \in Waiting /\ active = {} /\ phase = "functors" /\ Head(batch) = f /\ fd \in Fds
  BY Heads DEF callConnectDestroyed
<1>1. fd \in DOMAIN conn /\ conn[fd].added /\ conn[fd].state_ = "kDisconnected"
  BY <1>0, OkFunctors DEF Placed
<1>2. fd \notin {0, 1} /\ ~Live(fd) /\ conn[fd].events = {} /\ conn[fd] \in Connection
  BY <1>0, <1>1, FdsAre DEF Ok, TypeOK, ConnectionInv, Live
<1>3. /\ k \in Connection /\ k.state_ = "kDisconnected" /\ k.added = FALSE /\ k.events = {}
      /\ removeLegal(conn[fd])
  BY <1>1, <1>2 DEF connectDestroyed, beforeRemove, removeLegal, Connection, States
<1>4. /\ conn' = [conn EXCEPT ![fd] = k]
      /\ poller' = RemoveChannel(poller, ch, fd)
      /\ failed' = Unless(removeLegal(conn[fd]) /\ RemoveLegal(poller, ch, fd), "poller")
  BY <1>1 DEF callConnectDestroyed
<1>5. UNCHANGED <<client, connect_, connection_, hack, connectorOn, closeCallback_, peer, phase,
                  active, revents, other, overtaken, state_, channel_, timers, queue, stopped, gaveUp>>
  BY DEF callConnectDestroyed, calls
<1>6. Queues' /\ Waiting' = Waiting \ {f} /\ Elements(queue)' = Elements(queue)
  BY <1>0, <1>5, OkFunctors, Called DEF callConnectDestroyed, calls
<1>. HIDE DEF fd, f, ch, k
<1>7. /\ DOMAIN conn' = DOMAIN conn /\ conn'[fd] = k
      /\ \A d \in DOMAIN conn : d # fd => conn'[d] = conn[d]
  BY <1>1, <1>4
<1>8. fd \in DOMAIN Registered(poller) /\ Registered(poller)[fd] = Entry(ch, {})
  BY <1>1, <1>2, OkPoller DEF View, ch
<1>9. /\ Sound(poller') /\ RemoveLegal(poller, ch, fd)
      /\ Removed(Registered(poller), Registered(poller'), fd)
  BY <1>4, <1>8, OkPoller, Removes
<1>10. failed' = {}
  BY <1>3, <1>4, <1>9 DEF Unless
<1>11. PollerInv'
  <2>1. state_ = "kConnecting" => fd # channel_
    BY <1>1, OkFds
  <2>2. View(Registered(poller'), state_, channel_, conn')
    BY <1>1, <1>2, <1>3, <1>4, <1>9, <2>1, OkPoller, ViewDestroys
  <2>. QED BY <1>5, <1>9, <2>2, PollerInvNext
<1>12. TypeOK'
  <2>1. conn' \in [DOMAIN conn' -> Connection]
    BY <1>3, <1>4, <1>7 DEF Ok, TypeOK
  <2>. QED BY <1>5, <1>6, <1>7, <2>1 DEF Ok, TypeOK, Queues
<1>13. NoOtherAssertion'
  BY <1>10 DEF NoOtherAssertion
<1>14. Placed'
  BY <1>3, <1>5, <1>6, <1>7, OkFunctors, FunctorsDiffer DEF Placed, Pending, f
<1>15. ConnectorInv'
  BY <1>5, <1>7 DEF Ok, ConnectorInv
<1>16. \A d \in DOMAIN conn : Live(d)' <=> Live(d)
  BY <1>2, <1>3, <1>7 DEF Live
<1>17. ConnectionInv'
  <2>1. \A d \in DOMAIN conn : Live(d) => conn'[d] = conn[d]
    BY <1>2, <1>7
  <2>2. \A d \in DOMAIN conn : ~Live(d) => conn'[d].events = {}
    BY <1>2, <1>3, <1>7 DEF Ok, ConnectionInv
  <2>3. connection_ # None => connection_ \in DOMAIN conn
    BY OkFds
  <2>. QED BY <1>5, <1>7, <1>16, <2>1, <2>2, <2>3 DEF Ok, ConnectionInv
<1>18. ActiveInv'
  BY <1>0, <1>5, <1>6 DEF Ok, ActiveInv
<1>19. StopInv'
  BY <1>5, <1>6 DEF Ok, StopInv, Pending
<1>20. OwnerInv'
  BY <1>0, <1>5, <1>6 DEF Ok, OwnerInv, Pending
<1>. QED BY <1>6, <1>11, <1>12, <1>13, <1>14, <1>15, <1>17, <1>18, <1>19, <1>20, Together
-----------------------------------------------------------------------------
(***************************************************************************)
(* The theorems.                                                           *)
(***************************************************************************)
LEMMA InitIInv == Init => IInv
<1>. SUFFICES ASSUME Init PROVE IInv
  OBVIOUS
<1>. DEFINE f == Functor("startInLoop", None)
<1>0. f \in Functors_ /\ queue = <<f>> /\ batch = <<>> /\ DOMAIN conn = {} /\ channel_ = None
  BY FunctorType DEF Init
<1>. HIDE DEF f
<1>1. /\ Elements(queue) = {f} /\ Distinct(queue) /\ queue \in Seq(Functors_)
  <2>1. Len(queue) = 1 /\ queue[1] = f /\ 1..1 = {1}
    BY <1>0
  <2>2. Elements(queue) = {f}
    BY <2>1 DEF Elements
  <2>3. Distinct(queue)
    BY <2>1 DEF Distinct
  <2>4. queue \in Seq(Functors_)
    BY <1>0
  <2>. QED BY <2>2, <2>3, <2>4
<1>2. Waiting = {f} /\ Elements(batch) = {} /\ Distinct(batch) /\ batch \in Seq(Functors_)
  BY <1>0, <1>1, ElementsEmpty DEF Waiting
<1>3. TypeOK
  <2>1. /\ conn \in [DOMAIN conn -> Connection]
        /\ closeCallback_ \in [DOMAIN conn -> {"client", "detail"}]
        /\ peer \in [DOMAIN conn -> {"open", "closed"}]
    BY DEF Init
  <2>2. /\ use \in Uses /\ client = "up" /\ connect_ = TRUE /\ hack = FALSE /\ connection_ = None
        /\ connectorOn = TRUE /\ state_ = "kDisconnected" /\ timers = 0
        /\ phase = "poll" /\ active = {} /\ other \in {"idle", "done"}
        /\ stopped = FALSE /\ overtaken = FALSE /\ gaveUp = FALSE
    BY DEF Init
  <2>3. /\ connect_ \in BOOLEAN /\ hack \in BOOLEAN /\ connectorOn \in BOOLEAN
        /\ {stopped, overtaken, gaveUp} \subseteq BOOLEAN
    BY <2>2, Zenon
  <2>4. /\ timers \in 0..1 /\ connection_ \in DOMAIN conn \cup {None}
        /\ channel_ \in Fds \cup {None} /\ DOMAIN conn \subseteq Fds
    BY <1>0, <2>2
  <2>. QED BY <1>1, <1>2, <2>1, <2>2, <2>3, <2>4 DEF TypeOK
<1>4. NoOtherAssertion
  BY DEF Init, NoOtherAssertion
<1>5. PollerInv
  <2>1. poller = newPoller(use) /\ state_ = "kDisconnected"
    BY DEF Init
  <2>. QED BY <1>0, <2>1, NewPoller DEF PollerInv
<1>6. FunctorInv
  <2>1. ~Pending("resetChannel") /\ ~Pending("stopInLoop")
    BY <1>2, FunctorsDiffer DEF Pending, f
  <2>2. \A fd \in Fds : Functor("connectDestroyed", fd) \notin Waiting
    BY <1>2, FunctorsDiffer DEF f
  <2>. QED BY <1>0, <1>1, <1>2, <2>1, <2>2 DEF FunctorInv, Init
<1>7. ConnectorInv /\ ConnectionInv
  BY <1>0 DEF Init, ConnectorInv, ConnectionInv
<1>8. ActiveInv
  BY <1>0, <1>1 DEF Init, ActiveInv
<1>9. StopInv
  BY <1>2, FunctorsDiffer DEF Init, StopInv, Pending, f
<1>10. OwnerInv
  <2>1. ~Pending("stopInLoop") /\ active = {} /\ phase = "poll" /\ client = "up"
    BY <1>2, FunctorsDiffer DEF Init, Pending, f
  <2>2. other # "done" => use.thread
    BY DEF Init
  <2>. QED BY <2>1, <2>2 DEF OwnerInv
<1>. QED BY <1>3, <1>4, <1>5, <1>6, <1>7, <1>8, <1>9, <1>10 DEF IInv

LEMMA Stutters ==
  ASSUME IInv, UNCHANGED vars
  PROVE  IInv'
<1>. USE DEF vars, clientVars, connectorVars, connVars, loopVars, history
<1>1. TypeOK' /\ NoOtherAssertion'
  BY DEF IInv, TypeOK, NoOtherAssertion
<1>2. CASE failed = {}
  <2>1. Ok /\ UNCHANGED <<use, poller, state_, channel_, conn>>
    BY <1>2 DEF IInv, Ok
  <2>2. Queues' /\ Waiting' = Waiting /\ Elements(queue)' = Elements(queue)
    BY <2>1, OkFunctors, QueuesSame
  <2>3. PollerInv'
    BY <2>1, OkPoller, PollerInvNext
  <2>4. Placed'
    BY <2>1, <2>2, OkFunctors DEF Placed, Pending
  <2>5. ConnectorInv'
    BY <2>1 DEF Ok, ConnectorInv
  <2>6. ConnectionInv'
    BY <2>1 DEF Ok, ConnectionInv, Live
  <2>7. ActiveInv'
    BY <2>1, <2>2 DEF Ok, ActiveInv, Live, Pending
  <2>8. StopInv'
    BY <2>1, <2>2 DEF Ok, StopInv, Pending
  <2>9. OwnerInv'
    BY <2>1, <2>2 DEF Ok, OwnerInv, Pending
  <2>. QED BY <1>1, <2>2, <2>3, <2>4, <2>5, <2>6, <2>7, <2>8, <2>9, Together
<1>3. CASE failed # {}
  BY <1>1, <1>3, Partly
<1>. QED BY <1>2, <1>3

LEMMA Step ==
  ASSUME IInv, [Next]_vars
  PROVE  IInv'
<1>1. CASE UNCHANGED vars
  BY <1>1, Stutters
<1>2. CASE Next
  <2>1. Ok /\ UNCHANGED use
    BY <1>2 DEF Next, IInv, Ok
  <2>2. CASE poll
    BY <2>1, <2>2, Poll
  <2>3. CASE takeBatch
    BY <2>1, <2>3, TakeBatch
  <2>4. CASE endBatch
    BY <2>1, <2>4, EndBatch
  <2>5. CASE callStartInLoop
    BY <2>1, <2>5, CallStartInLoop
  <2>6. CASE callStopInLoop
    BY <2>1, <2>6, CallStopInLoop
  <2>7. CASE callResetChannel
    BY <2>1, <2>7, CallResetChannel
  <2>8. CASE callConnectDestroyed
    BY <2>1, <2>8, CallConnectDestroyed
  <2>9. CASE handleConnector
    BY <2>1, <2>9, HandleConnector
  <2>10. CASE handleTimer
    BY <2>1, <2>10, HandleTimer
  <2>11. CASE restart
    BY <2>1, <2>11, Restart
  <2>12. CASE \E fd \in DOMAIN conn : handleConnection(fd)
    BY <2>1, <2>12, HandleConnection
  <2>13. CASE otherStores
    BY <2>1, <2>13, OtherStores
  <2>14. CASE otherStops
    BY <2>1, <2>14, OtherStops
  <2>15. CASE otherQueues
    BY <2>1, <2>15, OtherQueues
  <2>16. CASE stop
    BY <2>1, <2>16, Stop
  <2>17. CASE disconnect
    BY <2>1, <2>17, Disconnect
  <2>18. CASE destroy
    BY <2>1, <2>18, DestroyDetaches, DestroyStops
  <2>19. CASE \E fd \in DOMAIN conn : peerCloses(fd)
    BY <2>1, <2>19, PeerCloses
  <2>. QED BY <1>2, <2>2, <2>3, <2>4, <2>5, <2>6, <2>7, <2>8, <2>9, <2>10, <2>11, <2>12, <2>13,
              <2>14, <2>15, <2>16, <2>17, <2>18, <2>19
           DEF Next, LoopRuns, Functors, OtherRuns, ProgramCalls
<1>. QED BY <1>1, <1>2

(***************************************************************************)
(* Inductive: the invariant holds in every reachable state: the poller     *)
(* knows the channels of the loop, of an attempt and of the connections;   *)
(* the functors that wait say how far connector and connections are; at    *)
(* most one connection lives.                                              *)
(***************************************************************************)
THEOREM Inductive == Spec => []IInv
<1>1. Init => IInv
  BY InitIInv
<1>2. IInv /\ [Next]_vars => IInv'
  BY Step
<1>. QED BY <1>1, <1>2, PTL DEF Spec

(***************************************************************************)
(* Typed: the state has its type; at most one timer of the connector waits *)
(* at a time, for any program and any number of attempts.                  *)
(***************************************************************************)
THEOREM Typed == Spec => []TypeOK
<1>1. IInv => TypeOK
  BY DEF IInv
<1>. QED BY <1>1, Inductive, PTL

(***************************************************************************)
(* FailuresKnown: no assertion of Connector, TcpClient, the channels and   *)
(* either poller fails, and nothing reaches a destroyed client or a freed  *)
(* connector, but for what MayFail names: stop() or the destructor while   *)
(* the connector's channel is still to be handled, the destructor while a  *)
(* socket waits for resetChannel() or another thread is in stop(), and a   *)
(* callback that outlasts a delay.                                         *)
(***************************************************************************)
THEOREM FailuresKnown == Spec => []NoOtherAssertion
<1>1. IInv => NoOtherAssertion
  BY DEF IInv
<1>. QED BY <1>1, Inductive, PTL

LEMMA Agreed ==
  ASSUME Ok
  PROVE  PollerAgrees
<1>. DEFINE R == Registered(poller)
            A == {<<TimerChannel, {"R"}>>, <<WakeupChannel, {"R"}>>}
            B == IF state_ = "kConnecting" THEN {<<ConnectorChannel(channel_), {"W"}>>} ELSE {}
            C == {<<ConnChannel(fd), conn[fd].events>> :
                     fd \in {d \in DOMAIN conn : conn[d].events # {}}}
<1>1. View(R, state_, channel_, conn) /\ Watched = Looked(R)
  BY OkPoller, Watches
<1>2. \A fd \in DOMAIN conn : conn[fd].events # {} => conn[fd].added
  BY DEF Ok, ConnectionInv
<1>3. \A ch, e : Entry(ch, e).channel = ch /\ Entry(ch, e).events = e
  BY DEF Entry
<1>4. /\ 0 \in DOMAIN R /\ R[0].channel = TimerChannel /\ R[0].events = {"R"}
      /\ 1 \in DOMAIN R /\ R[1].channel = WakeupChannel /\ R[1].events = {"R"}
  BY <1>1, <1>3 DEF View
<1>5. state_ = "kConnecting" => /\ channel_ \in DOMAIN R
                                /\ R[channel_].channel = ConnectorChannel(channel_)
                                /\ R[channel_].events = {"W"}
  BY <1>1, <1>3 DEF View
<1>6. \A fd \in DOMAIN conn : conn[fd].added => /\ fd \in DOMAIN R
                                                /\ R[fd].channel = ConnChannel(fd)
                                                /\ R[fd].events = conn[fd].events
  BY <1>1, <1>3 DEF View
<1>7. \A d \in DOMAIN R : \/ d = 0 \/ d = 1
                          \/ d = channel_ /\ state_ = "kConnecting"
                          \/ d \in DOMAIN conn /\ conn[d].added
  BY <1>1 DEF View
<1>8. Looked(R) = {<<R[fd].channel, R[fd].events>> : fd \in {d \in DOMAIN R : R[d].events # {}}}
  BY DEF Looked
<1>. HIDE DEF R
<1>9. Looked(R) \subseteq A \cup B \cup C
  <2>. SUFFICES ASSUME NEW fd \in DOMAIN R, R[fd].events # {}
                PROVE  <<R[fd].channel, R[fd].events>> \in A \cup B \cup C
    BY <1>8
  <2>1. CASE fd = 0 \/ fd = 1
    BY <1>4, <2>1
  <2>2. CASE fd = channel_ /\ state_ = "kConnecting"
    BY <1>5, <2>2
  <2>3. CASE fd \in DOMAIN conn /\ conn[fd].added
    BY <1>6, <2>3
  <2>. QED BY <1>7, <2>1, <2>2, <2>3
<1>10. A \subseteq Looked(R) /\ B \subseteq Looked(R)
  <2>1. {"R"} # {} /\ {"W"} # {}
    OBVIOUS
  <2>2. A \subseteq Looked(R)
    BY <1>4, <1>8, <2>1
  <2>3. B \subseteq Looked(R)
    BY <1>5, <1>8, <2>1
  <2>. QED BY <2>2, <2>3
<1>11. C \subseteq Looked(R)
  BY <1>2, <1>6, <1>8
<1>12. Watched = A \cup B \cup C
  <2>. HIDE DEF A, B, C
  <2>. QED BY <1>1, <1>9, <1>10, <1>11
<1>. QED BY <1>12 DEF PollerAgrees

(***************************************************************************)
(* Agrees: whatever channels came and went, and in whatever places of the  *)
(* array, poll() and epoll watch the connector's channel exactly in state  *)
(* kConnecting, and the connections whose channels wait for events.        *)
(***************************************************************************)
THEOREM Agrees == Spec => []PollerAgrees
<1>1. IInv => PollerAgrees
  <2>1. ASSUME IInv, failed = {} PROVE PollerAgrees
    BY <2>1, Agreed DEF IInv, Ok
  <2>2. ASSUME failed # {} PROVE PollerAgrees
    BY <2>2 DEF PollerAgrees
  <2>. QED BY <2>1, <2>2
<1>. QED BY <1>1, Inductive, PTL

LEMMA StaysStopped ==
  ASSUME IInv, Next, stopped, ~overtaken
  PROVE  /\ state_' = "kConnecting" => state_ = "kConnecting"
         /\ connection_' \in {connection_, None}
<1>. USE DEF clientVars, connectorVars, connVars, loopVars, history
<1>1. Ok /\ ~connectorOn /\ phase # "restart"
  BY DEF Next, IInv, Ok, StopInv
<1>2. ~restart
  BY <1>1 DEF restart
<1>3. \A n : startInLoop(n, connectorOn) => UNCHANGED state_
  BY <1>1 DEF startInLoop, Wanted
<1>4. \A on : stopInLoop(on) => (state_' = "kConnecting" => state_ = "kConnecting")
  BY DEF stopInLoop
<1>5. CASE poll \/ takeBatch \/ endBatch
  BY <1>5 DEF poll, takeBatch, endBatch
<1>6. CASE callStartInLoop \/ callStopInLoop
  BY <1>3, <1>4, <1>6 DEF callStartInLoop, callStopInLoop, calls
<1>7. CASE callResetChannel \/ callConnectDestroyed
  BY <1>7 DEF callResetChannel, callConnectDestroyed, calls
<1>8. CASE handleConnector
  BY <1>1, <1>8 DEF handleConnector, attemptFails, attemptSucceeds
<1>9. CASE handleTimer
  BY <1>3, <1>9 DEF handleTimer
<1>10. CASE \E fd \in DOMAIN conn : handleConnection(fd)
  BY <1>10 DEF handleConnection
<1>11. CASE OtherRuns
  BY <1>11 DEF OtherRuns, otherStores, otherStops, otherQueues
<1>12. CASE stop
  BY <1>4, <1>12 DEF stop
<1>13. CASE disconnect
  BY <1>13 DEF disconnect
<1>14. CASE destroy
  BY <1>4, <1>14 DEF destroy
<1>15. CASE \E fd \in DOMAIN conn : peerCloses(fd)
  BY <1>15 DEF peerCloses
<1>. QED BY <1>2, <1>5, <1>6, <1>7, <1>8, <1>9, <1>10, <1>11, <1>12, <1>13, <1>14, <1>15
         DEF Next, LoopRuns, Functors, ProgramCalls

(***************************************************************************)
(* StaysSo: once stop() is over no attempt begins and no connection is     *)
(* established, whatever timers and functors were left, unless restart()   *)
(* overtook the stop().                                                    *)
(***************************************************************************)
THEOREM StaysSo == Spec => StopStops
<1>1. IInv /\ [Next]_vars =>
        [stopped /\ ~overtaken => /\ state_' = "kConnecting" => state_ = "kConnecting"
                                  /\ connection_' \in {connection_, None}]_vars
  BY StaysStopped
<1>. QED BY <1>1, Inductive, PTL DEF Spec, StopStops
=============================================================================
