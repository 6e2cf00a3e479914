----------------------------- MODULE HttpProofs -----------------------------
(***************************************************************************)
(* Proofs about Http and Buffer, for any stream, any cuts and any sizes of *)
(* the buffer.                                                             *)
(***************************************************************************)
EXTENDS Http, FiniteSetTheorems, SequenceTheorems, WellFoundedInduction, TLAPS

-----------------------------------------------------------------------------
(***************************************************************************)
(* Buffer.  The lemmas say of each operation which bytes of s can be read  *)
(* afterwards: those behind the first m, up to the n-th.                   *)
(***************************************************************************)
GoodBuffer(b) ==
  /\ b \in [buffer_ : Seq(Bytes), readerIndex_ : Nat, writerIndex_ : Nat]
  /\ kCheapPrepend <= b.readerIndex_ /\ b.readerIndex_ <= b.writerIndex_
  /\ b.writerIndex_ <= Len(b.buffer_)

Window(b, s, m, n) ==
  /\ readableBytes(b) = n - m
  /\ \A i \in 1..(n - m) : b.buffer_[b.readerIndex_ + i] = s[m + i]

\* The same of a buffer given by its fields.
IsBuffer(b, v, r, w) ==
  /\ v \in Seq(Bytes) /\ r \in Nat /\ w \in Nat
  /\ kCheapPrepend <= r /\ r <= w /\ w <= Len(v)
  /\ b = [buffer_ |-> v, readerIndex_ |-> r, writerIndex_ |-> w]

Shows(v, r, w, s, m, n) == w - r = n - m /\ \A i \in 1..(n - m) : v[r + i] = s[m + i]

LEMMA BufferFields ==
  ASSUME NEW b, GoodBuffer(b)
  PROVE  \E v, r, w : IsBuffer(b, v, r, w)
<1>1. IsBuffer(b, b.buffer_, b.readerIndex_, b.writerIndex_)
  BY DEF GoodBuffer, IsBuffer
<1>. QED BY <1>1

LEMMA Built ==
  ASSUME NEW b, NEW v, NEW r, NEW w, IsBuffer(b, v, r, w)
  PROVE  /\ GoodBuffer(b)
         /\ b.buffer_ = v /\ b.readerIndex_ = r /\ b.writerIndex_ = w
         /\ readableBytes(b) = w - r /\ writableBytes(b) = Len(v) - w /\ prependableBytes(b) = r
BY DEF IsBuffer, GoodBuffer, readableBytes, writableBytes, prependableBytes

LEMMA WindowFields ==
  ASSUME NEW b, NEW v, NEW r, NEW w, IsBuffer(b, v, r, w), NEW s, NEW m, NEW n
  PROVE  Window(b, s, m, n) <=> Shows(v, r, w, s, m, n)
<1>1. b.buffer_ = v /\ b.readerIndex_ = r /\ readableBytes(b) = w - r
  BY Built
<1>. QED BY <1>1 DEF Window, Shows

\* What the fields of a buffer are, for arithmetic.
LEMMA Sizes ==
  ASSUME NEW b, NEW v, NEW r, NEW w, IsBuffer(b, v, r, w)
  PROVE  /\ v \in Seq(Bytes) /\ Len(v) \in Nat /\ r \in Nat /\ w \in Nat
         /\ kCheapPrepend \in Nat /\ kCheapPrepend <= r /\ r <= w /\ w <= Len(v)
BY LenProperties, BufferAssumption DEF IsBuffer

\* u is v, of length k, with the n bytes of data behind its first at bytes.
IsCopy(u, v, k, at, data, n) ==
  /\ u \in Seq(Bytes) /\ Len(u) = k
  /\ \A i \in 1..k : i - at \notin 1..n => u[i] = v[i]
  /\ \A j \in 1..n : at + j \in 1..k => u[at + j] = data[j]

LEMMA CopiedBytes ==
  ASSUME NEW v \in Seq(Bytes), NEW at \in Nat, NEW data \in Seq(Bytes)
  PROVE  IsCopy(copied(v, at, data), v, Len(v), at, data, Len(data))
<1>. PICK k \in Nat, n \in Nat : k = Len(v) /\ n = Len(data)
  BY LenProperties
<1>1. DOMAIN v = 1..k /\ DOMAIN data = 1..n /\ v \in [1..k -> Bytes] /\ data \in [1..n -> Bytes]
  BY LenProperties
<1>2. copied(v, at, data) = [i \in 1..k |-> IF i - at \in 1..n THEN data[i - at] ELSE v[i]]
  BY <1>1 DEF copied
<1>3. copied(v, at, data) \in [1..k -> Bytes]
  BY <1>1, <1>2
<1>4. copied(v, at, data) \in Seq(Bytes) /\ Len(copied(v, at, data)) = k
  BY <1>3
<1>5. ASSUME NEW j \in 1..n, at + j \in 1..k PROVE copied(v, at, data)[at + j] = data[j]
  <2>1. (at + j) - at = j
    OBVIOUS
  <2>. QED BY <1>2, <1>5, <2>1
<1>. QED BY <1>2, <1>4, <1>5 DEF IsCopy

LEMMA ZeroBytes ==
  ASSUME NEW n \in Nat
  PROVE  Zeros(n) \in Seq(Bytes) /\ Len(Zeros(n)) = n
<1>1. Zeros(n) \in [1..n -> Bytes]
  BY DEF Zeros, Bytes
<1>. QED BY <1>1

\* What SubSeq gives of a sequence of bytes.
LEMMA Cut ==
  ASSUME NEW s \in Seq(Bytes), NEW m \in Nat, NEW n \in Nat, m <= n, n <= Len(s)
  PROVE  /\ SubSeq(s, m + 1, n) \in Seq(Bytes) /\ Len(SubSeq(s, m + 1, n)) = n - m
         /\ \A i \in 1..(n - m) : SubSeq(s, m + 1, n)[i] = s[m + i]
<1>1. \A i \in (m + 1)..n : s[i] \in Bytes
  BY LenProperties
<1>2. /\ SubSeq(s, m + 1, n) \in Seq(Bytes)
      /\ Len(SubSeq(s, m + 1, n)) = IF m + 1 <= n THEN n - (m + 1) + 1 ELSE 0
      /\ \A i \in 1..(n - (m + 1) + 1) : SubSeq(s, m + 1, n)[i] = s[(m + 1) + i - 1]
  BY <1>1, SubSeqProperties, SMTT(60)
<1>3. n - (m + 1) + 1 = n - m /\ \A i \in 1..(n - m) : (m + 1) + i - 1 = m + i
  OBVIOUS
<1>. QED BY <1>2, <1>3

\* Two sequences, one behind the other.
LEMMA Joined ==
  ASSUME NEW x \in Seq(Bytes), NEW z \in Seq(Bytes)
  PROVE  /\ x \o z \in Seq(Bytes) /\ Len(x \o z) = Len(x) + Len(z)
         /\ \A i \in 1..Len(x) : (x \o z)[i] = x[i]
BY ConcatProperties, LenProperties

\* The readable bytes, as the vector holds them.
LEMMA ReadableBytes ==
  ASSUME NEW b, NEW v, NEW r, NEW w, IsBuffer(b, v, r, w)
  PROVE  /\ readable(b) \in Seq(Bytes) /\ Len(readable(b)) = w - r
         /\ \A i \in 1..(w - r) : readable(b)[i] = v[r + i]
<1>1. readable(b) = SubSeq(v, r + 1, w)
  BY Built DEF readable
<1>2. v \in Seq(Bytes) /\ r \in Nat /\ w \in Nat /\ r <= w /\ w <= Len(v)
  BY Sizes
<1>. QED BY <1>1, <1>2, Cut

\* Retrieving bytes gives up those, and no others.
LEMMA Retrieved ==
  ASSUME NEW b, GoodBuffer(b), NEW s, NEW m \in Nat, NEW n \in Nat, Window(b, s, m, n),
         NEW len \in Nat, len <= n - m
  PROVE  GoodBuffer(retrieve(b, len)) /\ Window(retrieve(b, len), s, m + len, n)
<1>1. PICK v, r, w : IsBuffer(b, v, r, w)
  BY BufferFields
<1>. PICK C, L : C = kCheapPrepend /\ L = Len(v)
  OBVIOUS
<1>2. /\ v \in Seq(Bytes) /\ L \in Nat /\ r \in Nat /\ w \in Nat
      /\ C \in Nat /\ C <= r /\ r <= w /\ w <= L
  BY <1>1, Sizes
<1>3. Shows(v, r, w, s, m, n)
  BY <1>1, WindowFields
<1>4. w - r = n - m /\ \A i \in 1..(n - m) : v[r + i] = s[m + i]
  BY <1>3 DEF Shows
<1>5. readableBytes(b) = w - r
  BY <1>1, Built
<1>6. CASE len < w - r
  <2>. PICK q : q = r + len
    OBVIOUS
  <2>1. q \in Nat /\ C <= q /\ q <= w /\ w - q = n - (m + len)
    BY <1>2, <1>4, <1>6
  <2>2. IsBuffer(retrieve(b, len), v, q, w)
    BY <1>1, <1>2, <1>5, <1>6, <2>1 DEF retrieve, IsBuffer
  <2>3. ASSUME NEW i \in 1..(n - (m + len)) PROVE v[q + i] = s[(m + len) + i]
    <3>1. len + i \in 1..(n - m) /\ q + i = r + (len + i) /\ (m + len) + i = m + (len + i)
      BY <1>2, <2>3
    <3>. QED BY <1>4, <3>1
  <2>4. Shows(v, q, w, s, m + len, n)
    BY <2>1, <2>3 DEF Shows
  <2>. QED BY <2>2, <2>4, Built, WindowFields
<1>7. CASE ~(len < w - r)
  <2>1. n - (m + len) = 0 /\ C - C = 0 /\ C <= L
    BY <1>2, <1>4, <1>7
  <2>2. IsBuffer(retrieve(b, len), v, C, C)
    <3>1. retrieve(b, len) = [b EXCEPT !.readerIndex_ = C, !.writerIndex_ = C]
      BY <1>5, <1>7 DEF retrieve, retrieveAll
    <3>2. b = [buffer_ |-> v, readerIndex_ |-> r, writerIndex_ |-> w]
      BY <1>1 DEF IsBuffer
    <3>3. retrieve(b, len) = [buffer_ |-> v, readerIndex_ |-> C, writerIndex_ |-> C]
      BY <3>1, <3>2
    <3>. QED BY <1>2, <2>1, <3>3 DEF IsBuffer
  <2>3. Shows(v, C, C, s, m + len, n)
    BY <2>1 DEF Shows
  <2>. QED BY <2>2, <2>3, Built, WindowFields
<1>. QED BY <1>2, <1>6, <1>7

\* makeSpace keeps the bytes, whether it moves them or enlarges the vector.
LEMMA SpaceMade ==
  ASSUME NEW b, GoodBuffer(b), NEW s, NEW m \in Nat, NEW n \in Nat, Window(b, s, m, n),
         NEW len \in Nat, writableBytes(b) < len
  PROVE  /\ GoodBuffer(makeSpace(b, len)) /\ Window(makeSpace(b, len), s, m, n)
         /\ writableBytes(makeSpace(b, len)) >= len
<1>1. PICK v, r, w : IsBuffer(b, v, r, w)
  BY BufferFields
<1>. PICK C, L : C = kCheapPrepend /\ L = Len(v)
  OBVIOUS
<1>2. /\ v \in Seq(Bytes) /\ L \in Nat /\ r \in Nat /\ w \in Nat
      /\ C \in Nat /\ C <= r /\ r <= w /\ w <= L
  BY <1>1, Sizes
<1>3. Shows(v, r, w, s, m, n)
  BY <1>1, WindowFields
<1>4. w - r = n - m /\ \A i \in 1..(n - m) : v[r + i] = s[m + i]
  BY <1>3 DEF Shows
<1>5. /\ b.buffer_ = v /\ b.readerIndex_ = r /\ b.writerIndex_ = w
      /\ readableBytes(b) = w - r /\ writableBytes(b) = L - w /\ prependableBytes(b) = r
  BY <1>1, Built
<1>6. CASE ~Room(b, len)
  <2>. PICK x, z, u : x = SubSeq(v, 1, w) /\ z = Zeros(len) /\ u = x \o z
    OBVIOUS
  <2>1. x \in Seq(Bytes) /\ Len(x) = w /\ \A i \in 1..w : x[i] = v[i]
    <3>1. /\ SubSeq(v, 0 + 1, w) \in Seq(Bytes) /\ Len(SubSeq(v, 0 + 1, w)) = w - 0
          /\ \A i \in 1..(w - 0) : SubSeq(v, 0 + 1, w)[i] = v[0 + i]
      BY <1>2, Cut
    <3>2. 0 + 1 = 1 /\ w - 0 = w /\ \A i \in 1..w : 0 + i = i
      BY <1>2
    <3>. QED BY <3>1, <3>2
  <2>2. z \in Seq(Bytes) /\ Len(z) = len
    BY ZeroBytes
  <2>3. u \in Seq(Bytes) /\ Len(u) = w + len /\ \A i \in 1..w : u[i] = x[i]
    BY <2>1, <2>2, Joined
  <2>4. w <= w + len /\ (w + len) - w >= len
    BY <1>2
  <2>5. IsBuffer(makeSpace(b, len), u, r, w)
    <3>1. makeSpace(b, len) = [b EXCEPT !.buffer_ = u]
      BY <1>5, <1>6 DEF makeSpace
    <3>. QED BY <1>1, <1>2, <2>3, <2>4, <3>1 DEF IsBuffer
  <2>6. Shows(u, r, w, s, m, n)
    <3>1. \A i \in 1..(n - m) : r + i \in 1..w
      BY <1>2, <1>4
    <3>. QED BY <1>4, <2>1, <2>3, <3>1 DEF Shows
  <2>7. writableBytes(makeSpace(b, len)) >= len
    <3>1. writableBytes(makeSpace(b, len)) = Len(u) - w
      BY <2>5, Built
    <3>. QED BY <2>3, <2>4, <3>1
  <2>. QED BY <2>5, <2>6, <2>7, Built, WindowFields
<1>7. CASE Room(b, len)
  <2>. PICK u, q, d : u = copied(v, C, d) /\ q = C + (w - r) /\ d = readable(b)
    OBVIOUS
  <2>1. d \in Seq(Bytes) /\ Len(d) = w - r /\ \A i \in 1..(w - r) : d[i] = v[r + i]
    BY <1>1, ReadableBytes
  <2>2. u \in Seq(Bytes) /\ Len(u) = L /\ \A j \in 1..(w - r) : C + j \in 1..L => u[C + j] = d[j]
    <3>1. /\ u \in Seq(Bytes) /\ Len(u) = Len(v)
          /\ \A j \in 1..Len(d) : C + j \in 1..Len(v) => u[C + j] = d[j]
      <4>1. v \in Seq(Bytes) /\ C \in Nat /\ d \in Seq(Bytes) /\ u = copied(v, C, d)
        BY <1>2, <2>1
      <4>2. IsCopy(u, v, Len(v), C, d, Len(d))
        BY ONLY <4>1, CopiedBytes, ZenonT(60)
      <4>. QED BY ONLY <4>2 DEF IsCopy
    <3>. QED BY <2>1, <3>1
  <2>3. \A j \in 1..(w - r) : C + j \in 1..L
    BY <1>2
  <2>4. (L - w) + r >= len + C
    BY <1>5, <1>7 DEF Room
  <2>5. q \in Nat /\ C <= q /\ q <= L /\ q - C = n - m /\ L - q >= len
    BY <1>2, <1>4, <2>4
  <2>6. IsBuffer(makeSpace(b, len), u, C, q)
    <3>1. makeSpace(b, len) = [buffer_ |-> u, readerIndex_ |-> C, writerIndex_ |-> q]
      BY <1>5, <1>7 DEF makeSpace
    <3>. QED BY <1>2, <2>2, <2>5, <3>1 DEF IsBuffer
  <2>7. Shows(u, C, q, s, m, n)
    BY <1>4, <2>1, <2>2, <2>3, <2>5 DEF Shows
  <2>8. writableBytes(makeSpace(b, len)) >= len
    BY <2>2, <2>5, <2>6, Built
  <2>. QED BY <2>6, <2>7, <2>8, Built, WindowFields
<1>. QED BY <1>6, <1>7

LEMMA SpaceEnsured ==
  ASSUME NEW b, GoodBuffer(b), NEW s, NEW m \in Nat, NEW n \in Nat, Window(b, s, m, n),
         NEW len \in Nat
  PROVE  /\ GoodBuffer(ensureWritableBytes(b, len)) /\ Window(ensureWritableBytes(b, len), s, m, n)
         /\ writableBytes(ensureWritableBytes(b, len)) >= len
<1>1. CASE writableBytes(b) < len
  BY <1>1, SpaceMade DEF ensureWritableBytes
<1>2. CASE ~(writableBytes(b) < len)
  <2>1. PICK v, r, w : IsBuffer(b, v, r, w)
    BY BufferFields
  <2>2. writableBytes(b) \in Int
    BY <2>1, Sizes, Built
  <2>. QED BY <1>2, <2>2 DEF ensureWritableBytes
<1>. QED BY <1>1, <1>2

\* The bytes of data are s[n + 1] to s[k].
Next_(data, s, n, k) == /\ data \in Seq(Bytes) /\ Len(data) = k - n
                        /\ \A j \in 1..(k - n) : data[j] = s[n + j]

\* e is b with data, len bytes, copied behind the readable ones.
Extended(e, b, data, len) == e = [b EXCEPT !.buffer_ = copied(b.buffer_, b.writerIndex_, data),
                                           !.writerIndex_ = b.writerIndex_ + len]

\* Bytes that are copied behind the readable ones become readable.
LEMMA Copied ==
  ASSUME NEW b, GoodBuffer(b), NEW s, NEW m \in Nat, NEW n \in Nat, NEW k \in Nat,
         Window(b, s, m, n), NEW data, Next_(data, s, n, k), n <= k, writableBytes(b) >= k - n,
         NEW e, Extended(e, b, data, k - n)
  PROVE  GoodBuffer(e) /\ Window(e, s, m, k)
<1>1. PICK v, r, w : IsBuffer(b, v, r, w)
  BY BufferFields
<1>. PICK C, L : C = kCheapPrepend /\ L = Len(v)
  OBVIOUS
<1>2. /\ v \in Seq(Bytes) /\ L \in Nat /\ r \in Nat /\ w \in Nat
      /\ C \in Nat /\ C <= r /\ r <= w /\ w <= L
  BY <1>1, Sizes
<1>3. Shows(v, r, w, s, m, n)
  BY <1>1, WindowFields
<1>4. w - r = n - m /\ \A i \in 1..(n - m) : v[r + i] = s[m + i]
  BY <1>3 DEF Shows
<1>5. b.buffer_ = v /\ b.writerIndex_ = w /\ writableBytes(b) = L - w
  BY <1>1, Built
<1>6. data \in Seq(Bytes) /\ Len(data) = k - n /\ \A j \in 1..(k - n) : data[j] = s[n + j]
  BY DEF Next_
<1>. PICK u, q : u = copied(v, w, data) /\ q = w + (k - n)
  OBVIOUS
<1>7. /\ u \in Seq(Bytes) /\ Len(u) = L
      /\ \A i \in 1..L : i - w \notin 1..(k - n) => u[i] = v[i]
      /\ \A j \in 1..(k - n) : w + j \in 1..L => u[w + j] = data[j]
  <2>1. /\ u \in Seq(Bytes) /\ Len(u) = Len(v)
        /\ \A i \in 1..Len(v) : i - w \notin 1..Len(data) => u[i] = v[i]
        /\ \A j \in 1..Len(data) : w + j \in 1..Len(v) => u[w + j] = data[j]
    <3>1. v \in Seq(Bytes) /\ w \in Nat /\ data \in Seq(Bytes) /\ u = copied(v, w, data)
      BY <1>2, <1>6
    <3>2. IsCopy(u, v, Len(v), w, data, Len(data))
      BY ONLY <3>1, CopiedBytes, ZenonT(60)
    <3>. QED BY ONLY <3>2 DEF IsCopy
  <2>. QED BY <1>6, <2>1
<1>0. /\ m \in Nat /\ n \in Nat /\ k \in Nat /\ n <= k /\ L - w >= k - n /\ q = w + (k - n)
      /\ w - r = n - m
  BY <1>4, <1>5
<1>8. q \in Nat /\ C <= r /\ r <= q /\ q <= L /\ q - r = k - m
  BY ONLY <1>0, <1>2
<1>9. IsBuffer(e, u, r, q)
  <2>1. e = [b EXCEPT !.buffer_ = u, !.writerIndex_ = q]
    BY <1>5 DEF Extended
  <2>2. b = [buffer_ |-> v, readerIndex_ |-> r, writerIndex_ |-> w]
    BY <1>1 DEF IsBuffer
  <2>3. e = [buffer_ |-> u, readerIndex_ |-> r, writerIndex_ |-> q]
    BY <2>1, <2>2
  <2>. QED BY <1>2, <1>7, <1>8, <2>3 DEF IsBuffer
<1>10. ASSUME NEW i \in 1..(k - m) PROVE u[r + i] = s[m + i]
  <2>1. CASE i \in 1..(n - m)
    <3>1. r + i \in 1..L /\ (r + i) - w \notin 1..(k - n)
      BY ONLY <1>0, <1>2, <2>1
    <3>. QED BY <1>4, <1>7, <2>1, <3>1
  <2>2. CASE i \notin 1..(n - m)
    <3>. PICK j : j = i - (n - m)
      OBVIOUS
    <3>1. j \in 1..(k - n) /\ w + j = r + i /\ n + j = m + i /\ w + j \in 1..L
      <4>1. i \in 1..(k - m) /\ j = i - (n - m)
        OBVIOUS
      <4>. QED BY ONLY <1>0, <1>2, <1>8, <2>2, <4>1
    <3>. QED BY <1>6, <1>7, <3>1
  <2>. QED BY <2>1, <2>2
<1>11. Shows(u, r, q, s, m, k)
  BY <1>8, <1>10 DEF Shows
<1>. QED BY <1>9, <1>11, Built, WindowFields

\* append: data becomes readable behind what was.
LEMMA Appended ==
  ASSUME NEW b, GoodBuffer(b), NEW s, NEW m \in Nat, NEW n \in Nat, NEW k \in Nat,
         Window(b, s, m, n), NEW data, Next_(data, s, n, k), n <= k
  PROVE  GoodBuffer(append(b, data)) /\ Window(append(b, data), s, m, k)
<1>. PICK len, e : len = Len(data) /\ e = ensureWritableBytes(b, len)
  OBVIOUS
<1>1. len = k - n /\ len \in Nat
  BY DEF Next_
<1>2. GoodBuffer(e) /\ Window(e, s, m, n) /\ writableBytes(e) >= k - n
  BY <1>1, SpaceEnsured
<1>3. Extended(append(b, data), e, data, k - n)
  BY <1>1 DEF append, Extended
<1>. QED BY <1>2, <1>3, Copied

\* readFd: the same, through the vector and extrabuf.
LEMMA ReadFdBytes ==
  ASSUME NEW b, GoodBuffer(b), NEW s \in Seq(Bytes), NEW m \in Nat, NEW n \in Nat, NEW k \in Nat,
         Window(b, s, m, n), n <= k, k <= Len(s)
  PROVE  LET e == readFd(b, SubSeq(s, n + 1, k)) IN GoodBuffer(e) /\ Window(e, s, m, k)
<1>. PICK data, free : data = SubSeq(s, n + 1, k) /\ free = writableBytes(b)
  OBVIOUS
<1>1. Next_(data, s, n, k)
  BY Cut DEF Next_
<1>2. Len(data) = k - n /\ data \in Seq(Bytes) /\ \A j \in 1..(k - n) : data[j] = s[n + j]
  BY <1>1 DEF Next_
<1>3. PICK v, r, w : IsBuffer(b, v, r, w)
  BY BufferFields
<1>. PICK L : L = Len(v)
  OBVIOUS
<1>4. /\ v \in Seq(Bytes) /\ L \in Nat /\ r \in Nat /\ w \in Nat /\ w <= L
      /\ b.buffer_ = v /\ b.writerIndex_ = w /\ free = L - w
  BY <1>3, Sizes, Built
<1>0. m \in Nat /\ n \in Nat /\ k \in Nat /\ n <= k
  OBVIOUS
<1>5. CASE Len(data) <= free
  <2>1. Extended(readFd(b, data), b, data, k - n)
    BY <1>2, <1>5 DEF readFd, Extended
  <2>2. writableBytes(b) >= k - n
    BY <1>2, <1>4, <1>5
  <2>. QED BY <1>1, <2>1, <2>2, Copied
<1>6. CASE ~(Len(data) <= free)
  <2>. PICK h : h = n + free
    OBVIOUS
  <2>1. h \in Nat /\ n <= h /\ h <= k /\ h - n = free
    BY <1>2, <1>4, <1>6
  <2>. PICK first, rest : first = SubSeq(s, n + 1, h) /\ rest = SubSeq(data, free + 1, Len(data))
    OBVIOUS
  <2>2. Next_(first, s, n, h)
    <3>1. h <= Len(s)
      BY <2>1, LenProperties
    <3>2. /\ first \in Seq(Bytes) /\ Len(first) = h - n
          /\ \A j \in 1..(h - n) : first[j] = s[n + j]
      <4>1. s \in Seq(Bytes) /\ first = SubSeq(s, n + 1, h)
        OBVIOUS
      <4>. QED BY ONLY <1>0, <2>1, <3>1, <4>1, Cut
    <3>. QED BY ONLY <3>2 DEF Next_
  <2>3. first \in Seq(Bytes) /\ Len(first) = free /\ \A j \in 1..free : first[j] = s[n + j]
    BY <2>1, <2>2 DEF Next_
  <2>. PICK u, e : u = copied(v, w, data) /\ e = [b EXCEPT !.buffer_ = u, !.writerIndex_ = Len(u)]
    OBVIOUS
  <2>4. u = copied(v, w, first)
    <3>1. DOMAIN v = 1..L /\ DOMAIN data = 1..(k - n) /\ DOMAIN first = 1..free
      BY <1>2, <1>4, <2>3, LenProperties
    <3>2. ASSUME NEW i \in 1..L
          PROVE  (IF i - w \in 1..(k - n) THEN data[i - w] ELSE v[i])
                    = (IF i - w \in 1..free THEN first[i - w] ELSE v[i])
      <4>1. i - w \in 1..(k - n) <=> i - w \in 1..free
        <5>1. i \in 1..L
          OBVIOUS
        <5>. QED BY ONLY <1>0, <1>4, <2>1, <5>1
      <4>2. i - w \in 1..free => data[i - w] = first[i - w]
        BY <1>2, <2>3, <4>1
      <4>. QED BY <4>1, <4>2
    <3>. QED BY <3>1, <3>2 DEF copied
  <2>5. Len(u) = L /\ L = w + (h - n)
    <3>1. Len(u) = L
      <4>1. v \in Seq(Bytes) /\ w \in Nat /\ data \in Seq(Bytes) /\ u = copied(v, w, data)
            /\ L = Len(v)
        BY <1>2, <1>4
      <4>. QED BY ONLY <4>1, CopiedBytes DEF IsCopy
    <3>2. L = w + (h - n)
      BY ONLY <1>0, <1>4, <2>1
    <3>. QED BY <3>1, <3>2
  <2>6. GoodBuffer(e) /\ Window(e, s, m, h)
    <3>1. Extended(e, b, first, h - n)
      BY <1>4, <2>4, <2>5 DEF Extended
    <3>2. free >= h - n
      BY ONLY <1>0, <1>4, <2>1
    <3>3. GoodBuffer(b) /\ Window(b, s, m, n) /\ writableBytes(b) >= h - n
      BY <3>2
    <3>. QED BY ONLY <1>0, <2>1, <2>2, <3>1, <3>3, Copied
  <2>7. Next_(rest, s, h, k)
    <3>1. /\ rest \in Seq(Bytes) /\ Len(rest) = (k - n) - free
          /\ \A i \in 1..((k - n) - free) : rest[i] = data[free + i]
      <4>1. free \in Nat /\ k - n \in Nat /\ free <= k - n
        BY ONLY <1>0, <1>4, <2>1
      <4>2. rest = SubSeq(data, free + 1, k - n)
        BY <1>2
      <4>. PICK len : len = k - n
        OBVIOUS
      <4>3. /\ data \in Seq(Bytes) /\ free \in Nat /\ len \in Nat /\ free <= len
            /\ len <= Len(data) /\ rest = SubSeq(data, free + 1, len)
        <5>1. len <= len
          BY <4>1
        <5>. QED BY <1>2, <4>1, <4>2, <5>1
      <4>4. /\ rest \in Seq(Bytes) /\ Len(rest) = len - free
            /\ \A i \in 1..(len - free) : rest[i] = data[free + i]
        BY ONLY <4>3, Cut
      <4>. QED BY <4>4
    <3>2. (k - n) - free = k - h
      BY ONLY <1>0, <1>4, <2>1
    <3>3. \A i \in 1..(k - h) : free + i \in 1..(k - n) /\ n + (free + i) = h + i
      BY ONLY <1>0, <1>4, <2>1
    <3>4. ASSUME NEW j \in 1..(k - h) PROVE rest[j] = s[h + j]
      <4>1. rest[j] = data[free + j]
        BY ONLY <3>1, <3>2, <3>4
      <4>2. data[free + j] = s[n + (free + j)]
        BY <1>2, <3>3
      <4>3. n + (free + j) = h + j
        BY <3>3
      <4>. QED BY ONLY <4>1, <4>2, <4>3
    <3>5. rest \in Seq(Bytes) /\ Len(rest) = k - h
      BY <3>1, <3>2
    <3>. QED BY <3>4, <3>5 DEF Next_
  <2>8. readFd(b, data) = append(e, rest)
    BY <1>4, <1>6 DEF readFd
  <2>9. GoodBuffer(append(e, rest)) /\ Window(append(e, rest), s, m, k)
    BY ONLY <1>0, <2>1, <2>6, <2>7, Appended
  <2>. QED BY <2>8, <2>9
<1>. QED BY <1>5, <1>6

\* A non-empty set of numbers has a least one.
LEMMA LeastNumber ==
  ASSUME NEW T \in SUBSET Nat, T # {}
  PROVE  \E n \in T : \A m \in T : n <= m
<1>. DEFINE Below == {0..n : n \in T}
<1>1. Below \subseteq FiniteSubsetsOf(Nat) /\ Below # {}
  <2>1. ASSUME NEW n \in T PROVE 0..n \in FiniteSubsetsOf(Nat)
    BY FS_Interval DEF FiniteSubsetsOf
  <2>. QED BY <2>1
<1>2. PICK X \in Below : \A Y \in Below : <<Y, X>> \notin StrictSubsetOrdering(Nat)
  BY <1>1, FS_StrictSubsetOrderingWellFounded, WFMin
<1>3. PICK n \in T : X = 0..n
  OBVIOUS
<1>4. ASSUME NEW m \in T PROVE n <= m
  <2>1. SUFFICES ASSUME m < n PROVE FALSE
    OBVIOUS
  <2>2. 0..m \subseteq 0..n /\ 0..m # 0..n
    BY <2>1
  <2>3. <<0..m, 0..n>> \in StrictSubsetOrdering(Nat)
    BY <2>2 DEF StrictSubsetOrdering
  <2>. QED BY <1>2, <1>3, <2>3
<1>. QED BY <1>4

\* A line with its CRLF is part of what can be read.
LEMMA LineBytes ==
  ASSUME NEW b, GoodBuffer(b), NEW s, NEW m \in Nat, NEW n \in Nat, Window(b, s, m, n), hasCRLF(b)
  PROVE  Len(line(b)) \in Nat /\ Len(line(b)) + 2 <= n - m
<1>1. PICK v, r, w : IsBuffer(b, v, r, w)
  BY BufferFields
<1>2. Shows(v, r, w, s, m, n)
  BY <1>1, WindowFields
<1>. PICK d, len : d = readable(b) /\ len = n - m
  OBVIOUS
<1>3. d \in Seq(Bytes) /\ Len(d) = len
  BY <1>1, <1>2, ReadableBytes DEF Shows
<1>. PICK ends : ends = CRLFs(d)
  OBVIOUS
<1>4. ends # {} /\ ends = {i \in 1..(len - 1) : d[i] = "CR" /\ d[i + 1] = "LF"}
  BY <1>3 DEF hasCRLF, CRLFs
<1>5. ends \subseteq 1..(len - 1) /\ ends \in SUBSET Nat
  BY <1>4
<1>. PICK crlf : crlf = CHOOSE i \in ends : \A j \in ends : i <= j
  OBVIOUS
<1>6. crlf \in ends
  <2>1. \E i \in ends : \A j \in ends : i <= j
    BY <1>4, <1>5, LeastNumber
  <2>. QED BY <2>1
<1>7. line(b) = SubSeq(d, 1, crlf - 1)
  BY DEF line
<1>8. len \in Nat /\ crlf \in Nat /\ crlf >= 1 /\ crlf <= len - 1
  <2>1. len \in Nat
    BY <1>3, LenProperties
  <2>2. crlf \in 1..(len - 1)
    BY <1>5, <1>6
  <2>. QED BY ONLY <2>1, <2>2
<1>. PICK k : k = crlf - 1
  OBVIOUS
<1>9. k \in Nat /\ k + 2 <= len /\ k <= len
  BY <1>8
<1>10. Len(SubSeq(d, 0 + 1, k)) = k - 0
  BY ONLY <1>3, <1>9, Cut
<1>11. line(b) = SubSeq(d, 0 + 1, k) /\ k - 0 = k
  BY <1>7, <1>9
<1>. QED BY <1>9, <1>10, <1>11
-----------------------------------------------------------------------------
(***************************************************************************)
(* The lines of a stream.  What Kinds, a recursive function, gives is      *)
(* shown by induction on numbers, in the form of a set of numbers that has *)
(* 0 and with each number the next one.                                    *)
(***************************************************************************)
LEMMA Induction ==
  ASSUME NEW T \in SUBSET Nat, 0 \in T, \A n \in T : n + 1 \in T
  PROVE  T = Nat
<1>. DEFINE U == Nat \ T
<1>1. SUFFICES ASSUME U # {} PROVE FALSE
  OBVIOUS
<1>2. PICK x \in U : \A y \in U : x <= y
  <2>1. U \in SUBSET Nat
    OBVIOUS
  <2>. HIDE DEF U
  <2>. QED BY <1>1, <2>1, LeastNumber
<1>3. x \in Nat /\ x # 0 /\ x - 1 \in Nat
  OBVIOUS
<1>4. x - 1 \in T
  BY <1>2, <1>3
<1>. QED BY <1>3, <1>4

\* What the line is that ends at p, when the one before is of kind k.
KindAt(s, p, k) == IF p \notin LineEnds(s) THEN k
                   ELSE IF k = "end" THEN "request"
                   ELSE IF HasColon(Line(s, p)) THEN "header" ELSE "end"

KindNames == {"end", "request", "header"}

IsKinds(f, s, n) == f[0] = "end" /\ \A p \in 1..n : f[p] = KindAt(s, p, f[p - 1])

LEMMA KindsExist ==
  ASSUME NEW s, NEW n \in Nat
  PROVE  \E f \in [0..n -> KindNames] : IsKinds(f, s, n)
<1>. DEFINE T == {m \in Nat : \E f \in [0..m -> KindNames] : IsKinds(f, s, m)}
<1>1. 0 \in T
  <2>. PICK f : f = [i \in 0..0 |-> "end"]
    OBVIOUS
  <2>1. f \in [0..0 -> KindNames] /\ IsKinds(f, s, 0)
    BY DEF IsKinds, KindNames
  <2>. QED BY <2>1
<1>2. ASSUME NEW m \in T PROVE m + 1 \in T
  <2>1. PICK f \in [0..m -> KindNames] : IsKinds(f, s, m)
    OBVIOUS
  <2>. PICK e : e = KindAt(s, m + 1, f[m])
    OBVIOUS
  <2>. PICK g : g = [i \in 0..(m + 1) |-> IF i = m + 1 THEN e ELSE f[i]]
    OBVIOUS
  <2>2. e \in KindNames
    BY <2>1 DEF KindAt, KindNames
  <2>3. g \in [0..(m + 1) -> KindNames] /\ g[m + 1] = e /\ \A i \in 0..m : g[i] = f[i]
    BY <2>1, <2>2
  <2>4. ASSUME NEW p \in 1..(m + 1) PROVE g[p] = KindAt(s, p, g[p - 1])
    <3>1. CASE p = m + 1
      <4>1. p - 1 = m /\ m \in 0..m
        BY <3>1
      <4>. QED BY <2>3, <3>1, <4>1
    <3>2. CASE p # m + 1
      <4>1. p \in 1..m /\ p \in 0..m /\ p - 1 \in 0..m
        BY <3>2
      <4>2. f[p] = KindAt(s, p, f[p - 1])
        BY <2>1, <4>1 DEF IsKinds
      <4>. QED BY <2>3, <4>1, <4>2
    <3>. QED BY <3>1, <3>2
  <2>5. g[0] = "end"
    BY <2>1, <2>3 DEF IsKinds
  <2>6. IsKinds(g, s, m + 1)
    BY <2>4, <2>5 DEF IsKinds
  <2>. QED BY <2>3, <2>6
<1>3. T = Nat
  <2>1. T \in SUBSET Nat
    OBVIOUS
  <2>. HIDE DEF T
  <2>. QED BY <1>1, <1>2, <2>1, Induction
<1>. QED BY <1>3

\* The equation of Kinds.
LEMMA KindsAre ==
  ASSUME NEW s, Len(s) \in Nat
  PROVE  IsKinds(Kinds(s), s, Len(s))
<1>. DEFINE Is(f) == f = [p \in 0..Len(s) |->
                            IF p = 0 THEN "end"
                            ELSE IF p \notin LineEnds(s) THEN f[p - 1]
                            ELSE IF f[p - 1] = "end" THEN "request"
                            ELSE IF HasColon(Line(s, p)) THEN "header" ELSE "end"]
            c == CHOOSE f : Is(f)
<1>1. Kinds(s) = c
  BY DEF Kinds
<1>2. PICK f \in [0..Len(s) -> KindNames] : IsKinds(f, s, Len(s))
  BY KindsExist
<1>3. Is(f)
  BY <1>2 DEF IsKinds, KindAt
<1>4. Is(c)
  <2>. HIDE DEF Is
  <2>. QED BY <1>3
<1>. HIDE DEF c
<1>5. IsKinds(c, s, Len(s))
  BY <1>4 DEF IsKinds, KindAt
<1>. QED BY <1>1, <1>5

\* The line that ends at p comes behind the first m bytes.
NextLine(s, m, p) ==
  /\ m \in {0} \cup LineEnds(s) /\ p \in LineEnds(s) /\ m < p
  /\ \A q \in LineEnds(s) : q <= m \/ p <= q

LEMMA LineNumbers ==
  ASSUME NEW s, Len(s) \in Nat
  PROVE  /\ LineEnds(s) \subseteq 2..Len(s) /\ LineEnds(s) \subseteq Nat
         /\ {0} \cup LineEnds(s) \subseteq 0..Len(s)
BY DEF LineEnds

LEMMA IsMax ==
  ASSUME NEW S \in SUBSET Nat, NEW x \in S, \A y \in S : y <= x
  PROVE  Max(S) = x
<1>1. \A y \in S : x >= y
  OBVIOUS
<1>2. Max(S) \in S /\ \A y \in S : Max(S) >= y
  BY <1>1 DEF Max
<1>3. Max(S) \in Nat /\ x \in Nat /\ Max(S) >= x /\ x >= Max(S)
  BY <1>1, <1>2
<1>. QED BY ONLY <1>3

LEMMA LineIs ==
  ASSUME NEW s, Len(s) \in Nat, NEW m, NEW p, NextLine(s, m, p)
  PROVE  Line(s, p) = SubSeq(s, m + 1, p - 2)
<1>. PICK S : S = {0} \cup {q \in LineEnds(s) : q < p}
  OBVIOUS
<1>1. S \in SUBSET Nat /\ m \in S /\ \A y \in S : y <= m
  BY LineNumbers DEF NextLine
<1>2. Max(S) = m
  BY <1>1, IsMax
<1>. QED BY <1>2 DEF Line

\* Between two lines the kind does not change.
LEMMA KindIs ==
  ASSUME NEW s, Len(s) \in Nat, NEW m, NEW p, NextLine(s, m, p)
  PROVE  Kinds(s)[p] = KindAt(s, p, Kinds(s)[m])
<1>. PICK k : k = Kinds(s)
  OBVIOUS
<1>1. \A q \in 1..Len(s) : k[q] = KindAt(s, q, k[q - 1])
  BY KindsAre DEF IsKinds
<1>2. /\ m \in Nat /\ p \in 1..Len(s) /\ m < p /\ p - 1 \in Nat
      /\ \A q \in Nat : m < q /\ q < p => q \notin LineEnds(s)
  BY LineNumbers DEF NextLine
<1>. DEFINE T == {q \in Nat : m <= q /\ q < p => k[q] = k[m]}
<1>3. 0 \in T
  BY <1>2
<1>4. ASSUME NEW q \in T PROVE q + 1 \in T
  <2>1. SUFFICES ASSUME m <= q + 1, q + 1 < p PROVE k[q + 1] = k[m]
    OBVIOUS
  <2>2. CASE m = q + 1
    BY <2>2
  <2>3. CASE m # q + 1
    <3>1. /\ m <= q /\ q < p /\ m < q + 1 /\ q + 1 \in 1..Len(s) /\ (q + 1) - 1 = q
          /\ q + 1 \in Nat
      BY <1>2, <2>1, <2>3
    <3>2. k[q + 1] = k[q]
      BY <1>1, <1>2, <2>1, <3>1 DEF KindAt
    <3>. QED BY <3>1, <3>2
  <2>. QED BY <2>2, <2>3
<1>5. T = Nat
  <2>1. T \in SUBSET Nat
    OBVIOUS
  <2>. HIDE DEF T
  <2>. QED BY <1>3, <1>4, <2>1, Induction
<1>6. k[p - 1] = k[m]
  BY <1>2, <1>5
<1>. QED BY <1>1, <1>2, <1>6

LEMMA OfKindStep ==
  ASSUME NEW s, Len(s) \in Nat, NEW m, NEW p, NextLine(s, m, p), NEW kind
  PROVE  OfKind(s, kind, p) = OfKind(s, kind, m) \cup (IF Kinds(s)[p] = kind THEN {p} ELSE {})
<1>1. ASSUME NEW q \in LineEnds(s)
      PROVE  q <= p <=> q <= m \/ q = p
  BY LineNumbers DEF NextLine
<1>2. p \in LineEnds(s)
  BY DEF NextLine
<1>. QED BY <1>1, <1>2 DEF OfKind

LEMMA OfKindSet ==
  ASSUME NEW s, Len(s) \in Nat, NEW kind, NEW p \in Nat
  PROVE  /\ OfKind(s, kind, p) \in SUBSET Nat /\ IsFiniteSet(OfKind(s, kind, p))
         /\ \A q \in OfKind(s, kind, p) : q \in LineEnds(s) /\ q <= p /\ Kinds(s)[q] = kind
<1>1. OfKind(s, kind, p) \subseteq 2..Len(s)
  BY LineNumbers DEF OfKind
<1>2. IsFiniteSet(2..Len(s))
  BY FS_Interval
<1>3. OfKind(s, kind, p) \subseteq Nat
  BY <1>1
<1>. QED BY <1>1, <1>2, <1>3, FS_Subset DEF OfKind

\* A set of numbers up to n has a greatest one.
LEMMA MaxIs ==
  ASSUME NEW S \in SUBSET Nat, S # {}, NEW n \in Nat, \A x \in S : x <= n
  PROVE  Max(S) \in S /\ \A y \in S : y <= Max(S)
<1>. DEFINE T == {k \in Nat : n - k \in S}
<1>1. T # {} /\ T \in SUBSET Nat
  <2>1. PICK x \in S : TRUE
    OBVIOUS
  <2>2. n - x \in Nat /\ n - (n - x) = x
    OBVIOUS
  <2>. QED BY <2>2
<1>2. PICK k \in T : \A j \in T : k <= j
  <2>. HIDE DEF T
  <2>. QED BY <1>1, LeastNumber
<1>3. ASSUME NEW y \in S PROVE y <= n - k
  <2>1. y \in Nat /\ y <= n /\ n - y \in Nat /\ n - (n - y) = y
    OBVIOUS
  <2>2. n - y \in T
    BY <2>1
  <2>3. k <= n - y /\ k \in Nat
    BY <1>2, <2>2
  <2>. QED BY ONLY <2>1, <2>3, n \in Nat
<1>4. n - k \in S
  BY <1>2
<1>5. Max(S) = n - k
  BY <1>3, <1>4, IsMax
<1>. QED BY <1>3, <1>4, <1>5

\* The last Connection header behind the request line f.
Connection(s, f, p) == IF Fields(s, f, p) = {} THEN <<>> ELSE Value(Line(s, Max(Fields(s, f, p))))

LEMMA AskedIs ==
  ASSUME NEW s, NEW p
  PROVE  Asked(s, p) = [method_ |-> Line(s, Max(Requests(s, p)))[1],
                        version_ |-> Line(s, Max(Requests(s, p)))[3],
                        connection |-> Connection(s, Max(Requests(s, p)), p)]
BY DEF Asked, Connection

LEMMA AskedOfRequest ==
  ASSUME NEW s, Len(s) \in Nat, NEW m, NEW p, NextLine(s, m, p), Kinds(s)[p] = "request"
  PROVE  /\ Requests(s, p) # {}
         /\ Asked(s, p) = [method_ |-> Line(s, p)[1], version_ |-> Line(s, p)[3],
                           connection |-> <<>>]
<1>. PICK R : R = Requests(s, p)
  OBVIOUS
<1>1. p \in Nat /\ p \in LineEnds(s)
  BY LineNumbers DEF NextLine
<1>2. p \in R
  BY OfKindStep DEF Requests
<1>3. R \in SUBSET Nat /\ \A q \in R : q <= p
  BY <1>1, OfKindSet DEF Requests
<1>4. Max(R) = p
  BY <1>2, <1>3, IsMax
<1>5. Fields(s, p, p) = {}
  <2>1. \A q \in OfKind(s, "header", p) : q \in Nat /\ q <= p
    BY <1>1, OfKindSet
  <2>2. \A q \in OfKind(s, "header", p) : ~(p < q)
    BY <1>1, <2>1
  <2>. QED BY <2>2 DEF Fields
<1>6. Connection(s, p, p) = <<>>
  BY <1>5 DEF Connection
<1>. QED BY <1>2, <1>4, <1>6, AskedIs

LEMMA AskedOfOther ==
  ASSUME NEW s, Len(s) \in Nat, NEW m, NEW p, NextLine(s, m, p), Kinds(s)[p] # "request",
         Requests(s, m) # {}
  PROVE  /\ Requests(s, p) # {}
         /\ Asked(s, p).method_ = Asked(s, m).method_
         /\ Asked(s, p).version_ = Asked(s, m).version_
         /\ Asked(s, p).connection = IF Kinds(s)[p] = "header" /\ Line(s, p)[1] = "Connection:"
                                     THEN Value(Line(s, p)) ELSE Asked(s, m).connection
<1>1. m \in Nat /\ p \in Nat /\ m < p
  BY LineNumbers DEF NextLine
<1>2. Requests(s, p) = Requests(s, m)
  BY OfKindStep DEF Requests
<1>. PICK f : f = Max(Requests(s, m))
  OBVIOUS
<1>3. f \in Nat /\ f <= m /\ f < p
  <2>1. Requests(s, m) \in SUBSET Nat /\ \A q \in Requests(s, m) : q <= m
    BY <1>1, OfKindSet DEF Requests
  <2>2. f \in Requests(s, m)
    BY <1>1, <2>1, MaxIs
  <2>. QED BY <1>1, <2>1, <2>2
<1>4. CASE Kinds(s)[p] = "header" /\ Line(s, p)[1] = "Connection:"
  <2>. PICK F : F = Fields(s, f, p)
    OBVIOUS
  <2>1. p \in F
    BY <1>3, <1>4, OfKindStep DEF Fields
  <2>2. F \in SUBSET Nat /\ \A q \in F : q <= p
    BY <1>1, OfKindSet DEF Fields
  <2>3. Max(F) = p
    BY <2>1, <2>2, IsMax
  <2>4. Connection(s, f, p) = Value(Line(s, p))
    BY <2>1, <2>3 DEF Connection
  <2>. QED BY <1>2, <1>4, <2>4, AskedIs
<1>5. CASE ~(Kinds(s)[p] = "header" /\ Line(s, p)[1] = "Connection:")
  <2>1. Fields(s, f, p) = Fields(s, f, m)
    BY <1>5, OfKindStep DEF Fields
  <2>2. Connection(s, f, p) = Connection(s, f, m)
    BY <2>1 DEF Connection
  <2>. QED BY <1>2, <1>5, <2>2, AskedIs
<1>. QED BY <1>4, <1>5

\* How many requests end in the first bytes.
LEMMA EndsStep ==
  ASSUME NEW s, Len(s) \in Nat, NEW m, NEW p, NextLine(s, m, p)
  PROVE  /\ Cardinality(Ends(s, m)) \in Nat
         /\ Cardinality(Ends(s, p)) = Cardinality(Ends(s, m)) + IF Kinds(s)[p] = "end" THEN 1 ELSE 0
<1>1. m \in Nat /\ p \in Nat /\ m < p
  BY LineNumbers DEF NextLine
<1>2. IsFiniteSet(Ends(s, m)) /\ p \notin Ends(s, m)
  BY <1>1, OfKindSet DEF Ends
<1>3. Cardinality(Ends(s, m)) \in Nat
  BY <1>2, FS_CardinalityType
<1>4. CASE Kinds(s)[p] = "end"
  <2>1. Ends(s, p) = Ends(s, m) \cup {p}
    BY <1>4, OfKindStep DEF Ends
  <2>. QED BY <1>2, <1>3, <1>4, <2>1, FS_AddElement
<1>5. CASE Kinds(s)[p] # "end"
  <2>1. Ends(s, p) = Ends(s, m) \cup (IF Kinds(s)[p] = "end" THEN {p} ELSE {})
    BY OfKindStep DEF Ends
  <2>2. Ends(s, p) = Ends(s, m)
    BY <1>5, <2>1
  <2>. QED BY <1>3, <1>5, <2>2
<1>. QED BY <1>3, <1>4, <1>5

\* A line in the buffer is the next line of the stream.
LEMMA NextLineIs ==
  ASSUME NEW s \in Seq(Bytes), NEW b, GoodBuffer(b), NEW m \in Nat, NEW n \in Nat,
         Window(b, s, m, n), n <= Len(s), hasCRLF(b), m \in {0} \cup LineEnds(s)
  PROVE  \E p \in Nat : /\ NextLine(s, m, p) /\ p <= n
                        /\ p = m + Len(line(b)) + 2 /\ line(b) = Line(s, p)
<1>1. PICK v, r, w : IsBuffer(b, v, r, w)
  BY BufferFields
<1>2. Shows(v, r, w, s, m, n)
  BY <1>1, WindowFields
<1>. PICK d, len : d = readable(b) /\ len = n - m
  OBVIOUS
<1>0. Len(s) \in Nat
  BY LenProperties
<1>3. d \in Seq(Bytes) /\ Len(d) = len /\ \A i \in 1..len : d[i] = s[m + i]
  <2>1. w - r = len /\ \A i \in 1..len : v[r + i] = s[m + i]
    BY <1>2 DEF Shows
  <2>2. d \in Seq(Bytes) /\ Len(d) = w - r /\ \A i \in 1..(w - r) : d[i] = v[r + i]
    BY <1>1, ReadableBytes
  <2>. QED BY ONLY <2>1, <2>2
<1>. PICK ends : ends = CRLFs(d)
  OBVIOUS
<1>4. ends # {} /\ ends = {i \in 1..(len - 1) : d[i] = "CR" /\ d[i + 1] = "LF"}
  BY <1>3 DEF hasCRLF, CRLFs
<1>5. ends \in SUBSET Nat
  BY <1>4
<1>. PICK crlf : crlf = CHOOSE i \in ends : \A j \in ends : i <= j
  OBVIOUS
<1>6. crlf \in ends /\ \A j \in ends : crlf <= j
  <2>1. \E i \in ends : \A j \in ends : i <= j
    BY <1>4, <1>5, LeastNumber
  <2>. QED BY <2>1
<1>7. line(b) = SubSeq(d, 1, crlf - 1)
  BY DEF line
<1>8. len \in Nat /\ crlf \in 1..(len - 1) /\ d[crlf] = "CR" /\ d[crlf + 1] = "LF"
  BY <1>3, <1>4, <1>6, LenProperties
<1>. PICK k, p : k = crlf - 1 /\ p = m + crlf + 1
  OBVIOUS
<1>9. /\ k \in Nat /\ k <= len /\ p \in Nat /\ p \in 2..Len(s) /\ m < p /\ p <= n
      /\ crlf \in 1..len /\ crlf + 1 \in 1..len /\ p - 1 = m + crlf /\ p = m + (crlf + 1)
      /\ p - 2 = m + k /\ p = m + k + 2
  <2>1. /\ m \in Nat /\ n \in Nat /\ n <= Len(s) /\ len = n - m /\ k = crlf - 1
        /\ p = m + crlf + 1
    OBVIOUS
  <2>2. crlf \in Nat /\ 1 <= crlf /\ crlf <= len - 1
    BY <1>8
  <2>. QED BY ONLY <1>0, <1>8, <2>1, <2>2
<1>10. p \in LineEnds(s)
  BY <1>3, <1>8, <1>9 DEF LineEnds
<1>11. ASSUME NEW q \in LineEnds(s), m < q, q < p PROVE FALSE
  <2>1. q \in 2..Len(s) /\ s[q - 1] = "CR" /\ s[q] = "LF"
    BY DEF LineEnds
  <2>2. CASE q = m + 1
    <3>1. m \in LineEnds(s) /\ q - 1 = m
      BY <2>1, <2>2
    <3>2. s[m] = "LF"
      BY <3>1 DEF LineEnds
    <3>. QED BY <2>1, <3>1, <3>2
  <2>3. CASE q # m + 1
    <3>. PICK j : j = q - 1 - m
      OBVIOUS
    <3>1. /\ j \in 1..(len - 1) /\ j \in 1..len /\ j + 1 \in 1..len /\ m + j = q - 1
          /\ m + (j + 1) = q /\ j < crlf
      <4>1. /\ m \in Nat /\ j = q - 1 - m /\ p = m + crlf + 1 /\ q \in Nat /\ crlf \in Nat
            /\ crlf <= len - 1 /\ m < q /\ q < p
        BY <1>8, <1>11, <2>1
      <4>. QED BY ONLY <1>8, <2>3, <4>1
    <3>2. j \in ends
      <4>1. d[j] = s[q - 1] /\ d[j + 1] = s[q]
        BY <1>3, <3>1
      <4>. QED BY <1>4, <2>1, <3>1, <4>1
    <3>3. crlf <= j /\ crlf \in Nat /\ j \in Nat
      BY <1>5, <1>6, <3>2
    <3>. QED BY ONLY <3>1, <3>3
  <2>. QED BY <2>2, <2>3
<1>12. NextLine(s, m, p)
  <2>1. \A q \in LineEnds(s) : q \in Nat /\ (q <= m \/ p <= q)
    <3>1. ASSUME NEW q \in LineEnds(s) PROVE q \in Nat /\ (q <= m \/ p <= q)
      <4>1. q \in Nat /\ ~(m < q /\ q < p)
        BY <1>0, <1>11, LineNumbers
      <4>. QED BY <1>9, <4>1
    <3>. QED BY <3>1
  <2>. QED BY <1>9, <1>10, <2>1 DEF NextLine
<1>13. /\ SubSeq(d, 0 + 1, k) \in Seq(Bytes) /\ Len(SubSeq(d, 0 + 1, k)) = k - 0
       /\ \A i \in 1..(k - 0) : SubSeq(d, 0 + 1, k)[i] = d[0 + i]
  BY ONLY <1>3, <1>9, Cut
<1>14. line(b) \in Seq(Bytes) /\ Len(line(b)) = k /\ \A i \in 1..k : line(b)[i] = d[i]
  <2>1. line(b) = SubSeq(d, 0 + 1, k) /\ k - 0 = k /\ \A i \in 1..k : 0 + i = i
    BY <1>7, <1>9
  <2>. PICK u : u = SubSeq(d, 0 + 1, k)
    OBVIOUS
  <2>2. u \in Seq(Bytes) /\ Len(u) = k - 0 /\ \A i \in 1..(k - 0) : u[i] = d[0 + i]
    BY <1>13
  <2>3. u \in Seq(Bytes) /\ Len(u) = k /\ \A i \in 1..k : u[i] = d[i]
    BY ONLY <2>1, <2>2
  <2>. QED BY <2>1, <2>3
<1>. PICK t, h : h = m + k /\ t = SubSeq(s, m + 1, h)
  OBVIOUS
<1>15. h \in Nat /\ m <= h /\ h <= Len(s) /\ h - m = k /\ h = p - 2
  <2>1. h = m + k /\ m \in Nat
    OBVIOUS
  <2>. QED BY ONLY <1>0, <1>9, <2>1
<1>16. t \in Seq(Bytes) /\ Len(t) = h - m /\ \A i \in 1..(h - m) : t[i] = s[m + i]
  BY ONLY <1>15, Cut, s \in Seq(Bytes), m \in Nat, t = SubSeq(s, m + 1, h)
<1>17. \A i \in 1..k : i \in 1..len
  BY <1>9
<1>18. line(b) = t
  <2>. PICK u : u = line(b)
    OBVIOUS
  <2>1. u \in Seq(Bytes) /\ Len(u) = Len(t) /\ \A i \in 1..Len(u) : u[i] = t[i]
    BY <1>3, <1>14, <1>15, <1>16, <1>17
  <2>2. u = t
    BY ONLY <1>16, <2>1, SeqEqual
  <2>. QED BY <2>2
<1>19. line(b) = Line(s, p)
  BY <1>0, <1>12, <1>15, <1>18, LineIs
<1>. QED BY <1>9, <1>12, <1>14, <1>19
-----------------------------------------------------------------------------
(***************************************************************************)
(* Http.                                                                   *)
(***************************************************************************)
LEMMA StreamBytes ==
  ASSUME TypeOK
  PROVE  /\ stream \in Seq(Bytes) /\ Len(stream) \in Nat
         /\ received \in Nat /\ consumed \in Nat /\ consumed <= received /\ received <= Len(stream)
<1>1. stream \in Seq(STRING)
  BY StreamsAssumption DEF TypeOK
<1>2. Len(stream) \in Nat /\ stream \in [1..Len(stream) -> STRING]
  BY <1>1, LenProperties
<1>3. stream \in [1..Len(stream) -> Bytes]
  BY <1>2 DEF Bytes
<1>4. stream \in Seq(Bytes)
  BY <1>2, <1>3
<1>. QED BY <1>2, <1>4 DEF TypeOK

\* The window of the buffer is the stream between what was taken and what was read.
Kept == GoodBuffer(buf) /\ Window(buf, stream, consumed, received)

LEMMA KeptBytes ==
  ASSUME TypeOK
  PROVE  BytesKept <=> Kept
<1>1. /\ stream \in Seq(Bytes) /\ Len(stream) \in Nat
      /\ received \in Nat /\ consumed \in Nat /\ consumed <= received /\ received <= Len(stream)
  BY StreamBytes
<1>2. GoodBuffer(buf)
  BY DEF TypeOK, GoodBuffer
<1>3. PICK v, r, w : IsBuffer(buf, v, r, w)
  BY <1>2, BufferFields
<1>4. /\ readable(buf) \in Seq(Bytes) /\ Len(readable(buf)) = w - r
      /\ \A i \in 1..(w - r) : readable(buf)[i] = v[r + i]
  BY <1>3, ReadableBytes
<1>. PICK d, t, len : /\ d = readable(buf) /\ t = SubSeq(stream, consumed + 1, received)
                      /\ len = received - consumed
  OBVIOUS
<1>5. t \in Seq(Bytes) /\ Len(t) = len /\ \A i \in 1..len : t[i] = stream[consumed + i]
  BY <1>1, Cut
<1>6. Shows(v, r, w, stream, consumed, received)
         <=> w - r = len /\ \A i \in 1..len : v[r + i] = stream[consumed + i]
  BY DEF Shows
<1>7. ASSUME d = t PROVE Kept
  <2>1. w - r = len
    BY <1>4, <1>5, <1>7
  <2>2. \A i \in 1..len : v[r + i] = stream[consumed + i]
    BY <1>4, <1>5, <1>7, <2>1
  <2>. QED BY <1>2, <1>3, <1>6, <2>1, <2>2, WindowFields DEF Kept
<1>8. ASSUME Kept PROVE d = t
  <2>1. Shows(v, r, w, stream, consumed, received)
    BY <1>3, <1>8, WindowFields DEF Kept
  <2>2. w - r = len /\ \A i \in 1..len : v[r + i] = stream[consumed + i]
    BY <1>6, <2>1
  <2>3. d \in Seq(Bytes) /\ Len(d) = len /\ \A i \in 1..len : d[i] = t[i]
    BY <1>4, <1>5, <2>2
  <2>. QED BY ONLY <1>5, <2>3, SeqEqual
<1>. QED BY <1>7, <1>8 DEF BytesKept

LEMMA KeptMeans == TypeOK => (BytesKept <=> Kept)
BY KeptBytes

\* What a step does to the buffer and the counters.
LEMMA BufferStep ==
  ASSUME IInv, Next
  PROVE  /\ stream' = stream /\ received' \in 0..Len(stream) /\ consumed' \in 0..received'
         /\ Kept'
<1>1. TypeOK /\ Kept /\ stream' = stream
  BY KeptBytes DEF IInv, Next
<1>2. /\ stream \in Seq(Bytes) /\ Len(stream) \in Nat
      /\ received \in Nat /\ consumed \in Nat /\ consumed <= received /\ received <= Len(stream)
  BY <1>1, StreamBytes
<1>3. GoodBuffer(buf) /\ Window(buf, stream, consumed, received)
  BY <1>1 DEF Kept
<1>4. ASSUME buf' = buf, consumed' = consumed, received' = received
      PROVE  /\ received' \in 0..Len(stream) /\ consumed' \in 0..received'
             /\ Kept'
  <2>1. Window(buf, stream, consumed, received)'
    BY <1>1, <1>3, <1>4 DEF Window, readableBytes
  <2>2. GoodBuffer(buf)'
    BY <1>3, <1>4 DEF GoodBuffer
  <2>. QED BY <1>2, <1>4, <2>1, <2>2 DEF Kept
<1>5. ASSUME NEW b, NEW c, NEW q, buf' = b, consumed' = c, received' = q,
             GoodBuffer(b), Window(b, stream, c, q)
      PROVE  Kept'
  <2>1. Window(buf, stream, consumed, received)'
    BY <1>1, <1>5 DEF Window, readableBytes
  <2>2. GoodBuffer(buf)'
    BY <1>5 DEF GoodBuffer
  <2>. QED BY <2>1, <2>2 DEF Kept
<1>6. ASSUME takeLine, hasCRLF(buf), received' = received
      PROVE  /\ received' \in 0..Len(stream) /\ consumed' \in 0..received'
             /\ Kept'
  <2>. PICK len : len = Len(line(buf)) + 2
    OBVIOUS
  <2>1. len \in Nat /\ len <= received - consumed
    BY <1>2, <1>3, <1>6, LineBytes
  <2>2. buf' = retrieve(buf, len)
    BY <1>6 DEF takeLine, retrieveLine
  <2>3. consumed' = consumed + len
    <3>1. consumed' = consumed + Len(line(buf)) + 2 /\ Len(line(buf)) \in Nat
      BY <1>2, <1>3, <1>6, LineBytes DEF takeLine
    <3>. QED BY <1>2, <3>1
  <2>4. GoodBuffer(retrieve(buf, len)) /\ Window(retrieve(buf, len), stream, consumed + len, received)
    BY <1>2, <1>3, <2>1, Retrieved
  <2>5. Kept'
    BY <1>5, <1>6, <2>2, <2>3, <2>4
  <2>6. received \in 0..Len(stream) /\ consumed + len \in 0..received
    BY ONLY <1>2, <2>1
  <2>. QED BY <1>6, <2>3, <2>5, <2>6
<1>7. ASSUME NEW n \in 1..(Len(stream) - received), handleRead(n)
      PROVE  /\ received' \in 0..Len(stream) /\ consumed' \in 0..received'
             /\ Kept'
  <2>. PICK k : k = received + n
    OBVIOUS
  <2>1. k \in Nat /\ received <= k /\ k <= Len(stream) /\ k \in 0..Len(stream) /\ consumed \in 0..k
    BY <1>2
  <2>2. /\ buf' = readFd(buf, SubSeq(stream, received + 1, k)) /\ received' = k
        /\ consumed' = consumed
    BY <1>7 DEF handleRead
  <2>. PICK b : b = readFd(buf, SubSeq(stream, received + 1, k))
    OBVIOUS
  <2>3. GoodBuffer(b) /\ Window(b, stream, consumed, k)
    BY <1>2, <1>3, <2>1, ReadFdBytes
  <2>4. Kept'
    BY <1>5, <2>2, <2>3
  <2>. QED BY <2>1, <2>2, <2>4
<1>8. CASE needMore
  BY <1>1, <1>4, <1>8 DEF needMore
<1>9. CASE requestLine
  BY <1>1, <1>6, <1>9 DEF requestLine, AtLine
<1>10. CASE badRequestLine
  BY <1>1, <1>4, <1>10 DEF badRequestLine
<1>11. CASE setMethodFails
  BY <1>1, <1>4, <1>11 DEF setMethodFails
<1>12. CASE addHeader
  BY <1>1, <1>6, <1>12 DEF addHeader, AtLine
<1>13. CASE receiveHeaders
  BY <1>1, <1>6, <1>13 DEF receiveHeaders, AtLine
<1>14. CASE onRequest
  BY <1>1, <1>4, <1>14 DEF onRequest
<1>. QED BY <1>1, <1>7, <1>8, <1>9, <1>10, <1>11, <1>12, <1>13, <1>14 DEF Next, Parse

ContextOK == /\ DOMAIN context = {"state_", "method_", "version_", "connection"}
             /\ context.state_ \in {"kExpectRequestLine", "kExpectHeaders", "kGotAll"}
             /\ context.method_ \in Methods \cup {"kInvalid"}
             /\ context.version_ \in Versions \cup {"kUnknown"}

LEMMA ContextStep ==
  ASSUME IInv, Next
  PROVE  /\ ContextOK'
         /\ pc' \in {"read", "parse", "request"} /\ state_' \in {"kConnected", "kDisconnecting"}
<1>. USE DEF ContextOK
<1>1. /\ ContextOK
      /\ pc \in {"read", "parse", "request"} /\ state_ \in {"kConnected", "kDisconnecting"}
  BY DEF IInv, TypeOK
<1>2. ASSUME NEW n, handleRead(n)
      PROVE  /\ context' = context /\ state_' = state_ /\ pc' = "parse"
  BY <1>2 DEF handleRead
<1>3. CASE needMore
  BY <1>1, <1>3 DEF needMore
<1>4. CASE requestLine
  <2>. PICK l : l = line(buf)
    OBVIOUS
  <2>1. /\ context' = [context EXCEPT !.state_ = "kExpectHeaders", !.method_ = l[1], !.version_ = l[3]]
        /\ l[1] \in Methods /\ l[3] \in Versions /\ pc' = pc /\ state_' = state_
    BY <1>4 DEF requestLine, GoodLine, HasMethod
  <2>. QED BY <1>1, <2>1
<1>5. CASE badRequestLine
  <2>. PICK l : l = line(buf)
    OBVIOUS
  <2>1. /\ \/ context' = context
           \/ context' = [context EXCEPT !.method_ = l[1]] /\ l[1] \in Methods
        /\ pc' = "read" /\ state_' = "kDisconnecting"
    BY <1>5 DEF badRequestLine, HasMethod
  <2>. QED BY <1>1, <2>1
<1>6. CASE setMethodFails
  BY <1>1, <1>6 DEF setMethodFails
<1>7. CASE addHeader
  <2>. PICK x : x = Value(line(buf))
    OBVIOUS
  <2>1. /\ context' = context \/ context' = [context EXCEPT !.connection = x]
        /\ pc' = pc /\ state_' = state_
    BY <1>7 DEF addHeader
  <2>. QED BY <1>1, <2>1
<1>8. CASE receiveHeaders
  <2>1. context' = [context EXCEPT !.state_ = "kGotAll"] /\ pc' = "request" /\ state_' = state_
    BY <1>8 DEF receiveHeaders
  <2>. QED BY <1>1, <2>1
<1>9. CASE onRequest
  <2>. PICK x : x = context.version_
    OBVIOUS
  <2>1. /\ context' = [newContext EXCEPT !.version_ = x] /\ pc' = "read"
        /\ state_' \in {"kDisconnecting", state_}
    BY <1>9 DEF onRequest, reset
  <2>. QED BY <1>1, <2>1 DEF newContext
<1>. QED BY <1>1, <1>2, <1>3, <1>4, <1>5, <1>6, <1>7, <1>8, <1>9 DEF Next, Parse

\* A step that takes no line leaves what was parsed.
LEMMA NoLine ==
  ASSUME IInv, stream' = stream, consumed' = consumed
  PROVE  TakenInv'
BY DEF IInv, TakenInv

\* A complete line in the buffer is the next line of the stream.
LEMMA LineStep ==
  ASSUME IInv, hasCRLF(buf)
  PROVE  \E p \in Nat : /\ NextLine(stream, consumed, p) /\ p <= Len(stream)
                        /\ line(buf) = Line(stream, p) /\ (takeLine => consumed' = p)
<1>1. TypeOK /\ Kept /\ consumed \in {0} \cup LineEnds(stream)
  BY KeptBytes DEF IInv, TakenInv
<1>2. /\ stream \in Seq(Bytes) /\ Len(stream) \in Nat
      /\ received \in Nat /\ consumed \in Nat /\ consumed <= received /\ received <= Len(stream)
  BY <1>1, StreamBytes
<1>3. GoodBuffer(buf) /\ Window(buf, stream, consumed, received)
  BY <1>1 DEF Kept
<1>4. PICK p \in Nat : /\ NextLine(stream, consumed, p) /\ p <= received
                       /\ p = consumed + Len(line(buf)) + 2 /\ line(buf) = Line(stream, p)
  BY <1>1, <1>2, <1>3, NextLineIs
<1>5. p <= Len(stream)
  BY <1>2, <1>4
<1>6. takeLine => consumed' = p
  BY <1>4 DEF takeLine
<1>. QED BY <1>4, <1>5, <1>6

\* The kind of the next line, as the parser's state says it.
LEMMA NextKind ==
  ASSUME IInv, NEW p, NextLine(stream, consumed, p)
  PROVE  /\ context.state_ = "kExpectRequestLine" => Kinds(stream)[p] = "request"
         /\ context.state_ = "kExpectHeaders" =>
               Kinds(stream)[p] = IF HasColon(Line(stream, p)) THEN "header" ELSE "end"
<1>1. Len(stream) \in Nat
  BY StreamBytes DEF IInv
<1>2. Kinds(stream)[p] = KindAt(stream, p, Kinds(stream)[consumed]) /\ p \in LineEnds(stream)
  BY <1>1, KindIs DEF NextLine
<1>3. Kinds(stream)[consumed] = "end" <=> context.state_ # "kExpectHeaders"
  BY DEF IInv, ParsedInv
<1>. QED BY <1>2, <1>3 DEF KindAt

LEMMA BadLines ==
  ASSUME IInv, NEW p \in LineEnds(stream)
  PROVE  p \in Bad(stream) <=> Kinds(stream)[p] = "request" /\ ~GoodLine(Line(stream, p))
<1>1. Len(stream) \in Nat
  BY StreamBytes DEF IInv
<1>2. p <= Len(stream)
  BY <1>1, LineNumbers
<1>. QED BY <1>2 DEF Bad, Requests, OfKind

\* No bad line lies before the next one.
LEMMA BadBehind ==
  ASSUME IInv, NEW p, NextLine(stream, consumed, p)
  PROVE  \A b \in Bad(stream) : p <= b
<1>1. Len(stream) \in Nat /\ consumed \in Nat
  BY StreamBytes DEF IInv
<1>2. ASSUME NEW b \in Bad(stream) PROVE p <= b
  <2>1. b \in LineEnds(stream) /\ consumed < b
    BY DEF IInv, TakenInv, Bad, Requests, OfKind
  <2>2. b <= consumed \/ p <= b
    BY <2>1 DEF NextLine
  <2>3. b \in Nat
    BY <1>1, <2>1, LineNumbers
  <2>. QED BY <1>1, <2>1, <2>2, <2>3
<1>. QED BY <1>2

LEMMA TakenStep ==
  ASSUME IInv, NEW p, NextLine(stream, consumed, p), p \notin Bad(stream),
         consumed' = p, stream' = stream
  PROVE  TakenInv'
<1>1. Len(stream) \in Nat /\ p \in LineEnds(stream)
  BY StreamBytes DEF IInv, NextLine
<1>2. ASSUME NEW b \in Bad(stream) PROVE p < b
  <2>1. p <= b /\ p # b
    BY BadBehind
  <2>2. p \in Nat /\ b \in Nat
    BY <1>1, LineNumbers DEF Bad, Requests, OfKind
  <2>. QED BY <2>1, <2>2
<1>. QED BY <1>1, <1>2 DEF TakenInv

\* A request line that is refused is the first bad one.
LEMMA FirstBad ==
  ASSUME IInv, badRequestLine
  PROVE  \E p \in Bad(stream) : /\ \A c \in Bad(stream) : p <= c
                               /\ Cardinality(Ends(stream, p)) = Cardinality(Ends(stream, consumed))
<1>1. context.state_ = "kExpectRequestLine" /\ hasCRLF(buf) /\ ~GoodLine(line(buf))
  BY DEF badRequestLine, AtLine
<1>2. PICK p \in Nat : NextLine(stream, consumed, p) /\ line(buf) = Line(stream, p)
  BY <1>1, LineStep
<1>3. Kinds(stream)[p] = "request" /\ p \in LineEnds(stream)
  BY <1>1, <1>2, NextKind DEF NextLine
<1>4. p \in Bad(stream)
  BY <1>1, <1>2, <1>3, BadLines
<1>5. Len(stream) \in Nat
  BY StreamBytes DEF IInv
<1>6. Cardinality(Ends(stream, p)) = Cardinality(Ends(stream, consumed))
  <2>. PICK x, y : x = Cardinality(Ends(stream, p)) /\ y = Cardinality(Ends(stream, consumed))
    OBVIOUS
  <2>1. y \in Nat /\ x = y + IF Kinds(stream)[p] = "end" THEN 1 ELSE 0
    BY <1>2, <1>5, EndsStep
  <2>. QED BY <1>3, <2>1
<1>. QED BY <1>2, <1>4, <1>6, BadBehind

LEMMA RefusedStep ==
  ASSUME IInv, Next
  PROVE  RefusedInv'
<1>1. RefusedInv /\ ContextOK /\ stream' = stream
  BY DEF IInv, TypeOK, ContextOK, Next
<1>2. CASE context' = context /\ state_' = state_
  BY <1>1, <1>2 DEF RefusedInv
<1>3. CASE requestLine
  <2>1. context'.state_ = "kExpectHeaders"
    BY <1>1, <1>3 DEF requestLine, ContextOK
  <2>. QED BY <2>1 DEF RefusedInv
<1>4. CASE badRequestLine
  <2>1. state_' = "kDisconnecting" /\ Bad(stream) # {}
    BY <1>4, FirstBad DEF badRequestLine
  <2>. QED BY <1>1, <2>1 DEF RefusedInv
<1>5. CASE addHeader
  <2>. PICK x : x = Value(line(buf))
    OBVIOUS
  <2>1. /\ context' = context \/ context' = [context EXCEPT !.connection = x]
        /\ context.state_ = "kExpectHeaders"
    BY <1>5 DEF addHeader, AtLine
  <2>2. context'.state_ = "kExpectHeaders"
    BY <1>1, <2>1 DEF ContextOK
  <2>. QED BY <2>2 DEF RefusedInv
<1>6. CASE receiveHeaders
  <2>1. context'.state_ = "kGotAll"
    BY <1>1, <1>6 DEF receiveHeaders, ContextOK
  <2>. QED BY <2>1 DEF RefusedInv
<1>7. CASE onRequest
  <2>1. context'.method_ = "kInvalid"
    BY <1>7 DEF onRequest, reset, newContext
  <2>. QED BY <2>1 DEF RefusedInv
<1>. QED
  BY <1>2, <1>3, <1>4, <1>5, <1>6, <1>7 DEF Next, Parse, handleRead, needMore, setMethodFails

LEMMA FailedStep ==
  ASSUME IInv, Next
  PROVE  failed' \in BOOLEAN /\ FailsAfterRefusal' /\ (failed' => Bad(stream') # {})
<1>1. failed \in BOOLEAN /\ ~failed /\ RefusedInv /\ stream' = stream
  BY DEF IInv, TypeOK, Next
<1>2. CASE setMethodFails
  <2>1. failed' = TRUE /\ state_' = state_
    BY <1>2 DEF setMethodFails
  <2>2. context.state_ = "kExpectRequestLine" /\ context.method_ # "kInvalid"
    BY <1>2 DEF setMethodFails, AtLine, MethodSet
  <2>3. state_ = "kDisconnecting" /\ Bad(stream) # {}
    BY <1>1, <2>2 DEF RefusedInv
  <2>. QED BY <1>1, <2>1, <2>3 DEF FailsAfterRefusal
<1>3. CASE failed' = failed
  BY <1>1, <1>3 DEF FailsAfterRefusal
<1>4. setMethodFails \/ failed' = failed
  BY DEF Next, Parse, handleRead, needMore, requestLine, badRequestLine, addHeader,
     receiveHeaders, onRequest
<1>. QED BY <1>2, <1>3, <1>4

\* An answer is sent as long as none has closed the connection.
LEMMA SentAnswer ==
  ASSUME IInv, NEW a \in Answers, send(a), state_' = IF a.close THEN "kDisconnecting" ELSE state_
  PROVE  sent' \in Seq(Answers) /\ OpenInv' /\ ClosingIsLast'
<1>1. sent \in Seq(Answers) /\ OpenInv /\ ClosingIsLast /\ state_ \in {"kConnected", "kDisconnecting"}
  BY DEF IInv, TypeOK
<1>2. CASE state_ = "kConnected"
  <2>1. sent' = Append(sent, a)
    BY <1>2 DEF send
  <2>. PICK n : n = Len(sent)
    OBVIOUS
  <2>2. /\ n \in Nat /\ sent' \in Seq(Answers) /\ Len(sent') = n + 1 /\ sent'[n + 1] = a
        /\ \A i \in 1..n : sent'[i] = sent[i]
    BY <1>1, <2>1, AppendProperties, LenProperties
  <2>3. \A i \in 1..n : ~sent[i].close
    BY <1>1, <1>2 DEF OpenInv
  <2>4. \A i \in 1..(n + 1) : sent'[i].close => i = n + 1 /\ a.close
    <3>1. \A i \in 1..(n + 1) : i \in 1..n \/ i = n + 1
      BY <2>2
    <3>. QED BY <2>2, <2>3, <3>1
  <2>. QED BY <2>2, <2>4 DEF OpenInv, ClosingIsLast
<1>3. CASE state_ # "kConnected"
  BY <1>1, <1>3 DEF send, OpenInv, ClosingIsLast
<1>. QED BY <1>2, <1>3

LEMMA SentStep ==
  ASSUME IInv, Next
  PROVE  sent' \in Seq(Answers) /\ OpenInv' /\ ClosingIsLast'
<1>1. sent \in Seq(Answers) /\ OpenInv /\ ClosingIsLast
  BY DEF IInv, TypeOK
<1>2. CASE sent' = sent /\ state_' = state_
  BY <1>1, <1>2 DEF OpenInv, ClosingIsLast
<1>3. CASE badRequestLine
  <2>1. Refusal \in Answers /\ Refusal.close
    BY DEF Refusal, Answers
  <2>. QED BY <1>3, <2>1, SentAnswer DEF badRequestLine
<1>4. CASE onRequest
  <2>1. PICK close \in {Closes(context.version_, context.connection), TRUE} :
             /\ send([kind |-> "response", method_ |-> context.method_,
                      version_ |-> context.version_, close |-> close])
             /\ state_' = IF close THEN "kDisconnecting" ELSE state_
    BY <1>4 DEF onRequest
  <2>. PICK a : a = [kind |-> "response", method_ |-> context.method_,
                     version_ |-> context.version_, close |-> close]
    OBVIOUS
  <2>2. close \in BOOLEAN
    BY DEF Closes
  <2>3. context.method_ \in Methods \cup {"kInvalid"} /\ context.version_ \in Versions \cup {"kUnknown"}
    BY DEF IInv, TypeOK
  <2>4. a \in Answers /\ a.close = close
    BY <2>2, <2>3 DEF Answers
  <2>. QED BY <2>1, <2>4, SentAnswer
<1>. QED
  BY <1>2, <1>3, <1>4 DEF Next, Parse, handleRead, needMore, requestLine, setMethodFails,
     addHeader, receiveHeaders

\* A step that takes no line and does not change what the parser holds.
LEMMA QuietStep ==
  ASSUME IInv, stream' = stream, consumed' = consumed, context' = context, state_' = state_,
         sent' = sent, pc # "request", pc' # "request"
  PROVE  TakenInv' /\ ParsedInv' /\ CountInv'
<1>1. ParsedInv /\ CountInv
  BY DEF IInv
<1>2. TakenInv'
  BY NoLine
<1>3. ParsedInv'
  BY <1>1 DEF ParsedInv
<1>4. CountInv'
  BY <1>1 DEF CountInv
<1>. QED BY <1>2, <1>3, <1>4

LEMMA RequestLineStep ==
  ASSUME IInv, requestLine, stream' = stream
  PROVE  TakenInv' /\ ParsedInv' /\ CountInv'
<1>1. /\ context.state_ = "kExpectRequestLine" /\ pc = "parse" /\ hasCRLF(buf) /\ takeLine
      /\ GoodLine(line(buf)) /\ pc' = pc /\ state_' = state_ /\ sent' = sent
  BY DEF requestLine, AtLine
<1>2. PICK p \in Nat : /\ NextLine(stream, consumed, p) /\ p <= Len(stream)
                       /\ line(buf) = Line(stream, p) /\ consumed' = p
  BY <1>1, LineStep
<1>3. Kinds(stream)[p] = "request" /\ p \in LineEnds(stream) /\ Len(stream) \in Nat
  BY <1>1, <1>2, NextKind, StreamBytes DEF NextLine, IInv
<1>4. TakenInv'
  BY <1>1, <1>2, <1>3, BadLines, TakenStep
<1>5. /\ Requests(stream, p) # {}
      /\ Asked(stream, p) = [method_ |-> Line(stream, p)[1], version_ |-> Line(stream, p)[3],
                             connection |-> <<>>]
  BY <1>2, <1>3, AskedOfRequest
<1>6. ParsedInv'
  <2>. PICK l, x : l = line(buf) /\ x = Asked(stream, p)
    OBVIOUS
  <2>1. ContextOK /\ context.connection = <<>>
    BY <1>1 DEF IInv, TypeOK, ContextOK, ParsedInv
  <2>2. context' = [context EXCEPT !.state_ = "kExpectHeaders", !.method_ = l[1], !.version_ = l[3]]
    BY DEF requestLine
  <2>3. /\ context'.state_ = "kExpectHeaders" /\ context'.method_ = l[1]
        /\ context'.version_ = l[3] /\ context'.connection = <<>>
    BY <2>1, <2>2 DEF ContextOK
  <2>4. x.method_ = l[1] /\ x.version_ = l[3] /\ x.connection = <<>>
    BY <1>2, <1>5
  <2>5. pc' # "request"
    BY <1>1
  <2>. QED BY <1>2, <1>3, <1>5, <2>3, <2>4, <2>5 DEF ParsedInv
<1>7. CountInv'
  <2>. PICK x, y : x = Cardinality(Ends(stream, p)) /\ y = Cardinality(Ends(stream, consumed))
    OBVIOUS
  <2>1. y \in Nat /\ x = y + IF Kinds(stream)[p] = "end" THEN 1 ELSE 0
    BY <1>2, <1>3, EndsStep
  <2>2. x = y
    BY <1>3, <2>1
  <2>. QED BY <1>1, <1>2, <2>2 DEF IInv, CountInv
<1>. QED BY <1>4, <1>6, <1>7

LEMMA AddHeaderStep ==
  ASSUME IInv, addHeader, stream' = stream
  PROVE  TakenInv' /\ ParsedInv' /\ CountInv'
<1>1. /\ context.state_ = "kExpectHeaders" /\ pc = "parse" /\ hasCRLF(buf) /\ takeLine
      /\ HasColon(line(buf)) /\ pc' = pc /\ state_' = state_ /\ sent' = sent
  BY DEF addHeader, AtLine
<1>2. PICK p \in Nat : /\ NextLine(stream, consumed, p) /\ p <= Len(stream)
                       /\ line(buf) = Line(stream, p) /\ consumed' = p
  BY <1>1, LineStep
<1>3. Kinds(stream)[p] = "header" /\ p \in LineEnds(stream) /\ Len(stream) \in Nat
  BY <1>1, <1>2, NextKind, StreamBytes DEF NextLine, IInv
<1>4. TakenInv'
  BY <1>1, <1>2, <1>3, BadLines, TakenStep
<1>. PICK l, x, a : l = line(buf) /\ x = Asked(stream, p) /\ a = Asked(stream, consumed)
  OBVIOUS
<1>5. /\ ContextOK /\ Requests(stream, consumed) # {}
      /\ context.method_ = a.method_ /\ context.version_ = a.version_
      /\ context.connection = a.connection
  BY <1>1 DEF IInv, TypeOK, ContextOK, ParsedInv
<1>6. /\ Requests(stream, p) # {}
      /\ x.method_ = a.method_ /\ x.version_ = a.version_
      /\ x.connection = IF l[1] = "Connection:" THEN Value(l) ELSE a.connection
  BY <1>2, <1>3, <1>5, AskedOfOther
<1>7. ParsedInv'
  <2>. PICK z : z = Value(l)
    OBVIOUS
  <2>1. context' = IF l[1] = "Connection:" THEN [context EXCEPT !.connection = z] ELSE context
    BY DEF addHeader
  <2>2. /\ context'.state_ = "kExpectHeaders" /\ context'.method_ = a.method_
        /\ context'.version_ = a.version_
        /\ context'.connection = IF l[1] = "Connection:" THEN z ELSE a.connection
    BY <1>1, <1>5, <2>1 DEF ContextOK
  <2>3. pc' # "request"
    BY <1>1
  <2>. QED BY <1>2, <1>3, <1>6, <2>2, <2>3 DEF ParsedInv
<1>8. CountInv'
  <2>. PICK c, d : c = Cardinality(Ends(stream, p)) /\ d = Cardinality(Ends(stream, consumed))
    OBVIOUS
  <2>1. d \in Nat /\ c = d + IF Kinds(stream)[p] = "end" THEN 1 ELSE 0
    BY <1>2, <1>3, EndsStep
  <2>2. c = d
    BY <1>3, <2>1
  <2>. QED BY <1>1, <1>2, <2>2 DEF IInv, CountInv
<1>. QED BY <1>4, <1>7, <1>8

LEMMA ReceiveHeadersStep ==
  ASSUME IInv, receiveHeaders, stream' = stream
  PROVE  TakenInv' /\ ParsedInv' /\ CountInv'
<1>1. /\ context.state_ = "kExpectHeaders" /\ pc = "parse" /\ hasCRLF(buf) /\ takeLine
      /\ ~HasColon(line(buf)) /\ pc' = "request" /\ state_' = state_ /\ sent' = sent
      /\ context' = [context EXCEPT !.state_ = "kGotAll"]
  BY DEF receiveHeaders, AtLine
<1>2. PICK p \in Nat : /\ NextLine(stream, consumed, p) /\ p <= Len(stream)
                       /\ line(buf) = Line(stream, p) /\ consumed' = p
  BY <1>1, LineStep
<1>3. Kinds(stream)[p] = "end" /\ p \in LineEnds(stream) /\ Len(stream) \in Nat
  BY <1>1, <1>2, NextKind, StreamBytes DEF NextLine, IInv
<1>4. TakenInv'
  BY <1>1, <1>2, <1>3, BadLines, TakenStep
<1>. PICK x, a : x = Asked(stream, p) /\ a = Asked(stream, consumed)
  OBVIOUS
<1>5. /\ ContextOK /\ Requests(stream, consumed) # {}
      /\ context.method_ = a.method_ /\ context.version_ = a.version_
      /\ context.connection = a.connection
  BY <1>1 DEF IInv, TypeOK, ContextOK, ParsedInv
<1>6. /\ Requests(stream, p) # {}
      /\ x.method_ = a.method_ /\ x.version_ = a.version_ /\ x.connection = a.connection
  BY <1>2, <1>3, <1>5, AskedOfOther
<1>7. ParsedInv'
  <2>1. /\ context'.state_ = "kGotAll" /\ context'.method_ = a.method_
        /\ context'.version_ = a.version_ /\ context'.connection = a.connection
    BY <1>1, <1>5 DEF ContextOK
  <2>. QED BY <1>1, <1>2, <1>3, <1>6, <2>1 DEF ParsedInv
<1>8. CountInv'
  <2>. PICK c, d : c = Cardinality(Ends(stream, p)) /\ d = Cardinality(Ends(stream, consumed))
    OBVIOUS
  <2>1. d \in Nat /\ c = d + IF Kinds(stream)[p] = "end" THEN 1 ELSE 0
    BY <1>2, <1>3, EndsStep
  <2>2. c = d + 1
    BY <1>3, <2>1
  <2>3. state_ = "kConnected" => d = Len(sent) + 0
    BY <1>1 DEF IInv, CountInv
  <2>4. Len(sent) \in Nat
    BY LenProperties DEF IInv, TypeOK
  <2>5. state_ = "kConnected" => c = Len(sent) + 1
    BY <2>2, <2>3, <2>4
  <2>. QED BY <1>1, <1>2, <2>5 DEF CountInv
<1>. QED BY <1>4, <1>7, <1>8

LEMMA RefusalStep ==
  ASSUME IInv, badRequestLine, stream' = stream
  PROVE  TakenInv' /\ ParsedInv' /\ CountInv'
<1>. PICK l : l = line(buf)
  OBVIOUS
<1>1. /\ context.state_ = "kExpectRequestLine" /\ consumed' = consumed
      /\ context' = context \/ context' = [context EXCEPT !.method_ = l[1]]
      /\ pc' = "read" /\ state_' = "kDisconnecting"
  BY DEF badRequestLine, AtLine
<1>2. ContextOK /\ context.connection = <<>> /\ Kinds(stream)[consumed] = "end"
  BY <1>1 DEF IInv, TypeOK, ContextOK, ParsedInv
<1>3. context'.state_ = "kExpectRequestLine" /\ context'.connection = <<>>
  BY <1>1, <1>2 DEF ContextOK
<1>4. ParsedInv'
  BY <1>1, <1>2, <1>3 DEF ParsedInv
<1>. QED BY <1>1, <1>4, NoLine DEF CountInv

LEMMA OnRequestStep ==
  ASSUME IInv, onRequest, stream' = stream
  PROVE  TakenInv' /\ ParsedInv' /\ CountInv'
<1>. PICK x : x = context.version_
  OBVIOUS
<1>1. /\ pc = "request" /\ consumed' = consumed /\ pc' = "read"
      /\ context' = [newContext EXCEPT !.version_ = x]
  BY DEF onRequest, reset
<1>2. PICK close, a : /\ send(a) /\ state_' = IF close THEN "kDisconnecting" ELSE state_
  BY DEF onRequest
<1>3. Kinds(stream)[consumed] = "end"
  BY <1>1 DEF IInv, ParsedInv
<1>4. context'.state_ = "kExpectRequestLine" /\ context'.connection = <<>>
  BY <1>1 DEF newContext
<1>5. ParsedInv'
  BY <1>1, <1>3, <1>4 DEF ParsedInv
<1>6. CountInv'
  <2>1. SUFFICES ASSUME state_' = "kConnected" PROVE CountInv'
    BY DEF CountInv
  <2>2. state_ = "kConnected"
    BY <1>2, <2>1
  <2>3. sent' = Append(sent, a)
    BY <1>2, <2>2 DEF send
  <2>4. sent \in Seq(Answers) /\ Len(sent) \in Nat
    BY LenProperties DEF IInv, TypeOK
  <2>5. Len(sent') = Len(sent) + 1
    BY <2>3, <2>4
  <2>6. Cardinality(Ends(stream, consumed)) = Len(sent) + 1
    BY <1>1, <2>2 DEF IInv, CountInv
  <2>7. Cardinality(Ends(stream, consumed)) = Len(sent') + 0
    BY <2>4, <2>5, <2>6
  <2>. QED BY <1>1, <2>7 DEF CountInv
<1>. QED BY <1>1, <1>5, <1>6, NoLine

LEMMA ParseStep ==
  ASSUME IInv, Next
  PROVE  TakenInv' /\ ParsedInv' /\ CountInv'
<1>1. stream' = stream
  BY DEF Next
<1>2. ASSUME NEW n, handleRead(n) PROVE TakenInv' /\ ParsedInv' /\ CountInv'
  BY <1>1, <1>2, QuietStep DEF handleRead
<1>3. CASE needMore
  BY <1>1, <1>3, QuietStep DEF needMore
<1>4. CASE setMethodFails
  BY <1>1, <1>4, QuietStep DEF setMethodFails, AtLine
<1>. QED
  BY <1>1, <1>2, <1>3, <1>4, RequestLineStep, AddHeaderStep, ReceiveHeadersStep, RefusalStep,
     OnRequestStep DEF Next, Parse

\* An answer that is sent answers the request it should.
LEMMA AskedAnswer ==
  ASSUME IInv, NEW a, send(a), stream' = stream,
         state_ = "kConnected" => Asks(a, Len(sent) + 1)
  PROVE  SentInv'
<1>1. sent \in Seq(Answers) /\ SentInv
  BY DEF IInv, TypeOK
<1>2. ASSUME NEW x, NEW i, Asks(x, i) PROVE Asks(x, i)'
  BY <1>2 DEF Asks
<1>3. CASE state_ = "kConnected"
  <2>. PICK n : n = Len(sent)
    OBVIOUS
  <2>1. /\ n \in Nat /\ Len(sent') = n + 1 /\ sent'[n + 1] = a
        /\ \A i \in 1..n : sent'[i] = sent[i]
    <3>1. sent' = Append(sent, a)
      BY <1>3 DEF send
    <3>. QED BY <1>1, <3>1, LenProperties
  <2>2. ASSUME NEW i \in 1..(n + 1) PROVE Asks(sent[i], i)'
    <3>. PICK x : x = sent'[i]
      OBVIOUS
    <3>1. Asks(x, i)
      <4>1. CASE i = n + 1
        BY <1>3, <2>1, <4>1
      <4>2. CASE i # n + 1
        <5>1. i \in 1..n
          BY <2>1, <4>2
        <5>. QED BY <1>1, <2>1, <5>1 DEF SentInv
      <4>. QED BY <4>1, <4>2
    <3>2. Asks(x, i)'
      BY <1>2, <3>1
    <3>. QED BY <3>2
  <2>. QED BY <2>1, <2>2 DEF SentInv
<1>4. CASE state_ # "kConnected"
  <2>1. sent' = sent
    BY <1>4 DEF send
  <2>2. ASSUME NEW i \in 1..Len(sent) PROVE Asks(sent[i], i)'
    <3>. PICK x : x = sent[i]
      OBVIOUS
    <3>1. Asks(x, i)
      BY <1>1 DEF SentInv
    <3>2. Asks(x, i)'
      BY <1>2, <3>1
    <3>. QED BY <2>1, <3>2
  <2>. QED BY <2>1, <2>2 DEF SentInv
<1>. QED BY <1>3, <1>4

LEMMA SentKept ==
  ASSUME IInv, sent' = sent, stream' = stream
  PROVE  SentInv'
BY DEF IInv, SentInv, Asks

LEMMA AnswerStep ==
  ASSUME IInv, Next
  PROVE  SentInv'
<1>1. stream' = stream
  BY DEF Next
<1>2. CASE sent' = sent
  BY <1>1, <1>2, SentKept
<1>3. CASE badRequestLine
  <2>. PICK a : a = Refusal
    OBVIOUS
  <2>1. send(a) /\ a.kind = "400"
    BY <1>3 DEF badRequestLine, Refusal
  <2>2. ASSUME state_ = "kConnected" PROVE Asks(a, Len(sent) + 1)
    <3>1. PICK b \in Bad(stream) :
               /\ \A c \in Bad(stream) : b <= c
               /\ Cardinality(Ends(stream, b)) = Cardinality(Ends(stream, consumed))
      BY <1>3, FirstBad
    <3>2. Cardinality(Ends(stream, consumed)) = Len(sent) + 0
      BY <1>3, <2>2 DEF IInv, CountInv, badRequestLine, AtLine
    <3>3. Len(sent) \in Nat
      BY LenProperties DEF IInv, TypeOK
    <3>4. Cardinality(Ends(stream, b)) = (Len(sent) + 1) - 1
      BY <3>1, <3>2, <3>3
    <3>. QED BY <2>1, <3>1, <3>4 DEF Asks
  <2>. QED BY <1>1, <2>1, <2>2, AskedAnswer
<1>4. CASE onRequest
  <2>1. PICK close \in {Closes(context.version_, context.connection), TRUE} :
             send([kind |-> "response", method_ |-> context.method_,
                   version_ |-> context.version_, close |-> close])
    BY <1>4 DEF onRequest
  <2>. PICK a : a = [kind |-> "response", method_ |-> context.method_,
                     version_ |-> context.version_, close |-> close]
    OBVIOUS
  <2>2. /\ a.kind = "response" /\ a.method_ = context.method_ /\ a.version_ = context.version_
        /\ a.close = close
    OBVIOUS
  <2>3. ASSUME state_ = "kConnected" PROVE Asks(a, Len(sent) + 1)
    <3>. PICK e, asked : e = consumed /\ asked = Asked(stream, consumed)
      OBVIOUS
    <3>1. pc = "request"
      BY <1>4 DEF onRequest
    <3>2. /\ Kinds(stream)[e] = "end" /\ Requests(stream, e) # {}
          /\ context.method_ = asked.method_ /\ context.version_ = asked.version_
          /\ context.connection = asked.connection
      BY <3>1 DEF IInv, ParsedInv
    <3>3. /\ Len(stream) \in Nat /\ e \in Nat /\ e \in {0} \cup LineEnds(stream)
          /\ \A b \in Bad(stream) : e < b
      BY StreamBytes DEF IInv, TakenInv
    <3>4. e \in LineEnds(stream)
      <4>1. PICK q \in Requests(stream, e) : TRUE
        BY <3>2
      <4>2. q \in 2..Len(stream) /\ q <= e
        BY <3>3, OfKindSet, LineNumbers DEF Requests
      <4>3. e # 0
        BY <3>3, <4>2
      <4>. QED BY <3>3, <4>3
    <3>5. e \in Ends(stream, Len(stream))
      <4>1. e <= Len(stream)
        BY <3>3, <3>4, LineNumbers
      <4>. QED BY <3>2, <3>4, <4>1 DEF Ends, OfKind
    <3>6. Cardinality(Ends(stream, e)) = Len(sent) + 1
      BY <2>3, <3>1 DEF IInv, CountInv
    <3>7. Closes(asked.version_, asked.connection) => a.close
      BY <2>2, <3>2
    <3>. QED BY <2>2, <3>2, <3>3, <3>5, <3>6, <3>7 DEF Asks
  <2>. QED BY <1>1, <2>1, <2>3, AskedAnswer
<1>. QED
  BY <1>2, <1>3, <1>4 DEF Next, Parse, handleRead, needMore, requestLine, setMethodFails,
     addHeader, receiveHeaders

LEMMA NextInv ==
  ASSUME IInv, [Next]_vars
  PROVE  IInv'
<1>1. CASE UNCHANGED vars
  <2>1. /\ stream' = stream /\ received' = received /\ buf' = buf /\ context' = context
        /\ pc' = pc /\ state_' = state_ /\ sent' = sent /\ consumed' = consumed
        /\ failed' = failed
    BY <1>1 DEF vars
  <2>2. TypeOK' /\ BytesKept'
    BY <2>1 DEF IInv, TypeOK, BytesKept
  <2>3. RefusedInv' /\ FailsAfterRefusal' /\ (failed' => Bad(stream') # {})
    BY <2>1 DEF IInv, RefusedInv, FailsAfterRefusal
  <2>4. OpenInv' /\ ClosingIsLast'
    BY <2>1 DEF IInv, OpenInv, ClosingIsLast
  <2>5. TakenInv' /\ SentInv'
    BY <2>1, NoLine, SentKept
  <2>6. ParsedInv'
    BY <2>1 DEF IInv, ParsedInv
  <2>7. CountInv'
    BY <2>1 DEF IInv, CountInv
  <2>. QED BY <2>2, <2>3, <2>4, <2>5, <2>6, <2>7 DEF IInv
<1>2. CASE Next
  <2>1. /\ stream' = stream /\ received' \in 0..Len(stream) /\ consumed' \in 0..received'
        /\ Kept'
    BY <1>2, BufferStep
  <2>2. /\ ContextOK' /\ RefusedInv' /\ FailsAfterRefusal' /\ (failed' => Bad(stream') # {})
        /\ pc' \in {"read", "parse", "request"} /\ state_' \in {"kConnected", "kDisconnecting"}
        /\ failed' \in BOOLEAN
    BY <1>2, ContextStep, RefusedStep, FailedStep
  <2>3. sent' \in Seq(Answers) /\ OpenInv' /\ ClosingIsLast'
    BY <1>2, SentStep
  <2>4. TypeOK'
    BY <2>1, <2>2, <2>3 DEF IInv, TypeOK, Kept, GoodBuffer, ContextOK
  <2>5. TypeOK' => (BytesKept' <=> Kept')
    BY KeptMeans, PTL
  <2>6. TakenInv' /\ ParsedInv' /\ CountInv' /\ SentInv'
    BY <1>2, ParseStep, AnswerStep
  <2>. QED BY <2>1, <2>2, <2>3, <2>4, <2>5, <2>6 DEF IInv
<1>. QED BY <1>1, <1>2

LEMMA InitInv == Init => IInv
<1>. SUFFICES ASSUME Init PROVE IInv
  OBVIOUS
<1>. PICK C, K : C = kCheapPrepend /\ K = kCheapPrepend + kInitialSize
  OBVIOUS
<1>1. C \in Nat /\ K \in Nat /\ C <= K
  BY BufferAssumption
<1>2. Zeros(K) \in Seq(Bytes) /\ Len(Zeros(K)) = K
  BY <1>1, ZeroBytes
<1>3. IsBuffer(buf, Zeros(K), C, C)
  BY <1>1, <1>2 DEF Init, newBuffer, IsBuffer
<1>4. GoodBuffer(buf)
  BY <1>3, Built
<1>5. TypeOK
  <2>1. Len(stream) \in Nat
    BY StreamsAssumption, LenProperties DEF Init
  <2>2. sent \in Seq(Answers)
    BY DEF Init
  <2>3. ContextOK
    BY DEF Init, newContext, ContextOK
  <2>4. failed \in BOOLEAN
    BY DEF Init
  <2>. QED BY <1>4, <2>1, <2>2, <2>3, <2>4 DEF Init, TypeOK, GoodBuffer, ContextOK
<1>6. Kept
  <2>1. Shows(Zeros(K), C, C, stream, 0, 0)
    BY <1>1 DEF Shows
  <2>. QED BY <1>3, <1>4, <2>1, WindowFields DEF Kept, Init
<1>7. RefusedInv /\ FailsAfterRefusal /\ OpenInv /\ ClosingIsLast
  BY DEF Init, newContext, RefusedInv, FailsAfterRefusal, OpenInv, ClosingIsLast
<1>8. Len(stream) \in Nat
  BY <1>5, StreamBytes
<1>9. TakenInv
  <2>1. \A b \in LineEnds(stream) : 0 < b
    BY <1>8, LineNumbers
  <2>. QED BY <2>1 DEF Init, TakenInv, Bad, Requests, OfKind
<1>10. ParsedInv
  <2>1. Kinds(stream)[0] = "end"
    BY <1>8, KindsAre DEF IsKinds
  <2>. QED BY <2>1 DEF Init, newContext, ParsedInv
<1>11. CountInv
  <2>1. Ends(stream, 0) = {}
    <3>1. \A q \in LineEnds(stream) : ~(q <= 0)
      BY <1>8, LineNumbers
    <3>. QED BY <3>1 DEF Ends, OfKind
  <2>2. Cardinality(Ends(stream, 0)) = 0
    BY <2>1, FS_EmptySet
  <2>. QED BY <2>2 DEF Init, CountInv
<1>12. SentInv /\ (failed => Bad(stream) # {})
  BY DEF Init, SentInv
<1>. QED BY <1>5, <1>6, <1>7, <1>9, <1>10, <1>11, <1>12, KeptMeans DEF IInv

\* The invariant holds for every stream, every way to cut it and every size of the buffer.
THEOREM Inductive == Spec => []IInv
BY InitInv, NextInv, PTL DEF Spec

(***************************************************************************)
(* The indices of the input buffer stay in order and inside the vector,    *)
(* and no more is taken from the buffer than was read.                     *)
(***************************************************************************)
THEOREM Typed == Spec => []TypeOK
<1>1. IInv => TypeOK
  BY DEF IInv
<1>. QED BY <1>1, Inductive, PTL

(***************************************************************************)
(* No byte of a request is lost, repeated or moved out of order between    *)
(* readv, extrabuf, makeSpace and retrieveUntil.                           *)
(***************************************************************************)
THEOREM NoByteLost == Spec => []BytesKept
<1>1. IInv => BytesKept
  BY DEF IInv
<1>. QED BY <1>1, Inductive, PTL

(***************************************************************************)
(* onMessage skips no request and answers none twice: as long as the       *)
(* connection is up there is an answer for every request whose lines were  *)
(* taken from the buffer, but for the one that is being answered.          *)
(***************************************************************************)
THEOREM NoneSkipped == Spec => []CountInv
<1>1. IInv => CountInv
  BY DEF IInv
<1>. QED BY <1>1, Inductive, PTL

(***************************************************************************)
(* However the bytes are cut, every answer is the one the request in its   *)
(* place asks for, the 400 comes at the first bad request line, nothing    *)
(* follows an answer that closes the connection, and setMethod's assertion *)
(* fails only on a connection that was refused before.                     *)
(***************************************************************************)
THEOREM AnsweredAsAsked == Spec => []AnswersAsAsked
<1>1. IInv => AnswersAsAsked
  BY DEF IInv, SentInv, AnswersAsAsked
<1>. QED BY <1>1, Inductive, PTL
=============================================================================
