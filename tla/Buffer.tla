------------------------------- MODULE Buffer -------------------------------
(***************************************************************************)
(* muduo::net::Buffer as a record:                                         *)
(*                                                                         *)
(*   buffer_                       the vector, with the bytes left over    *)
(*                                 from before                             *)
(*   readerIndex_, writerIndex_    byte i of the vector is buffer_[i + 1], *)
(*                                 so that buffer_[readerIndex_ + 1] to    *)
(*                                 buffer_[writerIndex_] can be read       *)
(***************************************************************************)
EXTENDS Integers, Sequences

CONSTANTS kCheapPrepend,   \* 8 in the code
          kInitialSize,    \* 1024 in the code
          ExtraSize,       \* size of extrabuf, 65536 in the code
          NUL              \* what resize() puts into the vector

ASSUME BufferAssumption == {kCheapPrepend, kInitialSize, ExtraSize} \subseteq Nat \ {0}

Zeros(n) == [i \in 1..n |-> NUL]

newBuffer == [buffer_ |-> Zeros(kCheapPrepend + kInitialSize),
              readerIndex_ |-> kCheapPrepend, writerIndex_ |-> kCheapPrepend]

readable(b) == SubSeq(b.buffer_, b.readerIndex_ + 1, b.writerIndex_)
readableBytes(b) == b.writerIndex_ - b.readerIndex_
writableBytes(b) == Len(b.buffer_) - b.writerIndex_
prependableBytes(b) == b.readerIndex_

\* The vector v with the bytes of data, as far as they fit, behind its first at bytes.
copied(v, at, data) == [i \in DOMAIN v |-> IF i - at \in DOMAIN data THEN data[i - at] ELSE v[i]]

retrieveAll(b) == [b EXCEPT !.readerIndex_ = kCheapPrepend, !.writerIndex_ = kCheapPrepend]

\* Mutant: also the bytes behind those retrieved are given up.
retrieveMore(b, len) == retrieveAll(b)

retrieve(b, len) == IF len < readableBytes(b) THEN [b EXCEPT !.readerIndex_ = @ + len]
                                              ELSE retrieveAll(b)

\* Mutant: the room kept for prepend() is taken for free space.
RoomAnywhere(b, len) == writableBytes(b) + prependableBytes(b) >= len

\* Do the bytes fit once the readable ones are moved to the front?
Room(b, len) == writableBytes(b) + prependableBytes(b) >= len + kCheapPrepend

makeSpace(b, len) ==
  IF ~Room(b, len)
  THEN [b EXCEPT !.buffer_ = SubSeq(@, 1, b.writerIndex_) \o Zeros(len)]
  ELSE [buffer_ |-> copied(b.buffer_, kCheapPrepend, readable(b)),
        readerIndex_ |-> kCheapPrepend,
        writerIndex_ |-> kCheapPrepend + readableBytes(b)]

ensureWritableBytes(b, len) == IF writableBytes(b) < len THEN makeSpace(b, len) ELSE b

append(b, data) == LET e == ensureWritableBytes(b, Len(data))
                   IN  [e EXCEPT !.buffer_ = copied(@, e.writerIndex_, data),
                                 !.writerIndex_ = @ + Len(data)]

\* readv fills the vector first and extrabuf with the rest, which is then appended.
readFd(b, data) ==
  LET vec == copied(b.buffer_, b.writerIndex_, data)
  IN  IF Len(data) <= writableBytes(b)
      THEN [b EXCEPT !.buffer_ = vec, !.writerIndex_ = @ + Len(data)]
      ELSE append([b EXCEPT !.buffer_ = vec, !.writerIndex_ = Len(vec)],
                  SubSeq(data, writableBytes(b) + 1, Len(data)))

\* Where a line of s may end.
CRLFs(s) == {i \in 1..(Len(s) - 1) : s[i] = "CR" /\ s[i + 1] = "LF"}

\* findCRLF() # NULL, and the bytes before it, as peek() and crlf delimit them.
hasCRLF(b) == CRLFs(readable(b)) # {}
line(b) == LET ends == CRLFs(readable(b))
               crlf == CHOOSE i \in ends : \A j \in ends : i <= j
           IN  SubSeq(readable(b), 1, crlf - 1)

retrieveLine(b) == retrieve(b, Len(line(b)) + 2)
=============================================================================
