----------------------------- MODULE PollPoller -----------------------------
(***************************************************************************)
(* muduo::net::PollPoller: the array given to poll(2) and the map from     *)
(* descriptors to channels.  The poller is a record, each operation an     *)
(* operator on it, with a predicate for its assertions:                    *)
(*                                                                         *)
(*   pollfds_    sequence of [fd, events]; poll(2) ignores a negative fd   *)
(*   channels_   descriptor -> [channel, index], index being the channel's *)
(*               place in pollfds_, counted from 1                         *)
(*                                                                         *)
(* A channel that is not in channels_ is a new one: no channel is used     *)
(* again after it was removed.                                             *)
(***************************************************************************)
EXTENDS Integers, Sequences, Maps

newPoller == [pollfds_ |-> <<>>, channels_ |-> <<>>]

Has(p, ch, fd) == fd \in DOMAIN p.channels_ /\ p.channels_[fd].channel = ch

index(p, fd) == p.channels_[fd].index

\* Mutant: poll(2) still looks at a disabled channel, which it reports as hung up.
ignoredNot(fd) == fd

\* A disabled channel keeps its place under a negative number.
ignored(fd) == -fd - 1

updateLegal(p, ch, fd, events) ==
  IF fd \in DOMAIN p.channels_
  THEN /\ p.channels_[fd].channel = ch
       /\ index(p, fd) \in 1..Len(p.pollfds_)
       /\ p.pollfds_[index(p, fd)].fd \in {fd, ignored(fd)}
  ELSE TRUE

updateChannel(p, ch, fd, events) ==
  IF Has(p, ch, fd)
  THEN [p EXCEPT !.pollfds_[index(p, fd)] =
           [fd |-> IF events = {} THEN ignored(fd) ELSE @.fd, events |-> events]]
  ELSE [pollfds_ |-> Append(p.pollfds_, [fd |-> fd, events |-> events]),
        channels_ |-> Put(p.channels_, fd, [channel |-> ch, index |-> Len(p.pollfds_) + 1])]

removeLegal(p, ch, fd) ==
  /\ Has(p, ch, fd)
  /\ index(p, fd) \in 1..Len(p.pollfds_)
  /\ p.pollfds_[index(p, fd)] = [fd |-> ignored(fd), events |-> {}]

Front(s) == SubSeq(s, 1, Len(s) - 1)

\* The channel of the last entry, moved into the free place i.
moved(p, d, i) == [p.channels_[d] EXCEPT !.index = i]

removeChannel(p, ch, fd) ==
  LET i == index(p, fd)
      n == Len(p.pollfds_)
      end == p.pollfds_[n]
      fdAtEnd == IF end.fd < 0 THEN ignored(end.fd) ELSE end.fd
  IN  IF i = n
      THEN [pollfds_ |-> Front(p.pollfds_), channels_ |-> Without(p.channels_, fd)]
      ELSE [pollfds_ |-> [Front(p.pollfds_) EXCEPT ![i] = end],
            channels_ |-> [Without(p.channels_, fd) EXCEPT ![fdAtEnd] = moved(p, fdAtEnd, i)]]

\* The channels that poll() can make active, with the events it looks for.
Watched(p) == {<<p.channels_[p.pollfds_[i].fd].channel, p.pollfds_[i].events>> :
                  i \in {j \in 1..Len(p.pollfds_) : p.pollfds_[j].fd >= 0}}

(***************************************************************************)
(* What the caller sees: each channel with the events it waits for; and    *)
(* what array and map have to do with each other for that to be so.        *)
(***************************************************************************)
Registered(p) == [fd \in DOMAIN p.channels_ |-> [channel |-> p.channels_[fd].channel,
                                                 events |-> p.pollfds_[index(p, fd)].events]]

Sound(p) ==
  /\ p = [pollfds_ |-> p.pollfds_, channels_ |-> p.channels_]
  /\ p.pollfds_ \in Seq([fd : Int, events : SUBSET {"R", "W"}])
  /\ DOMAIN p.channels_ \subseteq Nat
  /\ p.channels_ = [fd \in DOMAIN p.channels_ |->
                       [channel |-> p.channels_[fd].channel, index |-> p.channels_[fd].index]]
  /\ \A fd \in DOMAIN p.channels_ :
        /\ index(p, fd) \in 1..Len(p.pollfds_)
        /\ LET e == p.pollfds_[index(p, fd)]
           IN  e.fd = IF e.events = {} THEN ignored(fd) ELSE fd
  /\ \A i \in 1..Len(p.pollfds_) : \E fd \in DOMAIN p.channels_ : index(p, fd) = i
=============================================================================
