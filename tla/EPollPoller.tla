---------------------------- MODULE EPollPoller ----------------------------
(***************************************************************************)
(* muduo::net::EPollPoller, as a record like that of PollPoller:           *)
(*                                                                         *)
(*   channels_   descriptor -> [channel, index], index "kAdded" or         *)
(*               "kDeleted"; a channel that is not there is kNew           *)
(*   epoll       descriptor -> [channel, events], the kernel's set         *)
(***************************************************************************)
EXTENDS Integers, Maps

newPoller == [channels_ |-> <<>>, epoll |-> <<>>]

Has(p, ch, fd) == fd \in DOMAIN p.channels_ /\ p.channels_[fd].channel = ch

index(p, fd) == p.channels_[fd].index

\* Besides the assertions: EPOLL_CTL_ADD of a descriptor in the set is fatal.
updateLegal(p, ch, fd, events) ==
  IF fd \in DOMAIN p.channels_
  THEN p.channels_[fd].channel = ch /\ (index(p, fd) = "kDeleted" => fd \notin DOMAIN p.epoll)
  ELSE fd \notin DOMAIN p.epoll

updateChannel(p, ch, fd, events) ==
  IF Has(p, ch, fd) /\ index(p, fd) = "kAdded" /\ events = {}
  THEN [channels_ |-> [p.channels_ EXCEPT ![fd].index = "kDeleted"],
        epoll |-> Without(p.epoll, fd)]
  ELSE [channels_ |-> Put(p.channels_, fd, [channel |-> ch, index |-> "kAdded"]),
        epoll |-> Put(p.epoll, fd, [channel |-> ch, events |-> events])]

removeLegal(p, ch, fd) == Has(p, ch, fd)

removeChannel(p, ch, fd) ==
  [channels_ |-> Without(p.channels_, fd),
   epoll |-> IF index(p, fd) = "kAdded" THEN Without(p.epoll, fd) ELSE p.epoll]

Watched(p) == {<<p.epoll[fd].channel, p.epoll[fd].events>> : fd \in DOMAIN p.epoll}

(***************************************************************************)
(* What the caller sees: each channel with the events it waits for; and    *)
(* what the map and the kernel's set have to do with each other for that   *)
(* to be so.                                                               *)
(***************************************************************************)
Registered(p) == [fd \in DOMAIN p.channels_ |->
                    [channel |-> p.channels_[fd].channel,
                     events |-> IF index(p, fd) = "kAdded" THEN p.epoll[fd].events ELSE {}]]

Sound(p) ==
  /\ p = [channels_ |-> p.channels_, epoll |-> p.epoll]
  /\ p.channels_ = [fd \in DOMAIN p.channels_ |->
                       [channel |-> p.channels_[fd].channel, index |-> p.channels_[fd].index]]
  /\ p.epoll = [fd \in DOMAIN p.epoll |->
                   [channel |-> p.epoll[fd].channel, events |-> p.epoll[fd].events]]
  /\ \A fd \in DOMAIN p.channels_ : index(p, fd) \in {"kAdded", "kDeleted"}
  /\ DOMAIN p.epoll = {fd \in DOMAIN p.channels_ : index(p, fd) = "kAdded"}
  /\ \A fd \in DOMAIN p.epoll : /\ p.epoll[fd].channel = p.channels_[fd].channel
                                /\ p.epoll[fd].events # {}
=============================================================================
