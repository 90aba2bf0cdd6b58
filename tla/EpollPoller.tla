---------------------------- MODULE EpollPoller ----------------------------
(***************************************************************************)
(* EpollPoller (src/src/net/poller/EpollPoller.cc): the poller on epoll.   *)
(* It remembers in each channel's index whether the kernel has it, and     *)
(* gives up with LOG_FATAL when the kernel refuses an ADD or a MOD.        *)
(***************************************************************************)
EXTENDS Integers, FiniteSets

CONSTANTS Channel, Event, Err,  \* as in Poller
          InitSize              \* kInitEventListSize

ASSUME EpollAssumption == InitSize \in Nat \ {0} /\ Err \notin Event

\* a process has finitely many descriptors
ASSUME ChannelAssumption == IsFiniteSet(Channel)

VARIABLES life, interest, revents,  \* as in Poller
          index,     \* _index: "kNew", "kAdded" or "kDeleted"
          channels,  \* the keys of _channels
          epoll,     \* the kernel: the descriptors it watches
          mask,      \* the kernel: the events it watches for
          size,      \* size of _events
          fatal      \* epoll_ctl failed and the program has ended

vars == <<life, interest, revents, index, channels, epoll, mask, size, fatal>>

Quiet == [c \in Channel |-> {}]

Init == /\ life = [c \in Channel |-> "new"]
        /\ interest = Quiet /\ revents = Quiet
        /\ index = [c \in Channel |-> "kNew"] /\ channels = {}
        /\ epoll = {} /\ mask = Quiet
        /\ size = InitSize /\ fatal = FALSE

\* epoll_ctl: ADD of a descriptor that is there and MOD of one that is not fail
ctl(op, c, E) ==
  CASE op = "ADD" -> /\ fatal' = (fatal \/ c \in epoll)
                     /\ epoll' = epoll \cup {c}
                     /\ mask' = [mask EXCEPT ![c] = E]
    [] op = "MOD" -> /\ fatal' = (fatal \/ c \notin epoll)
                     /\ epoll' = epoll
                     /\ mask' = [mask EXCEPT ![c] = E]
    [] op = "DEL" -> /\ fatal' = fatal
                     /\ epoll' = epoll \ {c}
                     /\ mask' = [mask EXCEPT ![c] = {}]

\* mutant: a channel without interest is not taken out of the kernel
updateUnmodified(c, E) ==
  \/ /\ index[c] \in {"kNew", "kDeleted"}
     /\ index' = [index EXCEPT ![c] = "kAdded"]
     /\ channels' = IF index[c] = "kNew" THEN channels \cup {c} ELSE channels
     /\ ctl("ADD", c, E)
  \/ /\ index[c] = "kAdded"
     /\ ctl("MOD", c, E)
     /\ UNCHANGED <<index, channels>>

\* updateChannel
updateChannel(c, E) ==
  \/ /\ index[c] \in {"kNew", "kDeleted"}
     /\ index' = [index EXCEPT ![c] = "kAdded"]
     /\ channels' = IF index[c] = "kNew" THEN channels \cup {c} ELSE channels
     /\ ctl("ADD", c, E)
  \/ /\ index[c] = "kAdded" /\ E = {}
     /\ index' = [index EXCEPT ![c] = "kDeleted"]
     /\ ctl("DEL", c, E)
     /\ UNCHANGED channels
  \/ /\ index[c] = "kAdded" /\ E # {}
     /\ ctl("MOD", c, E)
     /\ UNCHANGED <<index, channels>>

\* Channel::update
Update(c, E) == /\ life[c] \in {"new", "in"} /\ (interest[c] # {} \/ E # {})
                /\ life' = [life EXCEPT ![c] = "in"]
                /\ interest' = [interest EXCEPT ![c] = E]
                /\ updateChannel(c, E)
                /\ revents' = Quiet
                /\ UNCHANGED size

\* Channel::remove and removeChannel
Remove(c) == /\ life[c] = "in" /\ interest[c] = {}
             /\ life' = [life EXCEPT ![c] = "out"]
             /\ channels' = channels \ {c}
             /\ index' = [index EXCEPT ![c] = "kNew"]
             /\ IF index[c] = "kAdded" THEN ctl("DEL", c, {})
                                       ELSE UNCHANGED <<epoll, mask, fatal>>
             /\ revents' = Quiet
             /\ UNCHANGED <<interest, size>>

\* the channel is destroyed and another one made
Construct(c) == /\ life[c] = "out"
                /\ life' = [life EXCEPT ![c] = "new"]
                /\ index' = [index EXCEPT ![c] = "kNew"]
                /\ revents' = Quiet
                /\ UNCHANGED <<interest, channels, epoll, mask, size, fatal>>

\* epoll_wait has room for size events; fillActiveChannels sets the revents, and
\* _events doubles when it was filled
Poll(ready) ==
  LET found == {c \in epoll : ready[c] \cap (mask[c] \cup {Err}) # {}}
  IN \E S \in SUBSET found :
       /\ Cardinality(S) = IF Cardinality(found) > size THEN size
                                                        ELSE Cardinality(found)
       /\ revents' = [c \in Channel |->
                        IF c \in S THEN ready[c] \cap (mask[c] \cup {Err}) ELSE {}]
       /\ size' = IF Cardinality(S) = size THEN 2 * size ELSE size
       /\ UNCHANGED <<life, interest, index, channels, epoll, mask, fatal>>

Next == \/ \E c \in Channel : \/ \E E \in SUBSET Event : Update(c, E)
                              \/ Remove(c) \/ Construct(c)
        \/ \E ready \in [Channel -> SUBSET (Event \cup {Err})] : Poll(ready)

Spec == Init /\ [][Next]_vars

-----------------------------------------------------------------------------
(* Properties.                                                             *)

\* The index of a channel says what the kernel has, so that no epoll_ctl fails
\* and the program is never ended by LOG_FATAL (updateChannel, removeChannel).
IndexTrue == /\ ~fatal
             /\ \A c \in Channel : /\ index[c] = "kAdded" <=> c \in epoll
                                   /\ index[c] = "kNew" <=> c \notin channels
                                   /\ c \in epoll <=> interest[c] # {}

P == INSTANCE Poller

\* The poller keeps the promises of Poller.
ImplementsPoller == P!Spec
=============================================================================
