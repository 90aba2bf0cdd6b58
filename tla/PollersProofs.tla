---------------------------- MODULE PollersProofs ---------------------------
(***************************************************************************)
(* Proofs for modules EpollPoller, PollPoller and Pollers, for every       *)
(* finite set of descriptors, every set of events, every readiness and     *)
(* every initial size of the list of events.                               *)
(***************************************************************************)
EXTENDS Pollers, Sequences, TLAPS, FiniteSetTheorems, SequenceTheorems

-----------------------------------------------------------------------------
\* the types of EpollPoller's state
EpollTypes == /\ life \in [Channel -> {"new", "in", "out"}]
              /\ interest \in [Channel -> SUBSET Event]
              /\ index \in [Channel -> {"kNew", "kAdded", "kDeleted"}]
              /\ channels \subseteq Channel
              /\ epoll \subseteq Channel
              /\ mask \in [Channel -> SUBSET Event]
              /\ size \in Nat \ {0}
              /\ fatal \in BOOLEAN

\* What makes IndexTrue inductive: the kernel watches for exactly the interest the
\* channel showed last, and _channels has the channels that are in the poller.  The
\* guards of Update and Remove then leave no epoll_ctl that the kernel refuses.
EpollInv == /\ EpollTypes
            /\ IndexTrue
            /\ mask = interest
            /\ \A c \in Channel : life[c] = "in" <=> c \in channels

\* the type of a pollfd
PollFd == [fd : Channel, on : BOOLEAN, events : SUBSET Event]

\* the entry of a channel with interest E
Own(c, E) == PP!Entry(c, E # {}, E)

\* EntriesMatch of PollPoller, with Own for the entry of a channel
Matched == /\ pollChannels = {c \in Channel : life[c] = "in"}
           /\ \A c \in pollChannels : /\ pollIndex[c] + 1 \in DOMAIN pollfds
                                      /\ pollfds[pollIndex[c] + 1] = Own(c, interest[c])
           /\ \A i \in DOMAIN pollfds : /\ pollfds[i].fd \in pollChannels
                                        /\ pollIndex[pollfds[i].fd] = i - 1

\* What makes it inductive: a new channel has a negative index, which updateChannel
\* takes for one that has no entry, and only channels in the poller have interest.
PollInv == /\ pollIndex \in [Channel -> Int]
           /\ pollfds \in Seq(PollFd)
           /\ Matched
           /\ \A c \in Channel : /\ life[c] = "new" => pollIndex[c] < 0
                                 /\ life[c] # "in" => interest[c] = {}

\* The entry of a channel is well formed and leads back to it; with interest its
\* descriptor is positive, as updateChannel writes it for a new channel.
LEMMA OwnEntry ==
  ASSUME NEW c \in Channel, NEW E \in SUBSET Event
  PROVE  /\ Own(c, E) \in PollFd
         /\ Own(c, E).fd = c
         /\ E # {} => PP!Entry(c, TRUE, E) = Own(c, E)
  <1>1. PICK b \in BOOLEAN : b = (E # {})
    BY Zenon
  <1>2. Own(c, E) = [fd |-> c, on |-> b, events |-> E]
    BY <1>1, Zenon DEF Own, PP!Entry
  <1>3. E # {} => b = TRUE
    BY <1>1, Zenon
  <1>4. Own(c, E) \in PollFd /\ Own(c, E).fd = c
    BY <1>2 DEF PollFd
  <1> QED  BY <1>2, <1>3, <1>4, Zenon DEF PP!Entry

\* removeChannel's move on pollfds: the last entry fills the gap, the others stay
\* where they are, and the vector is one shorter.
LEMMA MoveLast ==
  ASSUME NEW S, NEW s \in Seq(S), NEW i \in 1 .. Len(s), NEW t,
         t = SubSeq([s EXCEPT ![i] = s[Len(s)]], 1, Len(s) - 1)
  PROVE  /\ t \in Seq(S)
         /\ DOMAIN t = 1 .. (Len(s) - 1)
         /\ \A k \in 1 .. (Len(s) - 1) : t[k] = IF k = i THEN s[Len(s)] ELSE s[k]
  <1>1. PICK m : m = [s EXCEPT ![i] = s[Len(s)]]
    OBVIOUS
  <1>2. m \in Seq(S) /\ Len(m) = Len(s)
    BY <1>1
  <1>3. \A k \in 1 .. Len(s) : m[k] = IF k = i THEN s[Len(s)] ELSE s[k]
    BY <1>1
  <1>4. t = SubSeq(m, 1, Len(s) - 1)
    BY <1>1
  <1>5. t \in Seq(S) /\ Len(t) = Len(s) - 1 /\ \A k \in 1 .. (Len(s) - 1) : t[k] = m[k]
    BY <1>2, <1>4
  <1> QED  BY <1>3, <1>5

\* Matched is EntriesMatch of PollPoller, written with Own.
LEMMA MatchedIs == Matched <=> PP!EntriesMatch
  BY Zenon DEF Matched, PP!EntriesMatch, Own

-----------------------------------------------------------------------------
\* EpollPoller starts in its invariant.
LEMMA InitEpoll == Init => EpollInv
  BY EpollAssumption DEF Init, EpollInv, EpollTypes, IndexTrue, Quiet

\* EpollPoller::updateChannel keeps it: ADD finds the descriptor absent, MOD and DEL
\* find it there.
LEMMA EpollUpdate ==
  ASSUME EpollInv, NEW c \in Channel, NEW E \in SUBSET Event, Update(c, E)
  PROVE  EpollInv'
  <1> USE DEF EpollInv, EpollTypes, IndexTrue, Update
  <1>1. CASE index[c] \in {"kNew", "kDeleted"} /\ ctl("ADD", c, E)
               /\ index' = [index EXCEPT ![c] = "kAdded"]
               /\ channels' = IF index[c] = "kNew" THEN channels \cup {c} ELSE channels
    BY <1>1 DEF ctl
  <1>2. CASE index[c] = "kAdded" /\ E = {} /\ ctl("DEL", c, E)
               /\ index' = [index EXCEPT ![c] = "kDeleted"] /\ channels' = channels
    BY <1>2 DEF ctl
  <1>3. CASE index[c] = "kAdded" /\ E # {} /\ ctl("MOD", c, E)
               /\ index' = index /\ channels' = channels
    BY <1>3 DEF ctl
  <1> QED  BY <1>1, <1>2, <1>3 DEF updateChannel

\* EpollPoller::removeChannel keeps it: a channel without interest has left the
\* kernel before it is removed.
LEMMA EpollRemove ==
  ASSUME EpollInv, NEW c \in Channel, Remove(c)
  PROVE  EpollInv'
  <1>1. index[c] # "kAdded"
    BY DEF EpollInv, EpollTypes, IndexTrue, Remove
  <1> QED  BY <1>1 DEF EpollInv, EpollTypes, IndexTrue, Remove

\* A new channel for a descriptor keeps it: the old one left no trace.
LEMMA EpollConstruct ==
  ASSUME EpollInv, NEW c \in Channel, Construct(c)
  PROVE  EpollInv'
  BY DEF EpollInv, EpollTypes, IndexTrue, Construct

\* EpollPoller::poll keeps it.
LEMMA EpollPoll ==
  ASSUME EpollInv, NEW ready, Poll(ready)
  PROVE  EpollInv'
  BY DEF EpollInv, EpollTypes, IndexTrue, Poll

-----------------------------------------------------------------------------
\* PollPoller starts in its invariant.
LEMMA InitPoll == PP!Init => PollInv
  BY DEF PP!Init, PollInv, Matched, PollFd, PP!Quiet

\* PollPoller::updateChannel keeps it: it appends an entry for a channel that has
\* none, and overwrites only the channel's own.
LEMMA PollUpdate ==
  ASSUME PollInv, EpollTypes, NEW c \in Channel, NEW E \in SUBSET Event, PP!Update(c, E)
  PROVE  PollInv'
  <1> USE DEF PollInv, EpollTypes, Matched, PP!Update
  <1>0. Own(c, E) \in PollFd /\ \A d \in Channel : Own(d, interest[d]).fd = d /\ Own(c, E).fd = c
    BY OwnEntry
  <1>1. CASE /\ pollIndex[c] < 0
             /\ pollfds' = Append(pollfds, PP!Entry(c, TRUE, E))
             /\ pollIndex' = [pollIndex EXCEPT ![c] = Len(pollfds)]
             /\ pollChannels' = pollChannels \cup {c}
    <2>1. c \notin pollChannels /\ life[c] = "new" /\ interest[c] = {} /\ E # {}
      <3>1. \A i \in DOMAIN pollfds : i \in Nat \ {0}
        OBVIOUS
      <3>2. c \notin pollChannels
        BY <1>1, <3>1
      <3> QED  BY <3>2
    <2>2. /\ pollfds' \in Seq(PollFd)
          /\ DOMAIN pollfds' = DOMAIN pollfds \cup {Len(pollfds) + 1}
          /\ Len(pollfds) + 1 \notin DOMAIN pollfds
          /\ pollfds'[Len(pollfds) + 1] = Own(c, E)
          /\ \A i \in DOMAIN pollfds : pollfds'[i] = pollfds[i]
          /\ Len(pollfds) \in Nat
      <3>1. pollfds' = Append(pollfds, Own(c, E)) /\ Own(c, E) \in PollFd
        BY <1>1, <2>1, OwnEntry
      <3> QED  BY <3>1
    <2>3. pollIndex' \in [Channel -> Int]
      BY <1>1, <2>2
    <2>4. pollChannels' = {d \in Channel : life'[d] = "in"}
      BY <1>1
    <2>5. ASSUME NEW d \in pollChannels'
          PROVE  /\ pollIndex'[d] + 1 \in DOMAIN pollfds'
                 /\ pollfds'[pollIndex'[d] + 1] = Own(d, interest'[d])
      <3>1. CASE d = c
        BY <1>0, <1>1, <2>1, <2>2, <3>1
      <3>2. CASE d # c
        <4>1. d \in pollChannels /\ pollIndex'[d] = pollIndex[d] /\ interest'[d] = interest[d]
          BY <1>1, <3>2
        <4> QED  BY <2>2, <4>1
      <3> QED  BY <3>1, <3>2
    <2>6. ASSUME NEW i \in DOMAIN pollfds'
          PROVE  /\ pollfds'[i].fd \in pollChannels'
                 /\ pollIndex'[pollfds'[i].fd] = i - 1
      <3>1. CASE i = Len(pollfds) + 1
        <4>1. pollfds'[i].fd = c
          BY <1>0, <2>2, <3>1
        <4>2. c \in pollChannels' /\ pollIndex'[c] = Len(pollfds)
          BY <1>1
        <4> QED  BY <2>2, <3>1, <4>1, <4>2
      <3>2. CASE i \in DOMAIN pollfds
        BY <1>1, <2>1, <2>2, <3>2
      <3> QED  BY <2>2, <3>1, <3>2
    <2>7. \A d \in Channel : /\ life'[d] = "new" => pollIndex'[d] < 0
                             /\ life'[d] # "in" => interest'[d] = {}
      BY <1>1
    <2> QED  BY <2>2, <2>3, <2>4, <2>5, <2>6, <2>7
  <1>2. CASE /\ pollIndex[c] >= 0
             /\ pollfds' = [pollfds EXCEPT ![pollIndex[c] + 1] = Own(c, E)]
             /\ pollIndex' = pollIndex /\ pollChannels' = pollChannels
    <2>1. c \in pollChannels
      BY <1>2
    <2>2. /\ pollfds' \in Seq(PollFd)
          /\ DOMAIN pollfds' = DOMAIN pollfds
          /\ pollfds'[pollIndex[c] + 1] = Own(c, E)
          /\ \A i \in DOMAIN pollfds : i # pollIndex[c] + 1 => pollfds'[i] = pollfds[i]
      BY <1>0, <1>2, <2>1
    <2>3. pollChannels' = {d \in Channel : life'[d] = "in"}
      BY <1>0, <1>2, <2>1
    <2>4. ASSUME NEW d \in pollChannels'
          PROVE  /\ pollIndex'[d] + 1 \in DOMAIN pollfds'
                 /\ pollfds'[pollIndex'[d] + 1] = Own(d, interest'[d])
      <3>1. CASE d = c
        BY <1>0, <1>2, <2>1, <2>2, <3>1
      <3>2. CASE d # c
        <4>1. d \in pollChannels /\ pollIndex'[d] = pollIndex[d] /\ interest'[d] = interest[d]
          BY <1>2, <3>2
        <4>2. pollIndex[d] + 1 \in DOMAIN pollfds /\ pollfds[pollIndex[d] + 1].fd = d
          BY <1>0, <4>1
        <4>3. pollfds[pollIndex[c] + 1].fd = c
          BY <1>0, <2>1
        <4> QED  BY <2>2, <3>2, <4>1, <4>2, <4>3
      <3> QED  BY <3>1, <3>2
    <2>5. ASSUME NEW i \in DOMAIN pollfds'
          PROVE  /\ pollfds'[i].fd \in pollChannels'
                 /\ pollIndex'[pollfds'[i].fd] = i - 1
      <3>1. CASE i = pollIndex[c] + 1
        BY <1>0, <1>2, <2>1, <2>2, <3>1
      <3>2. CASE i # pollIndex[c] + 1
        BY <1>2, <2>2, <3>2
      <3> QED  BY <3>1, <3>2
    <2>6. \A d \in Channel : /\ life'[d] = "new" => pollIndex'[d] < 0
                             /\ life'[d] # "in" => interest'[d] = {}
      BY <1>2
    <2> QED  BY <1>2, <2>2, <2>3, <2>4, <2>5, <2>6
  <1> QED  BY <1>1, <1>2 DEF PP!updateChannel, Own

\* PollPoller::removeChannel keeps it: the entry that is moved is still found at its
\* channel's index, and no other index changes.
LEMMA PollRemove ==
  ASSUME PollInv, EpollTypes, NEW c \in Channel, PP!Remove(c)
  PROVE  PollInv'
  <1> USE DEF PollInv, EpollTypes, Matched, PP!Remove
  <1>0. \A d \in Channel : Own(d, interest[d]).fd = d
    BY OwnEntry
  <1>1. PICK n \in Nat : n = Len(pollfds)
    OBVIOUS
  <1>2. PICK i \in 1 .. n : i = pollIndex[c] + 1
    BY <1>1
  <1>3. c \in pollChannels /\ pollfds[i].fd = c /\ DOMAIN pollfds = 1 .. n
    BY <1>0, <1>1, <1>2
  <1>4. PICK last \in pollChannels : last = pollfds[n].fd
    BY <1>1, <1>2
  <1>5. last \in pollChannels /\ pollIndex[last] = n - 1 /\ (last = c <=> i = n)
    <2>1. n \in DOMAIN pollfds
      BY <1>1, <1>2
    <2>2. last \in pollChannels /\ pollIndex[last] = n - 1
      BY <1>4, <2>1
    <2>3. i = n => last = c
      BY <1>3, <1>4
    <2> QED  BY <1>2, <2>2, <2>3
  <1>6. /\ pollChannels' = pollChannels \ {c}
        /\ pollfds' = SubSeq([pollfds EXCEPT ![i] = pollfds[n]], 1, n - 1)
        /\ pollIndex' = IF i = n THEN pollIndex ELSE [pollIndex EXCEPT ![last] = i - 1]
    BY <1>1, <1>2, <1>4 DEF PP!removeChannel
  <1>7. /\ pollfds' \in Seq(PollFd)
        /\ DOMAIN pollfds' = 1 .. (n - 1)
        /\ \A k \in 1 .. (n - 1) : pollfds'[k] = IF k = i THEN pollfds[n] ELSE pollfds[k]
    <2>1. pollfds \in Seq(PollFd) /\ i \in 1 .. Len(pollfds) /\ n = Len(pollfds)
      BY <1>1, <1>2
    <2> QED  BY ONLY <1>6, <2>1, MoveLast
  <1>8. \A d \in pollChannels : d # c /\ d # last => pollIndex[d] + 1 \in 1 .. (n - 1) /\ pollIndex[d] + 1 # i
    <2> TAKE d \in pollChannels
    <2> HAVE d # c /\ d # last
    <2>1. pollIndex[d] + 1 \in 1 .. n /\ pollfds[pollIndex[d] + 1].fd = d
      BY <1>0, <1>3
    <2>2. pollIndex[d] + 1 # n /\ pollIndex[d] + 1 # i
      BY <1>3, <1>4, <2>1
    <2> QED  BY <2>1, <2>2
  <1>9. pollIndex' \in [Channel -> Int]
    BY <1>2, <1>6
  <1>10. pollChannels' = {d \in Channel : life'[d] = "in"}
    BY <1>6
  <1>11. ASSUME NEW d \in pollChannels'
         PROVE  /\ pollIndex'[d] + 1 \in DOMAIN pollfds'
                /\ pollfds'[pollIndex'[d] + 1] = Own(d, interest'[d])
    <2>1. d \in pollChannels /\ d # c /\ interest' = interest
      BY <1>6
    <2>2. pollfds[pollIndex[d] + 1] = Own(d, interest[d])
      BY <2>1
    <2>3. CASE d = last
      <3>1. i # n /\ i \in 1 .. (n - 1) /\ pollIndex'[d] + 1 = i
        BY <1>2, <1>5, <1>6, <2>1, <2>3
      <3>2. pollfds'[i] = pollfds[n]
        BY <1>7, <3>1
      <3> QED  BY <1>5, <1>7, <2>1, <2>2, <2>3, <3>1, <3>2
    <2>4. CASE d # last
      <3>1. pollIndex'[d] = pollIndex[d]
        BY <1>6, <2>4
      <3> QED  BY <1>7, <1>8, <2>1, <2>2, <2>4, <3>1
    <2> QED  BY <2>3, <2>4
  <1>12. ASSUME NEW k \in DOMAIN pollfds'
         PROVE  /\ pollfds'[k].fd \in pollChannels'
                /\ pollIndex'[pollfds'[k].fd] = k - 1
    <2>1. k \in 1 .. (n - 1) /\ k \in DOMAIN pollfds
      BY <1>3, <1>7
    <2>2. CASE k = i
      <3>1. pollfds'[k] = pollfds[n] /\ i # n /\ last # c
        BY <1>5, <1>7, <2>1, <2>2
      <3> QED  BY <1>4, <1>5, <1>6, <2>2, <3>1
    <2>3. CASE k # i
      <3>0. pollfds'[k] = pollfds[k]
        BY <1>7, <2>1, <2>3
      <3>1. pollfds'[k] = pollfds[k] /\ pollfds[k].fd \in pollChannels /\ pollIndex[pollfds[k].fd] = k - 1
        BY <2>1, <3>0
      <3>2. pollfds[k].fd # c
        <4>1. pollIndex[c] = i - 1
          BY <1>2
        <4>2. k - 1 # i - 1
          BY <1>2, <2>1, <2>3
        <4> QED  BY ONLY <3>1, <4>1, <4>2
      <3>3. pollfds[k].fd # last
        BY <1>5, <2>1, <3>1
      <3> QED  BY <1>6, <3>1, <3>2, <3>3
    <2> QED  BY <2>2, <2>3
  <1>13. \A d \in Channel : /\ life'[d] = "new" => pollIndex'[d] < 0
                            /\ life'[d] # "in" => interest'[d] = {}
    BY <1>5, <1>6
  <1> QED  BY <1>7, <1>9, <1>10, <1>11, <1>12, <1>13

\* A new channel for a descriptor keeps it: no entry leads to its index.
LEMMA PollConstruct ==
  ASSUME PollInv, EpollTypes, NEW c \in Channel, PP!Construct(c)
  PROVE  PollInv'
  <1> USE DEF PollInv, EpollTypes, Matched, PP!Construct
  <1>1. c \notin pollChannels /\ pollIndex'[c] = -1 /\ life'[c] = "new"
    OBVIOUS
  <1>2. \A d \in Channel \ {c} : pollIndex'[d] = pollIndex[d] /\ life'[d] = life[d]
    OBVIOUS
  <1>3. pollIndex' \in [Channel -> Int] /\ pollChannels' = {d \in Channel : life'[d] = "in"}
    BY <1>1, <1>2
  <1> QED  BY <1>1, <1>2, <1>3

\* PollPoller::poll keeps it.
LEMMA PollPoll ==
  ASSUME PollInv, EpollTypes, NEW ready, PP!Poll(ready)
  PROVE  PollInv'
  BY DEF PollInv, EpollTypes, Matched, PP!Poll

-----------------------------------------------------------------------------
\* the types of what is reported, and SameReports
Reports == /\ revents \in [Channel -> SUBSET (Event \cup {Err})]
           /\ pollRevents \in [Channel -> SUBSET (Event \cup {Err})]
           /\ SameReports

\* Between polls neither poller reports anything.
LEMMA QuietReports ==
  ASSUME revents' = Quiet, pollRevents' = PP!Quiet
  PROVE  Reports'
  BY DEF Reports, SameReports, Quiet, PP!Quiet

\* what a poll that has room for every event finds for channel c
Saw(c, ready) == IF interest[c] # {} THEN ready[c] \cap (interest[c] \cup {Err}) ELSE {}

\* PollPoller::fillActiveChannels reports to each channel what its one entry found.
LEMMA PollSaw ==
  ASSUME PollInv, EpollTypes, NEW ready \in [Channel -> Readiness], PP!Poll(ready)
  PROVE  pollRevents' = [c \in Channel |-> Saw(c, ready)]
  <1> DEFINE At(c) == {i \in DOMAIN pollfds : pollfds[i].fd = c}
  <1>1. ASSUME NEW c \in Channel
        PROVE  UNION {PP!Found(pollfds[i], ready) : i \in At(c)} = Saw(c, ready)
    <2>1. CASE c \in pollChannels
      <3>1. pollIndex[c] + 1 \in DOMAIN pollfds /\ pollfds[pollIndex[c] + 1] = Own(c, interest[c])
        BY <2>1 DEF PollInv, Matched
      <3>2. Own(c, interest[c]).fd = c
        BY OwnEntry DEF EpollTypes
      <3>3. At(c) = {pollIndex[c] + 1}
        BY <2>1, <3>1, <3>2 DEF PollInv, Matched
      <3>4. PP!Found(Own(c, interest[c]), ready) = Saw(c, ready)
        <4>1. CASE interest[c] # {}
          <5>1. Own(c, interest[c]) = [fd |-> c, on |-> TRUE, events |-> interest[c]]
            BY <4>1, OwnEntry, Zenon DEF PP!Entry, EpollTypes
          <5> QED  BY <4>1, <5>1 DEF PP!Found, Saw
        <4>2. CASE interest[c] = {}
          <5>1. (interest[c] # {}) = FALSE
            BY <4>2, Zenon
          <5>2. Own(c, interest[c]) = [fd |-> c, on |-> FALSE, events |-> interest[c]]
            BY <5>1, Zenon DEF Own, PP!Entry
          <5> QED  BY <4>2, <5>2 DEF PP!Found, Saw
        <4> QED  BY <4>1, <4>2
      <3> QED  BY <3>1, <3>3, <3>4
    <2>2. CASE c \notin pollChannels
      <3>1. At(c) = {}
        BY <2>2 DEF PollInv, Matched
      <3>2. interest[c] = {}
        BY <2>2 DEF PollInv, Matched
      <3> QED  BY <3>1, <3>2 DEF Saw
    <2> QED  BY <2>1, <2>2
  <1>2. pollRevents' = [c \in Channel |-> UNION {PP!Found(pollfds[i], ready) : i \in At(c)}]
    BY DEF PP!Poll, PP!fillActiveChannels
  <1> HIDE DEF At
  <1> QED  BY <1>1, <1>2

\* After a poll of both, EpollPoller reports what PollPoller does for the events it
\* had room for, and for all of them unless the list was full, when it is doubled.
LEMMA PollReports ==
  ASSUME EpollInv, PollInv, NEW ready \in [Channel -> Readiness], BothPoll(ready)
  PROVE  Reports'
  <1>1. PICK found \in SUBSET epoll :
          found = {c \in epoll : ready[c] \cap (mask[c] \cup {Err}) # {}}
    OBVIOUS
  <1>2. PICK S \in SUBSET found :
          /\ Cardinality(S) = IF Cardinality(found) > size THEN size ELSE Cardinality(found)
          /\ revents' = [c \in Channel |->
                           IF c \in S THEN ready[c] \cap (mask[c] \cup {Err}) ELSE {}]
          /\ size' = IF Cardinality(S) = size THEN 2 * size ELSE size
    BY <1>1 DEF BothPoll, Poll
  <1>3. pollRevents' = [c \in Channel |-> Saw(c, ready)]
    BY PollSaw DEF BothPoll, EpollInv
  <1>4. mask = interest /\ epoll \subseteq Channel /\ size \in Nat
        /\ \A c \in Channel : interest[c] \subseteq Event /\ (c \in epoll <=> interest[c] # {})
    BY DEF EpollInv, EpollTypes, IndexTrue
  <1>5. \A c \in Channel : ready[c] \subseteq Event \cup {Err}
    BY ReadinessAssumption
  <1>6. \A c \in Channel : Saw(c, ready) \subseteq Event \cup {Err}
    BY <1>5 DEF Saw
  <1>7. \A c \in found : Saw(c, ready) = ready[c] \cap (mask[c] \cup {Err}) /\ Saw(c, ready) # {}
    BY <1>1, <1>4 DEF Saw
  <1>8. \A c \in Channel \ found : Saw(c, ready) = {}
    BY <1>1, <1>4 DEF Saw
  <1>9. found \subseteq Channel /\ S \subseteq Channel
    BY <1>4
  <1>10. revents' = [c \in Channel |-> IF c \in S THEN Saw(c, ready) ELSE {}]
    BY <1>2, <1>7
  <1>11. /\ revents' \in [Channel -> SUBSET (Event \cup {Err})]
         /\ pollRevents' \in [Channel -> SUBSET (Event \cup {Err})]
         /\ \A c \in Channel : revents'[c] \in {{}, pollRevents'[c]}
    BY <1>3, <1>6, <1>10
  <1>12. {c \in Channel : revents'[c] # {}} = S
    BY <1>7, <1>9, <1>10
  <1>13. ASSUME revents' # pollRevents'
         PROVE  2 * Cardinality({c \in Channel : revents'[c] # {}}) = size'
    <2>1. S # found
      BY <1>3, <1>8, <1>10, <1>13
    <2>2. IsFiniteSet(found)
      BY <1>9, ChannelAssumption, FS_Subset
    <2>3. Cardinality(S) # Cardinality(found)
      BY <2>1, <2>2, FS_Subset
    <2>4. Cardinality(S) = size
      BY <1>2, <2>3
    <2> QED  BY <1>2, <1>12, <2>4
  <1> QED  BY <1>11, <1>13 DEF Reports, SameReports

-----------------------------------------------------------------------------
\* the inductive invariant of both pollers
PollersInv == EpollInv /\ PollInv /\ Reports

\* Both start in it.
LEMMA InitPollers == BothInit => PollersInv
  <1> SUFFICES ASSUME BothInit PROVE PollersInv
    OBVIOUS
  <1>1. EpollInv /\ PollInv
    BY InitEpoll, InitPoll DEF BothInit
  <1>2. Reports
    BY DEF BothInit, Init, PP!Init, Quiet, PP!Quiet, Reports, SameReports
  <1> QED  BY <1>1, <1>2 DEF PollersInv

\* Every call of both keeps it.
LEMMA NextPollers == PollersInv /\ [BothNext]_allVars => PollersInv'
  <1> SUFFICES ASSUME PollersInv, [BothNext]_allVars PROVE PollersInv'
    OBVIOUS
  <1> USE DEF PollersInv
  <1>0. EpollTypes
    BY DEF EpollInv
  <1>1. ASSUME NEW c \in Channel, NEW E \in SUBSET Event, BothUpdate(c, E)
        PROVE  PollersInv'
    <2>1. EpollInv' /\ PollInv'
      BY <1>0, <1>1, EpollUpdate, PollUpdate DEF BothUpdate
    <2>2. Reports'
      BY <1>1, QuietReports DEF BothUpdate, Update, PP!Update
    <2> QED  BY <2>1, <2>2
  <1>2. ASSUME NEW c \in Channel, BothRemove(c)
        PROVE  PollersInv'
    <2>1. EpollInv' /\ PollInv'
      BY <1>0, <1>2, EpollRemove, PollRemove DEF BothRemove
    <2>2. Reports'
      BY <1>2, QuietReports DEF BothRemove, Remove, PP!Remove
    <2> QED  BY <2>1, <2>2
  <1>3. ASSUME NEW c \in Channel, BothConstruct(c)
        PROVE  PollersInv'
    <2>1. EpollInv' /\ PollInv'
      BY <1>0, <1>3, EpollConstruct, PollConstruct DEF BothConstruct
    <2>2. Reports'
      BY <1>3, QuietReports DEF BothConstruct, Construct, PP!Construct
    <2> QED  BY <2>1, <2>2
  <1>4. ASSUME NEW ready \in [Channel -> Readiness], BothPoll(ready)
        PROVE  PollersInv'
    <2>1. EpollInv' /\ PollInv'
      BY <1>0, <1>4, EpollPoll, PollPoll DEF BothPoll
    <2>2. Reports'
      BY <1>4, PollReports
    <2> QED  BY <2>1, <2>2
  <1>5. CASE UNCHANGED allVars
    BY <1>5 DEF allVars, vars, EpollInv, EpollTypes, IndexTrue, PollInv, Matched,
                Reports, SameReports
  <1> QED  BY <1>1, <1>2, <1>3, <1>4, <1>5 DEF BothNext

\* In both pollers a channel's index, the map and what the kernel was told agree, for
\* any number of channels however they come, go and change their interest: no
\* epoll_ctl fails and no entry of pollfds is another channel's (updateChannel,
\* removeChannel of EpollPoller.cc and PollPoller.cc).
THEOREM BothKeepEntries == BothSpec => []EntriesMatch
  <1>1. PollersInv => EntriesMatch
    BY MatchedIs DEF PollersInv, EpollInv, PollInv, EntriesMatch
  <1> QED  BY <1>1, InitPollers, NextPollers, PTL DEF BothSpec

\* The two pollers report the same channels with the same events; only a full list
\* of events makes EpollPoller leave some, and then it is doubled (poll and
\* fillActiveChannels of EpollPoller.cc and PollPoller.cc).
THEOREM BothReportTheSame == BothSpec => []SameReports
  <1>1. PollersInv => SameReports
    BY DEF PollersInv, Reports
  <1> QED  BY <1>1, InitPollers, NextPollers, PTL DEF BothSpec

\* EpollPoller::poll is a poll of the abstract Poller.
LEMMA PollStep ==
  ASSUME EpollInv, NEW ready \in [Channel -> Readiness], Poll(ready)
  PROVE  P!Poll
  <1>1. PICK S \in SUBSET epoll :
          revents' = [c \in Channel |->
                        IF c \in S THEN ready[c] \cap (mask[c] \cup {Err}) ELSE {}]
    BY DEF Poll
  <1>2. mask = interest /\ epoll \subseteq Channel
        /\ \A c \in Channel : interest[c] \subseteq Event /\ (c \in epoll <=> interest[c] # {})
    BY DEF EpollInv, EpollTypes, IndexTrue
  <1>3. ASSUME NEW c \in Channel
        PROVE  /\ revents'[c] \subseteq Event \cup {Err}
               /\ revents'[c] \subseteq (IF interest[c] = {} THEN {}
                                                          ELSE interest[c] \cup {Err})
    BY <1>1, <1>2
  <1>4. revents' \in [Channel -> SUBSET (Event \cup {Err})]
    BY <1>1, <1>3
  <1> QED  BY <1>3, <1>4 DEF P!Poll, Poll

\* EpollPoller keeps the promises of Poller.h: what it reports to a channel is part
\* of the interest the channel showed last, and nothing once it has none.
THEOREM EpollImplementsPoller == BothSpec => ImplementsPoller
  <1>1. BothInit => P!Init
    BY DEF BothInit, Init, P!Init, Quiet, P!Quiet
  <1>2. PollersInv /\ [BothNext]_allVars => [P!Next]_<<life, interest, revents>>
    <2> SUFFICES ASSUME PollersInv, [BothNext]_allVars
                 PROVE  [P!Next]_<<life, interest, revents>>
      OBVIOUS
    <2>1. ASSUME NEW c \in Channel, NEW E \in SUBSET Event, BothUpdate(c, E)
          PROVE  P!Update(c, E)
      BY <2>1 DEF BothUpdate, Update, P!Update, Quiet, P!Quiet
    <2>2. ASSUME NEW c \in Channel, BothRemove(c)
          PROVE  P!Remove(c)
      BY <2>2 DEF BothRemove, Remove, P!Remove, Quiet, P!Quiet
    <2>3. ASSUME NEW c \in Channel, BothConstruct(c)
          PROVE  P!Construct(c)
      BY <2>3 DEF BothConstruct, Construct, P!Construct, Quiet, P!Quiet
    <2>4. ASSUME NEW ready \in [Channel -> Readiness], BothPoll(ready)
          PROVE  P!Poll
      BY <2>4, PollStep DEF BothPoll, PollersInv
    <2>5. CASE UNCHANGED allVars
      BY <2>5 DEF allVars, vars
    <2> QED  BY <2>1, <2>2, <2>3, <2>4, <2>5 DEF BothNext, P!Next
  <1> QED  BY <1>1, <1>2, InitPollers, NextPollers, PTL
           DEF BothSpec, ImplementsPoller, P!Spec
\* the abstract poller, with what PollPoller reports
PollP == INSTANCE Poller WITH revents <- pollRevents

\* PollPoller::poll is a poll of the abstract Poller.
LEMMA PollPollStep ==
  ASSUME EpollInv, PollInv, NEW ready \in [Channel -> Readiness], PP!Poll(ready)
  PROVE  PollP!Poll
  <1>1. pollRevents' = [c \in Channel |-> Saw(c, ready)]
    BY PollSaw DEF EpollInv
  <1>2. \A c \in Channel : interest[c] \subseteq Event
    BY DEF EpollInv, EpollTypes
  <1>3. ASSUME NEW c \in Channel
        PROVE  /\ pollRevents'[c] \subseteq Event \cup {Err}
               /\ pollRevents'[c] \subseteq (IF interest[c] = {} THEN {}
                                                             ELSE interest[c] \cup {Err})
    BY <1>1, <1>2 DEF Saw
  <1>4. pollRevents' \in [Channel -> SUBSET (Event \cup {Err})]
    BY <1>1, <1>3
  <1> QED  BY <1>3, <1>4 DEF PollP!Poll, PP!Poll

\* PollPoller keeps the same promises (updateChannel, removeChannel, poll).
THEOREM PollPollerImplementsPoller == BothSpec => PollP!Spec
  <1>1. BothInit => PollP!Init
    BY DEF BothInit, PP!Init, PollP!Init, PP!Quiet, PollP!Quiet
  <1>2. PollersInv /\ [BothNext]_allVars => [PollP!Next]_<<life, interest, pollRevents>>
    <2> SUFFICES ASSUME PollersInv, [BothNext]_allVars
                 PROVE  [PollP!Next]_<<life, interest, pollRevents>>
      OBVIOUS
    <2>1. ASSUME NEW c \in Channel, NEW E \in SUBSET Event, BothUpdate(c, E)
          PROVE  PollP!Update(c, E)
      BY <2>1 DEF BothUpdate, PP!Update, PollP!Update, PP!Quiet, PollP!Quiet
    <2>2. ASSUME NEW c \in Channel, BothRemove(c)
          PROVE  PollP!Remove(c)
      BY <2>2 DEF BothRemove, PP!Remove, PollP!Remove, PP!Quiet, PollP!Quiet
    <2>3. ASSUME NEW c \in Channel, BothConstruct(c)
          PROVE  PollP!Construct(c)
      BY <2>3 DEF BothConstruct, PP!Construct, PollP!Construct, PP!Quiet, PollP!Quiet
    <2>4. ASSUME NEW ready \in [Channel -> Readiness], BothPoll(ready)
          PROVE  PollP!Poll
      BY <2>4, PollPollStep DEF BothPoll, PollersInv
    <2>5. CASE UNCHANGED allVars
      BY <2>5 DEF allVars, vars
    <2> QED  BY <2>1, <2>2, <2>3, <2>4, <2>5 DEF BothNext, PollP!Next
  <1> QED  BY <1>1, <1>2, InitPollers, NextPollers, PTL DEF BothSpec, PollP!Spec
=============================================================================
