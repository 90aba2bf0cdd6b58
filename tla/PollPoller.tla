----------------------------- MODULE PollPoller -----------------------------
(***************************************************************************)
(* PollPoller (src/src/net/poller/PollPoller.cc): the poller on poll(2),   *)
(* chosen with USE_POLL.  A channel's index is its place in the vector of  *)
(* pollfds; removal fills the gap with the last entry.                     *)
(***************************************************************************)
EXTENDS Integers, Sequences

CONSTANTS Channel, Event, Err  \* as in Poller

VARIABLES life, interest, revents,  \* as in Poller
          index,     \* _index, -1 in a new channel
          channels,  \* the keys of _channels
          pollfds    \* _pollfds

vars == <<life, interest, revents, index, channels, pollfds>>

Quiet == [c \in Channel |-> {}]

\* a pollfd of channel c; poll(2) ignores it when its fd is negative (on = FALSE)
Entry(c, on, E) == [fd |-> c, on |-> on, events |-> E]

Init == /\ life = [c \in Channel |-> "new"]
        /\ interest = Quiet /\ revents = Quiet
        /\ index = [c \in Channel |-> -1] /\ channels = {}
        /\ pollfds = <<>>

\* updateChannel
updateChannel(c, E) ==
  \/ /\ index[c] < 0
     /\ pollfds' = Append(pollfds, Entry(c, TRUE, E))
     /\ index' = [index EXCEPT ![c] = Len(pollfds)]
     /\ channels' = channels \cup {c}
  \/ /\ index[c] >= 0
     /\ pollfds' = [pollfds EXCEPT ![index[c] + 1] = Entry(c, E # {}, E)]
     /\ UNCHANGED <<index, channels>>

\* mutant: the entry that is moved keeps its index
removeForgetting(c) ==
  LET i == index[c] + 1
      n == Len(pollfds)
  IN /\ channels' = channels \ {c}
     /\ pollfds' = SubSeq([pollfds EXCEPT ![i] = pollfds[n]], 1, n - 1)
     /\ UNCHANGED index

\* mutant: the entry that is moved loses the sign of its descriptor
removeEnabling(c) ==
  LET i    == index[c] + 1
      n    == Len(pollfds)
      last == pollfds[n].fd
  IN /\ channels' = channels \ {c}
     /\ pollfds' = SubSeq([pollfds EXCEPT ![i] = Entry(last, TRUE, @.events)],
                          1, n - 1)
     /\ index' = IF i = n THEN index ELSE [index EXCEPT ![last] = i - 1]

\* removeChannel; the index of c is left as it is
removeChannel(c) ==
  LET i    == index[c] + 1
      n    == Len(pollfds)
      last == pollfds[n].fd
  IN /\ channels' = channels \ {c}
     /\ pollfds' = SubSeq([pollfds EXCEPT ![i] = pollfds[n]], 1, n - 1)
     /\ index' = IF i = n THEN index ELSE [index EXCEPT ![last] = i - 1]

\* Channel::update
Update(c, E) == /\ life[c] \in {"new", "in"} /\ (interest[c] # {} \/ E # {})
                /\ life' = [life EXCEPT ![c] = "in"]
                /\ interest' = [interest EXCEPT ![c] = E]
                /\ updateChannel(c, E)
                /\ revents' = Quiet

\* Channel::remove
Remove(c) == /\ life[c] = "in" /\ interest[c] = {}
             /\ life' = [life EXCEPT ![c] = "out"]
             /\ removeChannel(c)
             /\ revents' = Quiet
             /\ UNCHANGED interest

\* the channel is destroyed and another one made
Construct(c) == /\ life[c] = "out"
                /\ life' = [life EXCEPT ![c] = "new"]
                /\ index' = [index EXCEPT ![c] = -1]
                /\ revents' = Quiet
                /\ UNCHANGED <<interest, channels, pollfds>>

\* what poll(2) finds for an entry
Found(p, ready) == IF p.on THEN ready[p.fd] \cap (p.events \cup {Err}) ELSE {}

\* fillActiveChannels: the descriptor of each entry leads to its channel
fillActiveChannels(ready) ==
  LET At(c) == {i \in DOMAIN pollfds : pollfds[i].fd = c}
  IN revents' = [c \in Channel |-> UNION {Found(pollfds[i], ready) : i \in At(c)}]

Poll(ready) == /\ fillActiveChannels(ready)
               /\ UNCHANGED <<life, interest, index, channels, pollfds>>

Next == \/ \E c \in Channel : \/ \E E \in SUBSET Event : Update(c, E)
                              \/ Remove(c) \/ Construct(c)
        \/ \E ready \in [Channel -> SUBSET (Event \cup {Err})] : Poll(ready)

Spec == Init /\ [][Next]_vars

-----------------------------------------------------------------------------
(* Properties.                                                             *)

\* Every channel in the poller has exactly one entry, at its index, with its
\* interest, and each entry's channel is there: no index goes out of range and
\* no look-up in _channels fails, however often entries were moved
\* (updateChannel, removeChannel, fillActiveChannels).
EntriesMatch ==
  /\ channels = {c \in Channel : life[c] = "in"}
  /\ \A c \in channels : /\ index[c] + 1 \in DOMAIN pollfds
                         /\ pollfds[index[c] + 1] = Entry(c, interest[c] # {},
                                                          interest[c])
  /\ \A i \in DOMAIN pollfds : /\ pollfds[i].fd \in channels
                               /\ index[pollfds[i].fd] = i - 1
=============================================================================
