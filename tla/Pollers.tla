------------------------------- MODULE Pollers ------------------------------
(***************************************************************************)
(* EpollPoller and PollPoller under the same calls of the same channels.   *)
(* Poller::newDefaultPoller (src/src/net/poller/DefaultPollere.cc) takes   *)
(* one or the other by an environment variable: a program must not notice. *)
(***************************************************************************)
EXTENDS EpollPoller

CONSTANT Readiness  \* bound: what a descriptor may be ready for

ASSUME ReadinessAssumption == Readiness \subseteq SUBSET (Event \cup {Err})

VARIABLES pollIndex, pollChannels, pollRevents,  \* those of PollPoller
          pollfds

PP == INSTANCE PollPoller WITH index <- pollIndex, channels <- pollChannels,
                               revents <- pollRevents

allVars == <<vars, pollIndex, pollChannels, pollRevents, pollfds>>

BothInit == Init /\ PP!Init

BothUpdate(c, E) == Update(c, E) /\ PP!Update(c, E)

BothRemove(c) == Remove(c) /\ PP!Remove(c)

BothConstruct(c) == Construct(c) /\ PP!Construct(c)

BothPoll(ready) == Poll(ready) /\ PP!Poll(ready)

BothNext ==
  \/ \E c \in Channel : \/ \E E \in SUBSET Event : BothUpdate(c, E)
                        \/ BothRemove(c) \/ BothConstruct(c)
  \/ \E ready \in [Channel -> Readiness] : BothPoll(ready)

BothSpec == BothInit /\ [][BothNext]_allVars

-----------------------------------------------------------------------------
(* Properties, besides those of EpollPoller.                               *)

\* In both pollers a channel's index, the map and what the kernel has been told
\* agree: no epoll_ctl fails, which would end the program, and no entry of
\* pollfds is that of another channel (updateChannel, removeChannel of both).
EntriesMatch == IndexTrue /\ PP!EntriesMatch

\* The two pollers report the same channels with the same events, however the
\* channels came, went and changed their interest; only a list of events that
\* was full makes EpollPoller leave some for the next poll, and then it has been
\* doubled (poll and fillActiveChannels of both).
SameReports ==
  /\ \A c \in Channel : revents[c] \in {{}, pollRevents[c]}
  /\ revents # pollRevents
       => 2 * Cardinality({c \in Channel : revents[c] # {}}) = size
=============================================================================
