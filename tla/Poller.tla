------------------------------- MODULE Poller -------------------------------
(***************************************************************************)
(* What a Poller promises to the channels of a loop (src/include/Poller.h, *)
(* src/include/Channel.h): a poll reports a channel only for events it     *)
(* asked for, with the interest it showed last, and not at all once it has *)
(* no interest or was removed.  Errors are always reported.                *)
(*                                                                         *)
(* It also states how the library uses a poller: a channel without         *)
(* interest is not disabled again, a channel is removed once, and a        *)
(* removed channel is destroyed; its descriptor may come back in a new     *)
(* channel.                                                                *)
(***************************************************************************)
EXTENDS Naturals

CONSTANTS Channel,  \* the descriptors; each has at most one channel at a time
          Event,    \* what a channel can ask for
          Err       \* error and hang-up, reported without being asked for

VARIABLES life,      \* of each channel: "new", "in" the poller or "out" of it
          interest,  \* _events
          revents    \* _revents, as set by the last poll

Quiet == [c \in Channel |-> {}]

Init == /\ life = [c \in Channel |-> "new"]
        /\ interest = Quiet /\ revents = Quiet

\* enableReading, disableWriting, ...: the interest is now E
Update(c, E) == /\ life[c] \in {"new", "in"} /\ (interest[c] # {} \/ E # {})
                /\ life' = [life EXCEPT ![c] = "in"]
                /\ interest' = [interest EXCEPT ![c] = E]
                /\ revents' = Quiet

\* remove, after disableAll
Remove(c) == /\ life[c] = "in" /\ interest[c] = {}
             /\ life' = [life EXCEPT ![c] = "out"]
             /\ revents' = Quiet
             /\ UNCHANGED interest

\* the channel is destroyed and another one made for the descriptor
Construct(c) == /\ life[c] = "out"
                /\ life' = [life EXCEPT ![c] = "new"]
                /\ revents' = Quiet
                /\ UNCHANGED interest

\* some of the channels are reported, for what is ready of their interest
Poll == /\ revents' \in [Channel -> SUBSET (Event \cup {Err})]
        /\ \A c \in Channel :
             revents'[c] \subseteq (IF interest[c] = {} THEN {}
                                                       ELSE interest[c] \cup {Err})
        /\ UNCHANGED <<life, interest>>

Next == \/ \E c \in Channel : \/ \E E \in SUBSET Event : Update(c, E)
                              \/ Remove(c) \/ Construct(c)
        \/ Poll

Spec == Init /\ [][Next]_<<life, interest, revents>>
=============================================================================
