------------------------------ MODULE Service ------------------------------
(***************************************************************************)
(* What a TcpServer promises its clients and its user: a client is         *)
(* accepted in its turn and while there is a descriptor for it, then       *)
(* reported up once and down once, and its descriptor is released after    *)
(* that.  Only a server that is being destroyed may skip a report.         *)
(***************************************************************************)
EXTENDS Integers, FiniteSets

CONSTANTS Conns,   \* the clients, numbered in the order in which they connect
          MaxFds   \* descriptors there are for connections

VARIABLES stage,   \* of each client
          closing  \* ~TcpServer has begun

Stages == {"waiting", "accepted", "up", "down", "released"}

Holding == {c \in Conns : stage[c] \in {"accepted", "up", "down"}}

Init == stage = [c \in Conns |-> "waiting"] /\ closing = FALSE

\* with the loop that accepts also the connection's, it is up at once
Accept(c) == /\ stage[c] = "waiting" /\ ~closing
             /\ \A d \in Conns : d < c => stage[d] # "waiting"
             /\ Cardinality(Holding) < MaxFds
             /\ \E s \in {"accepted", "up"} : stage' = [stage EXCEPT ![c] = s]
             /\ UNCHANGED closing

Up(c) == /\ stage[c] = "accepted"
         /\ stage' = [stage EXCEPT ![c] = "up"]
         /\ UNCHANGED closing

Down(c) == /\ stage[c] = "up"
           /\ stage' = [stage EXCEPT ![c] = "down"]
           /\ UNCHANGED closing

Release(S) == /\ \A c \in S : stage[c] = "down" \/ (closing /\ c \in Holding)
              /\ stage' = [c \in Conns |-> IF c \in S THEN "released"
                                                      ELSE stage[c]]
              /\ UNCHANGED closing

Close == closing' = TRUE /\ UNCHANGED stage

Next == \/ \E c \in Conns : Accept(c) \/ Up(c) \/ Down(c)
        \/ \E S \in SUBSET Conns : Release(S)
        \/ Close

Spec == Init /\ [][Next]_<<stage, closing>>
=============================================================================
