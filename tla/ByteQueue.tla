----------------------------- MODULE ByteQueue -----------------------------
(***************************************************************************)
(* What a Buffer promises: a queue of bytes, appended at the end and taken *)
(* from the front.  Indices, capacity, compaction and growth do not show.  *)
(***************************************************************************)
EXTENDS Naturals, Sequences

CONSTANT Byte

VARIABLES content,   \* the readable bytes, oldest first
          call       \* the last operation and the bytes it put in or took out

bqVars == <<content, call>>

BQInit == content = <<>> /\ call = [op |-> "none", data |-> <<>>]

Put == /\ call'.op = "put"
       /\ call'.data \in Seq(Byte)
       /\ content' = content \o call'.data

Take == /\ call'.op = "take"
        /\ \E n \in 0 .. Len(content) :
             /\ call'.data = SubSeq(content, 1, n)
             /\ content' = SubSeq(content, n + 1, Len(content))

BQSpec == BQInit /\ [][Put \/ Take]_bqVars
=============================================================================
