-------------------------- MODULE MCTcpConnection --------------------------
(* The instances of TcpConnection that TLC checks. *)
EXTENDS TcpConnection, TLC

\* The other threads are interchangeable; used only without liveness
Symmetry == Permutations(Thread)
=============================================================================
