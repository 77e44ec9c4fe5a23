---------------------------- MODULE OutboundFeed ----------------------------
(***************************************************************************)
(* What a service that persists and publishes its data promises: the       *)
(* process at the other end of the socket receives the lines of the file,  *)
(* in the order of the file and without a gap, and the file is never more  *)
(* than one line ahead of it, unless the connection was lost.              *)
(***************************************************************************)
EXTENDS Integers, Sequences

CONSTANT Data       \* what a line may hold

VARIABLES written,  \* the lines of the file
          received, \* the lines the other process received
          lost      \* the connection was lost

vars == <<written, received, lost>>

Init == written = <<>> /\ received = <<>> /\ lost = FALSE

Write == /\ lost \/ received = written
         /\ \E line \in Data : written' = Append(written, line)
         /\ UNCHANGED <<received, lost>>

Deliver == /\ ~lost
           /\ Len(received) < Len(written)
           /\ received' = Append(received, written[Len(received) + 1])
           /\ UNCHANGED <<written, lost>>

Lose == /\ ~lost
        /\ lost' = TRUE
        /\ UNCHANGED <<written, received>>

Next == Write \/ Deliver \/ Lose

Spec == Init /\ [][Next]_vars
=============================================================================
