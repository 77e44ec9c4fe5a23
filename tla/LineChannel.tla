---------------------------- MODULE LineChannel ----------------------------
(***************************************************************************)
(* What reading a socket line by line amounts to.  A channel that loses    *)
(* nothing hands over every line sent once, whole, in order, and sooner or *)
(* later.  A lossy one may skip lines and may hand over garbage, but never *)
(* repeats a line or hands one over late.                                  *)
(***************************************************************************)
EXTENDS Integers, Sequences

CONSTANT Garbage     \* what is received in the place of a line, below any line number

VARIABLES lossy,     \* whether the channel may lose lines
          sent,      \* the number of lines sent
          last,      \* the last line received, by number
          received   \* all that was received

vars == <<lossy, sent, last, received>>

Init == lossy \in BOOLEAN /\ sent = 0 /\ last = 0 /\ received = <<>>

Send == sent' = sent + 1 /\ UNCHANGED <<lossy, last, received>>

Hand(line) == /\ last' = line
              /\ received' = Append(received, line)
              /\ UNCHANGED <<lossy, sent>>

ReceiveNext == ~lossy /\ last < sent /\ Hand(last + 1)

ReceiveLater == lossy /\ \E line \in last + 1 .. sent : Hand(line)

ReceiveGarbage == /\ lossy
                  /\ received' = Append(received, Garbage)
                  /\ UNCHANGED <<lossy, sent, last>>

Next == Send \/ ReceiveNext \/ ReceiveLater \/ ReceiveGarbage

\* Every line handed over is handed over in order.
Ordered == Init /\ [][Next]_vars

Spec == Ordered /\ WF_vars(ReceiveNext)
=============================================================================
