----------------------------- MODULE SocketRead -----------------------------
(***************************************************************************)
(* A process that writes lines to a socket, the TCP connection, and the    *)
(* process at the other end, which plays one of two roles:                 *)
(*   - a data provider's lines are read by SocketReadConnector, into a     *)
(*     service of the trading system;                                      *)
(*   - the trading system's lines are read by a trading log, which prints  *)
(*     them.                                                               *)
(*                                                                         *)
(* TCP carries bytes, not lines: a line may come in parts and several      *)
(* lines may come at once.  Both readers read until their buffer holds a   *)
(* newline.  The connector uses the first line of the buffer and drops the *)
(* rest with it, as the buffer is a local variable; the log prints all the *)
(* buffer holds, as far as its first NUL.                                  *)
(***************************************************************************)
EXTENDS Integers, Sequences, SequencesExt

CONSTANTS
    MaxLines,       \* bound: the number of lines of the provider's file
    LineLength,     \* the length of a line, its newline included
    MaxRead         \* what one read_some takes at most (512 bytes)

ASSUME SocketAssumption == {MaxLines, LineLength, MaxRead} \subseteq Nat \ {0}

VARIABLES
    role,           \* who reads: "connector" or "log"
    paced,          \* the provider's sleep outlasts the handling of a line
    sent,           \* the lines the writer has written
    closed,         \* the writer's end of file, or its death
    wire,           \* bytes written that were not read
    buf,            \* the reader's streambuf
    full,           \* the last read filled the streambuf: no NUL follows its bytes
    printed,        \* what the log has printed
    handled,        \* history: the lines handed to OnMessage, Misread for a part of one
    reader          \* what the read thread is doing

world == <<role, paced>>
vars  == <<world, sent, closed, wire, buf, full, printed, handled, reader>>

Misread == 0
Overrun == [line |-> 0, at |-> 0]

\* The bytes of a line; the last one is its newline.
Bytes_TwoNewlines(n) == [i \in 1 .. LineLength + 1 |-> [line |-> n, at |-> i]]  \* mutant
Bytes(n) == [i \in 1 .. LineLength |-> [line |-> n, at |-> i]]

Newline(byte) == byte.at = LineLength

Init ==
    /\ role \in {"connector", "log"}
    /\ paced \in IF role = "log" THEN {FALSE} ELSE BOOLEAN
    /\ sent = 0
    /\ closed = FALSE
    /\ wire = <<>>
    /\ buf = <<>>
    /\ full = FALSE
    /\ printed = <<>>
    /\ handled = <<>>
    /\ reader = "reading"

(* The writer.                                                             *)

\* publish_socket, then sleep_for(refresh_rate_ms); PublishSocket does not sleep.
Publish ==
    /\ ~closed /\ sent < MaxLines
    /\ paced => reader = "reading" /\ wire = <<>> /\ buf = <<>>
    /\ sent' = sent + 1
    /\ wire' = wire \o Bytes(sent')
    /\ UNCHANGED <<world, closed, buf, full, printed, handled, reader>>

Close ==
    /\ ~closed
    /\ closed' = TRUE
    /\ UNCHANGED <<world, sent, wire, buf, full, printed, handled, reader>>

(* The readers.                                                            *)

\* read_until returns once there is a newline anywhere in the buffer.
Complete_Any(bytes) == bytes # <<>>                                 \* mutant
Complete(bytes) == \E i \in DOMAIN bytes : Newline(bytes[i])

\* What is left on the wire after n bytes were read.
Rest(bytes, n) == SubSeq(bytes, n + 1, Len(bytes))

ReadSome ==
    /\ reader = "reading" /\ ~Complete(buf)
    /\ \E n \in 1 .. MaxRead :
          /\ n <= Len(wire)
          /\ buf' = buf \o SubSeq(wire, 1, n)
          /\ wire' = Rest(wire, n)
          /\ full' = (n = MaxRead)
    /\ UNCHANGED <<world, sent, closed, printed, handled, reader>>

\* The line ProcessData makes of a buffer: the first one, if it is all there.
FirstLine(bytes) == IF bytes[1].at = 1 THEN bytes[1].line ELSE Misread

\* The tail of a line parses as another line, or throws what nothing catches:
\* out_of_range of productmap.at, invalid_argument of stod.
HandleLine ==
    /\ role = "connector"
    /\ reader = "reading" /\ Complete(buf)
    /\ \/ /\ handled' = Append(handled, FirstLine(buf))
          /\ reader' = "handling"
       \/ /\ FirstLine(buf) = Misread
          /\ reader' = "aborted"
          /\ UNCHANGED handled
    /\ buf' = <<>>
    /\ UNCHANGED <<world, sent, closed, wire, full, printed>>

\* OnMessage returns, and Read goes round its loop.
Handled ==
    /\ reader = "handling"
    /\ reader' = "reading"
    /\ UNCHANGED <<world, sent, closed, wire, buf, full, printed, handled>>

\* What a C string made of the buffer holds.  A streambuf grows by zeroed bytes, so
\* a NUL follows what was read, unless the read has filled it.
Row_FirstLine(bytes) ==                                             \* mutant
    {SubSeq(bytes, 1, Min({i \in DOMAIN bytes : Newline(bytes[i])}))}
Row(bytes) == {bytes} \cup (IF full THEN {Append(bytes, Overrun)} ELSE {})

PrintRow ==
    /\ role = "log"
    /\ reader = "reading" /\ Complete(buf)
    /\ \E row \in Row(buf) : printed' = printed \o row
    /\ buf' = <<>>
    /\ UNCHANGED <<world, sent, closed, wire, full, handled, reader>>

\* read_until throws eof, and the buffer goes with it.
EndOfFile_NoBreak ==                                                \* mutant
    /\ reader = "reading" /\ ~Complete(buf)
    /\ closed /\ wire = <<>>
    /\ UNCHANGED vars
EndOfFile ==
    /\ reader = "reading" /\ ~Complete(buf)
    /\ closed /\ wire = <<>>
    /\ reader' = "stopped"
    /\ buf' = <<>>
    /\ UNCHANGED <<world, sent, closed, wire, full, printed, handled>>

Reader == ReadSome \/ HandleLine \/ Handled \/ PrintRow \/ EndOfFile

Terminating == reader \in {"stopped", "aborted"} /\ UNCHANGED vars

Next == Publish \/ Close \/ Reader \/ Terminating

\* Bytes written arrive, and the operating system runs the read thread.
Spec == Init /\ [][Next]_vars /\ WF_vars(Reader)

-----------------------------------------------------------------------------
(* Properties.                                                             *)

BytesOf(lines) == [line : lines, at : 1 .. LineLength]

\* Every variable holds what its counterpart in the code can hold.
TypeOK ==
    /\ role \in {"connector", "log"} /\ {paced, full} \subseteq BOOLEAN
    /\ sent \in 0 .. MaxLines
    /\ closed \in BOOLEAN
    /\ wire \in Seq(BytesOf(1 .. sent))
    /\ buf \in Seq(BytesOf(1 .. sent))
    /\ printed \in Seq(BytesOf(1 .. sent) \cup {Overrun})
    /\ handled \in Seq(0 .. sent)
    /\ reader \in {"reading", "handling", "stopped", "aborted"}

Intact == {i \in DOMAIN handled : handled[i] # Misread}

LastIntact == IF Intact = {} THEN 0 ELSE handled[Max(Intact)]

\* When the writer is gone, its reader ends at the end of file.  Only one whose provider
\* does not wait for it may end on the tail of a line, and its process with it.
ReaderEnds ==
    closed ~> \/ reader = "stopped"
              \/ reader = "aborted" /\ role = "connector" /\ ~paced

\* A provider that sleeps long enough is read line by line, with nothing lost; from
\* any other, lines may be skipped or cut, but not handled twice or out of order.
Channel == INSTANCE LineChannel WITH
    Garbage <- Misread, lossy <- ~paced, received <- handled,
    last <- LastIntact

ImplementsChannel == Channel!Spec

\* Where a byte stands among all that were ever written.
Offset(byte) == (byte.line - 1) * LineLength + byte.at

\* What the log printed that was sent to it.
Genuine == {i \in DOMAIN printed : printed[i] # Overrun}

\* However the lines are cut up and put together on the way, and however far ahead
\* the writer is, a log prints every byte once and in order, and what it has not yet
\* printed is in its buffer or on the wire; what it prints beyond that comes from
\* behind a full buffer.
LogLosesNothing ==
    role = "log" =>
        /\ \A i \in Genuine : Offset(printed[i]) = Cardinality({j \in Genuine : j <= i})
        /\ \A i \in 1 .. Len(buf \o wire) :
              Offset((buf \o wire)[i]) = Cardinality(Genuine) + i
        /\ Cardinality(Genuine) + Len(buf \o wire) = sent * LineLength

\* connectors.hpp, at end of file: "sucessfully read all the data".
AllDataRead == role = "connector" /\ reader = "stopped" => handled = [n \in 1 .. sent |-> n]
=============================================================================
