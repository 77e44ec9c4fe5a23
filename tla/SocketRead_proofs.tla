-------------------------- MODULE SocketRead_proofs --------------------------
(***************************************************************************)
(* Theorems about SocketRead, for lines of any length and reads of any     *)
(* size: what a log prints, and which lines a connector hands over.        *)
(***************************************************************************)
EXTENDS SocketRead, FiniteSetTheorems, SequenceTheorems, TLAPS

-----------------------------------------------------------------------------
(* Offsets.                                                                *)

LEMMA Sizes ==
    /\ LineLength \in Nat /\ LineLength > 0
    /\ MaxLines \in Nat /\ MaxLines > 0
    /\ MaxRead \in Nat /\ MaxRead > 0
BY SocketAssumption

\* Products keep their order.
LEMMA Products ==
    ASSUME NEW a \in Int, NEW b \in Int, a < b
    PROVE  a * LineLength + LineLength <= b * LineLength
<1>1. b - a - 1 \in Nat /\ LineLength \in Nat
  BY Sizes
<1>2. (b - a - 1) * LineLength \in Nat
  BY <1>1
<1>3. b * LineLength = a * LineLength + LineLength + (b - a - 1) * LineLength
  BY <1>1
<1> QED
  BY <1>1, <1>2, <1>3

LEMMA OneLess ==
    ASSUME NEW a \in Int
    PROVE  (a - 1) * LineLength = a * LineLength - LineLength /\ a * LineLength \in Int
BY Sizes

\* No two bytes have the same place.
LEMMA PlaceOfByte ==
    ASSUME NEW a \in Int, NEW b \in Int,
           NEW i \in 1 .. LineLength, NEW j \in 1 .. LineLength,
           a * LineLength + i = b * LineLength + j
    PROVE  a = b /\ i = j
<1>1. LineLength \in Nat /\ a * LineLength \in Int /\ b * LineLength \in Int
  BY Sizes
<1>2. ~(a < b)
  BY <1>1, Products
<1>3. ~(b < a)
  BY <1>1, Products
<1> QED
  BY <1>1, <1>2, <1>3

LEMMA ByteFields ==
    ASSUME NEW lines, NEW byte \in BytesOf(lines)
    PROVE  byte.line \in lines /\ byte.at \in 1 .. LineLength
BY DEF BytesOf

-----------------------------------------------------------------------------
(* Type correctness.                                                       *)

LEMMA SeqOfMore ==
    ASSUME NEW S, NEW T, S \subseteq T, NEW s \in Seq(S)
    PROVE  s \in Seq(T)
OBVIOUS

\* The newline of a buffer leaves it a first byte.
LEMMA CompleteHasFirst ==
    ASSUME NEW lines \in SUBSET Nat, NEW bytes \in Seq(BytesOf(lines)), Complete(bytes)
    PROVE  Len(bytes) >= 1 /\ bytes[1] \in BytesOf(lines) /\ FirstLine(bytes) \in lines \cup {0}
<1>1. Len(bytes) \in Nat /\ Len(bytes) >= 1
  BY DEF Complete
<1>2. bytes[1] \in BytesOf(lines)
  BY <1>1
<1> QED
  BY <1>1, <1>2, ByteFields DEF FirstLine, Misread

LEMMA InitType == Init => TypeOK
<1> SUFFICES ASSUME Init PROVE TypeOK
  OBVIOUS
<1>1. /\ wire \in Seq(BytesOf(1 .. sent)) /\ buf \in Seq(BytesOf(1 .. sent))
      /\ printed \in Seq(BytesOf(1 .. sent) \cup {Overrun}) /\ handled \in Seq(0 .. sent)
  BY DEF Init
<1>2. sent \in 0 .. MaxLines
  BY Sizes DEF Init
<1>3. paced \in BOOLEAN
  <2>1. paced \in IF role = "log" THEN {FALSE} ELSE BOOLEAN
    BY DEF Init
  <2> QED
    BY <2>1
<1> QED
  BY <1>1, <1>2, <1>3 DEF Init, TypeOK

LEMMA NextType == TypeOK /\ [Next]_vars => TypeOK'
<1> SUFFICES ASSUME TypeOK, [Next]_vars PROVE TypeOK'
  OBVIOUS
<1> DEFINE Now == BytesOf(1 .. sent)
<1>0. /\ sent \in 0 .. MaxLines /\ sent \in Nat /\ wire \in Seq(Now) /\ buf \in Seq(Now)
      /\ printed \in Seq(Now \cup {Overrun}) /\ handled \in Seq(0 .. sent)
      /\ full \in BOOLEAN /\ closed \in BOOLEAN
      /\ reader \in {"reading", "handling", "stopped", "aborted"}
      /\ role \in {"connector", "log"} /\ paced \in BOOLEAN
  BY Sizes DEF TypeOK
<1>1. CASE Publish
  <2> DEFINE Later == BytesOf(1 .. sent + 1)
  <2>1. /\ sent' = sent + 1 /\ wire' = wire \o Bytes(sent + 1) /\ sent < MaxLines
        /\ UNCHANGED <<world, closed, buf, full, printed, handled, reader>>
    BY <1>1 DEF Publish
  <2>2. Now \subseteq Later /\ 0 .. sent \subseteq 0 .. sent + 1
    BY <1>0 DEF BytesOf
  <2>3. Bytes(sent + 1) \in Seq(Later)
    <3>1. /\ Bytes(sent + 1) = [i \in 1 .. LineLength |-> [line |-> sent + 1, at |-> i]]
          /\ \A i \in 1 .. LineLength : [line |-> sent + 1, at |-> i] \in Later
      BY <1>0 DEF Bytes, BytesOf
    <3> HIDE DEF Later
    <3>2. Bytes(sent + 1) \in [1 .. LineLength -> Later]
      BY <3>1
    <3> QED
      BY <3>2, Sizes
  <2> HIDE DEF Now, Later
  <2>4. wire \in Seq(Later) /\ buf \in Seq(Later)
    BY <1>0, <2>2, SeqOfMore
  <2>5. printed \in Seq(Later \cup {Overrun})
    <3>1. Now \cup {Overrun} \subseteq Later \cup {Overrun}
      BY <2>2
    <3> QED
      BY <1>0, <3>1, SeqOfMore
  <2>6. handled \in Seq(0 .. sent + 1)
    BY <1>0, <2>2, SeqOfMore
  <2>7. wire' \in Seq(Later)
    BY <2>1, <2>3, <2>4, ConcatProperties
  <2>8. sent' \in 0 .. MaxLines
    BY <1>0, <2>1, Sizes
  <2> QED
    BY <1>0, <2>1, <2>4, <2>5, <2>6, <2>7, <2>8 DEF TypeOK, Later, world
<1>2. CASE Close
  BY <1>2 DEF Close, TypeOK, world
<1>3. CASE ReadSome
  <2>1. PICK n \in 1 .. MaxRead :
           /\ n <= Len(wire) /\ buf' = buf \o SubSeq(wire, 1, n)
           /\ wire' = SubSeq(wire, n + 1, Len(wire)) /\ full' = (n = MaxRead)
    BY <1>3 DEF ReadSome, Rest
  <2> HIDE DEF Now
  <2>2. n \in Nat /\ Len(wire) \in Nat
    BY <1>0, Sizes
  <2>3. SubSeq(wire, 1, n) \in Seq(Now) /\ wire' \in Seq(Now)
    BY <1>0, <2>1, <2>2
  <2>4. buf' \in Seq(Now)
    BY <1>0, <2>1, <2>3, ConcatProperties
  <2>5. full' \in BOOLEAN
    BY <2>1
  <2> QED
    BY <1>0, <1>3, <2>3, <2>4, <2>5 DEF ReadSome, TypeOK, Now, world
<1>4. CASE HandleLine
  <2>1. /\ Complete(buf) /\ buf' = <<>>
        /\ handled' \in {Append(handled, FirstLine(buf)), handled}
        /\ reader' \in {"handling", "aborted"}
        /\ UNCHANGED <<world, sent, closed, wire, full, printed>>
    BY <1>4 DEF HandleLine
  <2>2. FirstLine(buf) \in 0 .. sent
    <3>1. FirstLine(buf) \in 1 .. sent \cup {0}
      BY <1>0, <2>1, CompleteHasFirst
    <3> QED
      BY <1>0, <3>1
  <2> HIDE DEF Now
  <2>3. handled' \in Seq(0 .. sent)
    <3>1. Append(handled, FirstLine(buf)) \in Seq(0 .. sent)
      BY <1>0, <2>2
    <3> QED
      BY <1>0, <2>1, <3>1
  <2>4. buf' \in Seq(Now)
    BY <2>1
  <2> QED
    BY <1>0, <2>1, <2>3, <2>4 DEF TypeOK, Now, world
<1>5. CASE Handled
  BY <1>5 DEF Handled, TypeOK, world
<1>6. CASE PrintRow
  <2>1. /\ buf' = <<>>
        /\ printed' \in {printed \o buf, printed \o Append(buf, Overrun)}
        /\ UNCHANGED <<world, sent, closed, wire, full, handled, reader>>
    BY <1>6 DEF PrintRow, Row
  <2> HIDE DEF Now
  <2>2. buf \in Seq(Now \cup {Overrun})
    BY <1>0, SeqOfMore
  <2>3. Append(buf, Overrun) \in Seq(Now \cup {Overrun})
    BY <2>2
  <2>4. printed' \in Seq(Now \cup {Overrun})
    <3>1. printed \o buf \in Seq(Now \cup {Overrun})
      BY <1>0, <2>2, ConcatProperties
    <3>2. printed \o Append(buf, Overrun) \in Seq(Now \cup {Overrun})
      BY <1>0, <2>3, ConcatProperties
    <3> QED
      BY <2>1, <3>1, <3>2
  <2>5. buf' \in Seq(Now)
    BY <2>1
  <2> QED
    BY <1>0, <2>1, <2>4, <2>5 DEF TypeOK, Now, world
<1>7. CASE EndOfFile
  <2>1. buf' = <<>> /\ reader' = "stopped"
        /\ UNCHANGED <<world, sent, closed, wire, full, printed, handled>>
    BY <1>7 DEF EndOfFile
  <2> HIDE DEF Now
  <2>2. buf' \in Seq(Now)
    BY <2>1
  <2> QED
    BY <1>0, <2>1, <2>2 DEF TypeOK, Now, world
<1>8. CASE UNCHANGED vars
  BY <1>8 DEF vars, TypeOK, world
<1> QED
  BY <1>1, <1>2, <1>3, <1>4, <1>5, <1>6, <1>7, <1>8 DEF Next, Reader, Terminating

\* Every variable keeps its type, for any lines and any reads.
THEOREM TypeCorrect == Spec => []TypeOK
BY InitType, NextType, PTL DEF Spec

-----------------------------------------------------------------------------
(* The buffer and the wire.                                                *)

\* The bytes that have left the buffer.
Consumed == sent * LineLength - Len(buf) - Len(wire)

\* The buffer and the wire hold what was written after them, in order.
BytesInPlace ==
    /\ Consumed \in Nat
    /\ \A i \in 1 .. Len(buf) : Offset(buf[i]) = Consumed + i
    /\ \A i \in 1 .. Len(wire) : Offset(wire[i]) = Consumed + Len(buf) + i

\* What the provers need of the types.
LEMMA Bufs ==
    ASSUME TypeOK
    PROVE  /\ sent \in Nat /\ sent * LineLength \in Nat
           /\ Len(buf) \in Nat /\ DOMAIN buf = 1 .. Len(buf)
           /\ Len(wire) \in Nat /\ DOMAIN wire = 1 .. Len(wire)
           /\ Consumed \in Int
           /\ \A i \in 1 .. Len(buf) :
                 buf[i].line \in 1 .. sent /\ buf[i].at \in 1 .. LineLength
           /\ \A i \in 1 .. Len(wire) :
                 wire[i].line \in 1 .. sent /\ wire[i].at \in 1 .. LineLength
<1>1. /\ sent \in Nat /\ buf \in Seq(BytesOf(1 .. sent)) /\ wire \in Seq(BytesOf(1 .. sent))
  BY Sizes DEF TypeOK
<1>2. /\ Len(buf) \in Nat /\ DOMAIN buf = 1 .. Len(buf)
      /\ Len(wire) \in Nat /\ DOMAIN wire = 1 .. Len(wire)
      /\ \A i \in 1 .. Len(buf) : buf[i] \in BytesOf(1 .. sent)
      /\ \A i \in 1 .. Len(wire) : wire[i] \in BytesOf(1 .. sent)
  BY <1>1
<1>3. sent * LineLength \in Nat
  BY <1>1, Sizes
<1> QED
  BY <1>1, <1>2, <1>3, ByteFields DEF Consumed

LEMMA InitPlace == Init => BytesInPlace
<1> SUFFICES ASSUME Init PROVE BytesInPlace
  OBVIOUS
<1>1. sent = 0 /\ buf = <<>> /\ wire = <<>>
  BY DEF Init
<1>2. Consumed = 0
  BY <1>1, Sizes DEF Consumed
<1> QED
  BY <1>1, <1>2 DEF BytesInPlace

\* A writer adds a line behind all that was written.
LEMMA PublishStep ==
    ASSUME TypeOK, Publish
    PROVE  /\ Len(wire') = Len(wire) + LineLength
           /\ sent' = sent + 1 /\ sent' * LineLength = sent * LineLength + LineLength
           /\ UNCHANGED <<buf, printed, handled, role, paced>>
           /\ Consumed' = Consumed
           /\ \A i \in 1 .. Len(wire) : wire'[i] = wire[i]
           /\ \A i \in Len(wire) + 1 .. Len(wire') :
                 wire'[i] = [line |-> sent + 1, at |-> i - Len(wire)]
<1> DEFINE More == BytesOf(1 .. sent + 1)
<1>1. /\ sent' = sent + 1 /\ wire' = wire \o Bytes(sent + 1)
      /\ UNCHANGED <<buf, printed, handled, role, paced>>
  BY DEF Publish, world
<1>2. /\ sent \in Nat /\ wire \in Seq(BytesOf(1 .. sent)) /\ LineLength \in Nat
      /\ Len(wire) \in Nat /\ Len(buf) \in Nat
  BY Sizes, Bufs DEF TypeOK
<1>3. /\ Bytes(sent + 1) = [i \in 1 .. LineLength |-> [line |-> sent + 1, at |-> i]]
      /\ \A i \in 1 .. LineLength : [line |-> sent + 1, at |-> i] \in More
      /\ BytesOf(1 .. sent) \subseteq More
  BY <1>2 DEF Bytes, BytesOf
<1> HIDE DEF More
<1>4. Bytes(sent + 1) \in Seq(More) /\ Len(Bytes(sent + 1)) = LineLength
  BY <1>2, <1>3
<1>5. wire \in Seq(More)
  BY <1>2, <1>3, SeqOfMore
<1>6. /\ Len(wire') = Len(wire) + LineLength
      /\ \A i \in 1 .. Len(wire) + LineLength :
            wire'[i] = IF i <= Len(wire) THEN wire[i] ELSE Bytes(sent + 1)[i - Len(wire)]
  BY <1>1, <1>4, <1>5, ConcatProperties
<1>7. sent' * LineLength = sent * LineLength + LineLength
  BY <1>1, <1>2
<1>8. Consumed' = Consumed
  <2>1. Consumed' = sent' * LineLength - Len(buf) - Len(wire')
    BY <1>1 DEF Consumed
  <2>2. sent * LineLength \in Nat
    BY Bufs
  <2> QED
    BY <1>2, <1>6, <1>7, <2>1, <2>2 DEF Consumed
<1>9. ASSUME NEW i \in Len(wire) + 1 .. Len(wire')
      PROVE  wire'[i] = [line |-> sent + 1, at |-> i - Len(wire)]
  <2>1. i \in 1 .. Len(wire) + LineLength /\ ~(i <= Len(wire)) /\ i - Len(wire) \in 1 .. LineLength
    BY <1>2, <1>6
  <2> QED
    BY <1>3, <1>6, <2>1
<1>10. \A i \in 1 .. Len(wire) : wire'[i] = wire[i]
  BY <1>2, <1>6
<1> QED
  BY <1>1, <1>6, <1>7, <1>8, <1>9, <1>10

\* A read moves bytes from the front of the wire to the end of the buffer.
LEMMA ReadStep ==
    ASSUME TypeOK, ReadSome
    PROVE  \E n \in 1 .. Len(wire) :
              /\ Len(buf') = Len(buf) + n /\ Len(wire') = Len(wire) - n
              /\ UNCHANGED <<sent, printed, handled, role, paced>>
              /\ Consumed' = Consumed
              /\ \A i \in 1 .. Len(buf) : buf'[i] = buf[i]
              /\ \A i \in Len(buf) + 1 .. Len(buf') : buf'[i] = wire[i - Len(buf)]
              /\ \A i \in 1 .. Len(wire') : wire'[i] = wire[i + n]
<1> DEFINE Now == BytesOf(1 .. sent)
<1>1. PICK n \in 1 .. MaxRead :
         /\ n <= Len(wire) /\ buf' = buf \o SubSeq(wire, 1, n)
         /\ wire' = SubSeq(wire, n + 1, Len(wire))
  BY DEF ReadSome, Rest
<1>2. /\ wire \in Seq(Now) /\ buf \in Seq(Now) /\ Len(wire) \in Nat /\ Len(buf) \in Nat
      /\ n \in Nat /\ n \in 1 .. Len(wire) /\ sent * LineLength \in Nat
  BY <1>1, Sizes, Bufs DEF TypeOK
<1>3. UNCHANGED <<sent, printed, handled, role, paced>>
  BY DEF ReadSome, world
<1> HIDE DEF Now
<1>4. /\ SubSeq(wire, 1, n) \in Seq(Now) /\ Len(SubSeq(wire, 1, n)) = n
      /\ \A i \in 1 .. n : SubSeq(wire, 1, n)[i] = wire[i]
  BY <1>2
<1>5. /\ Len(buf') = Len(buf) + n
      /\ \A i \in 1 .. Len(buf) + n :
            buf'[i] = IF i <= Len(buf) THEN buf[i] ELSE SubSeq(wire, 1, n)[i - Len(buf)]
  BY <1>1, <1>2, <1>4, ConcatProperties
<1>6. /\ Len(wire') = Len(wire) - n
      /\ \A i \in 1 .. Len(wire) - n : wire'[i] = wire[i + n]
  BY <1>1, <1>2
<1>7. Consumed' = Consumed
  BY <1>2, <1>3, <1>5, <1>6 DEF Consumed
<1>8. \A i \in 1 .. Len(buf) : buf'[i] = buf[i]
  BY <1>2, <1>5
<1>9. ASSUME NEW i \in Len(buf) + 1 .. Len(buf')
      PROVE  buf'[i] = wire[i - Len(buf)]
  <2>1. i \in 1 .. Len(buf) + n /\ ~(i <= Len(buf)) /\ i - Len(buf) \in 1 .. n
    BY <1>2, <1>5
  <2> QED
    BY <1>4, <1>5, <2>1
<1> QED
  BY <1>2, <1>3, <1>5, <1>6, <1>7, <1>8, <1>9

\* A reader that takes the buffer takes what is in it.
LEMMA TakeStep ==
    ASSUME TypeOK, BytesInPlace, UNCHANGED <<sent, wire>>, buf' = <<>>
    PROVE  Consumed' = Consumed + Len(buf) /\ BytesInPlace'
<1>1. /\ Len(buf) \in Nat /\ Len(wire) \in Nat /\ sent * LineLength \in Nat
      /\ Consumed \in Nat /\ Len(buf') = 0
  BY Bufs DEF BytesInPlace
<1>2. Consumed' = Consumed + Len(buf)
  BY <1>1 DEF Consumed
<1> QED
  BY <1>1, <1>2 DEF BytesInPlace, Offset

LEMMA NextPlace == TypeOK /\ BytesInPlace /\ [Next]_vars => BytesInPlace'
<1> SUFFICES ASSUME TypeOK, BytesInPlace, [Next]_vars PROVE BytesInPlace'
  OBVIOUS
<1>0. /\ Len(buf) \in Nat /\ Len(wire) \in Nat /\ Consumed \in Nat /\ sent \in Nat
      /\ LineLength \in Nat /\ sent * LineLength \in Nat
      /\ Consumed + Len(buf) + Len(wire) = sent * LineLength
  BY Bufs, Sizes DEF BytesInPlace, Consumed
<1>1. CASE Publish
  <2>1. /\ Len(wire') = Len(wire) + LineLength /\ UNCHANGED buf /\ Consumed' = Consumed
        /\ \A i \in 1 .. Len(wire) : wire'[i] = wire[i]
        /\ \A i \in Len(wire) + 1 .. Len(wire') :
              wire'[i] = [line |-> sent + 1, at |-> i - Len(wire)]
    BY <1>1, PublishStep
  <2>2. ASSUME NEW i \in 1 .. Len(wire')
        PROVE  Offset(wire'[i]) = Consumed + Len(buf) + i
    <3>1. CASE i <= Len(wire)
      BY <1>0, <2>1, <3>1 DEF BytesInPlace
    <3>2. CASE i > Len(wire)
      <4>0. i \in Len(wire) + 1 .. Len(wire')
        BY <1>0, <2>1, <3>2
      <4>1. wire'[i] = [line |-> sent + 1, at |-> i - Len(wire)]
        BY <2>1, <4>0
      <4>2. Offset(wire'[i]) = sent * LineLength + (i - Len(wire))
        BY <1>0, <4>1 DEF Offset
      <4> QED
        BY <1>0, <2>1, <4>2
    <3> QED
      BY <1>0, <2>1, <3>1, <3>2
  <2> QED
    BY <2>1, <2>2 DEF BytesInPlace, Offset
<1>2. CASE ReadSome
  <2>1. PICK n \in 1 .. Len(wire) :
           /\ Len(buf') = Len(buf) + n /\ Len(wire') = Len(wire) - n /\ Consumed' = Consumed
           /\ \A i \in 1 .. Len(buf) : buf'[i] = buf[i]
           /\ \A i \in Len(buf) + 1 .. Len(buf') : buf'[i] = wire[i - Len(buf)]
           /\ \A i \in 1 .. Len(wire') : wire'[i] = wire[i + n]
    BY <1>2, ReadStep
  <2>2. ASSUME NEW i \in 1 .. Len(buf') PROVE Offset(buf'[i]) = Consumed + i
    <3>1. CASE i <= Len(buf)
      BY <1>0, <2>1, <3>1 DEF BytesInPlace
    <3>2. CASE i > Len(buf)
      <4>1. buf'[i] = wire[i - Len(buf)] /\ i - Len(buf) \in 1 .. Len(wire)
        BY <1>0, <2>1, <3>2
      <4>2. Offset(buf'[i]) = Consumed + Len(buf) + (i - Len(buf))
        BY <4>1 DEF BytesInPlace
      <4> QED
        BY <1>0, <2>1, <4>2
    <3> QED
      BY <1>0, <2>1, <3>1, <3>2
  <2>3. ASSUME NEW i \in 1 .. Len(wire') PROVE Offset(wire'[i]) = Consumed + Len(buf') + i
    <3>1. wire'[i] = wire[i + n] /\ i + n \in 1 .. Len(wire)
      BY <1>0, <2>1
    <3>2. Offset(wire'[i]) = Consumed + Len(buf) + (i + n)
      BY <3>1 DEF BytesInPlace
    <3> QED
      BY <1>0, <2>1, <3>2
  <2> QED
    BY <2>1, <2>2, <2>3 DEF BytesInPlace, Offset
<1>3. CASE HandleLine
  BY <1>3, TakeStep DEF HandleLine
<1>4. CASE PrintRow
  BY <1>4, TakeStep DEF PrintRow
<1>5. CASE EndOfFile
  BY <1>5, TakeStep DEF EndOfFile
<1>6. CASE Close \/ Handled \/ UNCHANGED vars
  <2>1. UNCHANGED <<sent, buf, wire>>
    BY <1>6 DEF Close, Handled, vars
  <2> QED
    BY <2>1 DEF BytesInPlace, Consumed, Offset
<1> QED
  BY <1>1, <1>2, <1>3, <1>4, <1>5, <1>6 DEF Next, Reader, Terminating

\* When all that was written has been read and the buffer holds no newline, it is
\* empty: the last byte of a line is its newline.
LEMMA NothingCutOff ==
    ASSUME TypeOK, BytesInPlace, wire = <<>>, ~Complete(buf)
    PROVE  Len(buf) = 0
<1> SUFFICES ASSUME Len(buf) # 0 PROVE FALSE
  OBVIOUS
<1> DEFINE byte == buf[Len(buf)]
<1>1. /\ Len(buf) \in 1 .. Len(buf) /\ Len(buf) \in DOMAIN buf /\ Len(wire) = 0 /\ sent \in Nat
      /\ LineLength \in Nat /\ LineLength > 0
  BY Bufs, Sizes
<1>2. byte.line \in 1 .. sent /\ byte.at \in 1 .. LineLength
  BY <1>1, Bufs
<1>3. Offset(byte) = sent * LineLength
  BY <1>1, Bufs DEF BytesInPlace, Consumed
<1>4. (byte.line - 1) * LineLength + byte.at = (sent - 1) * LineLength + LineLength
  BY <1>1, <1>2, <1>3 DEF Offset
<1>5. byte.at = LineLength
  <2>1. byte.line - 1 \in Int /\ sent - 1 \in Int /\ LineLength \in 1 .. LineLength
    BY <1>1, <1>2
  <2> QED
    BY <1>2, <1>4, <2>1, PlaceOfByte
<1> QED
  BY <1>1, <1>5 DEF Complete, Newline

-----------------------------------------------------------------------------
(* What a log prints.                                                      *)

\* A log has printed what has left the buffer.
PrintedInOrder ==
    role = "log" =>
        /\ Cardinality(Genuine) = Consumed
        /\ \A i \in Genuine : Offset(printed[i]) = Cardinality({j \in Genuine : j <= i})

\* So many more elements, above those of a set.
LEMMA CountMore ==
    ASSUME NEW n \in Nat, NEW G \in SUBSET (1 .. n), NEW k \in Nat
    PROVE  /\ IsFiniteSet(G) /\ Cardinality(G) \in Nat
           /\ Cardinality(G \cup (n + 1 .. n + k)) = Cardinality(G) + k
<1>1. IsFiniteSet(1 .. n)
  BY FS_Interval
<1>2. IsFiniteSet(G) /\ Cardinality(G) \in Nat
  BY <1>1, FS_Subset, FS_CardinalityType
<1>3. IsFiniteSet(n + 1 .. n + k) /\ Cardinality(n + 1 .. n + k) = k
  <2>1. /\ IsFiniteSet(n + 1 .. n + k)
        /\ Cardinality(n + 1 .. n + k) = IF n + 1 > n + k THEN 0 ELSE (n + k) - (n + 1) + 1
    BY FS_Interval
  <2> QED
    BY <2>1
<1>4. G \cap (n + 1 .. n + k) = {} /\ Cardinality({}) = 0
  <2>1. G \cap (n + 1 .. n + k) = {}
    OBVIOUS
  <2> QED
    BY <2>1, FS_EmptySet
<1>5. Cardinality(G \cup (n + 1 .. n + k)) =
          Cardinality(G) + Cardinality(n + 1 .. n + k) - Cardinality(G \cap (n + 1 .. n + k))
  BY <1>2, <1>3, FS_Union
<1>6. Cardinality(G \cup (n + 1 .. n + k)) = Cardinality(G) + k - 0
  BY <1>3, <1>4, <1>5, Zenon
<1> QED
  BY <1>2, <1>6

LEMMA InitPrinted == Init => PrintedInOrder
<1> SUFFICES ASSUME Init PROVE PrintedInOrder
  OBVIOUS
<1>1. sent = 0 /\ buf = <<>> /\ wire = <<>> /\ printed = <<>>
  BY DEF Init
<1>2. Consumed = 0
  BY <1>1, Sizes DEF Consumed
<1>3. Genuine = {}
  BY <1>1 DEF Genuine
<1>4. Cardinality(Genuine) = 0
  BY <1>3, FS_EmptySet
<1> QED
  BY <1>2, <1>3, <1>4 DEF PrintedInOrder

\* A row that is printed is the buffer, and at most a byte from beyond it.
LEMMA PrintStep ==
    ASSUME TypeOK, PrintRow
    PROVE  /\ Len(printed) \in Nat /\ Len(buf) \in Nat
           /\ \A i \in 1 .. Len(printed) : printed'[i] = printed[i]
           /\ \A i \in Len(printed) + 1 .. Len(printed) + Len(buf) :
                 printed'[i] = buf[i - Len(printed)]
           /\ Genuine \subseteq 1 .. Len(printed)
           /\ Genuine' = Genuine \cup (Len(printed) + 1 .. Len(printed) + Len(buf))
<1> DEFINE Text == BytesOf(1 .. sent) \cup {Overrun}
           n == Len(printed)
           m == Len(buf)
<1>1. printed \in Seq(Text) /\ buf \in Seq(BytesOf(1 .. sent))
  BY DEF TypeOK
<1>2. BytesOf(1 .. sent) \subseteq Text /\ Overrun \in Text
  OBVIOUS
<1> HIDE DEF Text
<1>3. buf \in Seq(Text)
  BY <1>1, <1>2, SeqOfMore
<1>4. PICK row \in {buf, Append(buf, Overrun)} : printed' = printed \o row
  BY DEF PrintRow, Row
<1>5. /\ n \in Nat /\ m \in Nat /\ DOMAIN printed = 1 .. n
      /\ row \in Seq(Text) /\ Len(row) \in {m, m + 1}
      /\ \A i \in 1 .. m : row[i] = buf[i]
      /\ Len(row) = m + 1 => row[m + 1] = Overrun
  <2>1. CASE row = buf
    BY <1>1, <1>3, <2>1
  <2>2. CASE row = Append(buf, Overrun)
    BY <1>1, <1>2, <1>3, <2>2
  <2> QED
    BY <1>4, <2>1, <2>2
<1>6. /\ printed' \in Seq(Text) /\ Len(printed') = n + Len(row)
      /\ \A i \in 1 .. n + Len(row) :
            printed'[i] = IF i <= n THEN printed[i] ELSE row[i - n]
  BY <1>1, <1>4, <1>5, ConcatProperties
<1>7. \A i \in 1 .. n : printed'[i] = printed[i]
  BY <1>5, <1>6
<1>8. ASSUME NEW i \in n + 1 .. n + m PROVE printed'[i] = buf[i - n]
  <2>1. i \in 1 .. n + Len(row) /\ ~(i <= n) /\ i - n \in 1 .. m
    BY <1>5
  <2> QED
    BY <1>5, <1>6, <2>1
<1>9. \A i \in n + 1 .. n + m : printed'[i] # Overrun
  <2>1. \A i \in 1 .. m : buf[i].line # 0
    BY Bufs
  <2>2. \A i \in n + 1 .. n + m : i - n \in 1 .. m
    BY <1>5
  <2>3. Overrun.line = 0
    BY DEF Overrun
  <2> QED
    BY <1>8, <2>1, <2>2, <2>3
<1>10. Len(row) = m + 1 => printed'[n + m + 1] = Overrun
  <2>1. CASE Len(row) = m + 1
    <3>1. n + m + 1 \in 1 .. n + Len(row) /\ ~(n + m + 1 <= n) /\ (n + m + 1) - n = m + 1
      BY <1>5, <2>1
    <3>2. printed'[n + m + 1] = row[(n + m + 1) - n]
      BY <1>6, <3>1
    <3> QED
      BY <1>5, <2>1, <3>1, <3>2
  <2> QED
    BY <2>1
<1>11. DOMAIN printed' = 1 .. n + Len(row)
  BY <1>6
<1>12. Genuine = {i \in 1 .. n : printed[i] # Overrun}
  BY <1>5 DEF Genuine
<1>13. Genuine' = {i \in 1 .. n + Len(row) : printed'[i] # Overrun}
  BY <1>11 DEF Genuine
<1>14. ASSUME NEW i PROVE i \in Genuine' <=> i \in Genuine \cup (n + 1 .. n + m)
  <2>1. CASE i \in 1 .. n
    <3>1. i \in 1 .. n + Len(row) /\ i \notin n + 1 .. n + m
      BY <1>5, <2>1
    <3> QED
      BY <1>7, <1>12, <1>13, <2>1, <3>1
  <2>2. CASE i \in n + 1 .. n + m
    <3>1. i \in 1 .. n + Len(row)
      BY <1>5, <2>2
    <3> QED
      BY <1>9, <1>13, <2>2, <3>1
  <2>3. CASE i \notin 1 .. n /\ i \notin n + 1 .. n + m
    <3>1. i \in 1 .. n + Len(row) => Len(row) = m + 1 /\ i = n + m + 1
      BY <1>5, <2>3
    <3> QED
      BY <1>10, <1>12, <1>13, <2>3, <3>1
  <2> QED
    BY <2>1, <2>2, <2>3
<1> QED
  BY <1>5, <1>7, <1>8, <1>12, <1>14

LEMMA NextPrinted ==
    TypeOK /\ BytesInPlace /\ PrintedInOrder /\ [Next]_vars => PrintedInOrder'
<1> SUFFICES ASSUME TypeOK, BytesInPlace, PrintedInOrder, [Next]_vars, role' = "log"
             PROVE  PrintedInOrder'
  BY DEF PrintedInOrder
<1>1. role = "log" /\ UNCHANGED role
  BY DEF Next, Publish, Close, Reader, ReadSome, HandleLine, Handled, PrintRow, EndOfFile,
         Terminating, vars, world
<1>2. ASSUME UNCHANGED printed, Consumed' = Consumed PROVE PrintedInOrder'
  BY <1>1, <1>2 DEF PrintedInOrder, Genuine, Offset
<1>3. CASE Publish
  BY <1>2, <1>3, PublishStep
<1>4. CASE ReadSome
  BY <1>2, <1>4, ReadStep
<1>5. CASE HandleLine
  BY <1>1, <1>5 DEF HandleLine
<1>6. CASE EndOfFile
  <2>1. UNCHANGED <<sent, wire, printed>> /\ buf' = <<>> /\ wire = <<>> /\ ~Complete(buf)
    BY <1>6 DEF EndOfFile
  <2>2. Len(buf) = 0 /\ Consumed' = Consumed + Len(buf)
    BY <2>1, NothingCutOff, TakeStep
  <2>3. Consumed \in Int
    BY Bufs
  <2> QED
    BY <1>2, <2>1, <2>2, <2>3
<1>7. CASE PrintRow
  <2> DEFINE n == Len(printed)
             m == Len(buf)
  <2>1. /\ n \in Nat /\ m \in Nat
        /\ \A i \in 1 .. n : printed'[i] = printed[i]
        /\ \A i \in n + 1 .. n + m : printed'[i] = buf[i - n]
        /\ Genuine \subseteq 1 .. n
        /\ Genuine' = Genuine \cup (n + 1 .. n + m)
    BY <1>7, PrintStep
  <2>2. Consumed' = Consumed + m /\ Consumed \in Nat
    BY <1>7, TakeStep DEF PrintRow, BytesInPlace
  <2>3. /\ Cardinality(Genuine) = Consumed
        /\ \A i \in Genuine : Offset(printed[i]) = Cardinality({j \in Genuine : j <= i})
    BY <1>1 DEF PrintedInOrder
  <2> HIDE DEF n, m
  <2>4. \A k \in Nat : Cardinality(Genuine \cup (n + 1 .. n + k)) = Consumed + k
    BY <2>1, <2>3, CountMore
  <2>5. ASSUME NEW i \in Genuine
        PROVE  Offset(printed'[i]) = Cardinality({j \in Genuine' : j <= i})
    <3>1. i \in 1 .. n /\ printed'[i] = printed[i]
      BY <2>1
    <3>2. {j \in Genuine' : j <= i} = {j \in Genuine : j <= i}
      BY <2>1, <3>1
    <3> QED
      BY <2>3, <3>1, <3>2
  <2>6. ASSUME NEW i \in n + 1 .. n + m
        PROVE  Offset(printed'[i]) = Cardinality({j \in Genuine' : j <= i})
    <3>1. i - n \in 1 .. m /\ i - n \in Nat /\ n + (i - n) = i
      BY <2>1
    <3>2. {j \in Genuine' : j <= i} = Genuine \cup (n + 1 .. n + (i - n))
      <4>1. i \in Int /\ n < i /\ i <= n + m /\ n + (i - n) = i
        BY <2>1
      <4>2. \A j \in Genuine : j \in Int /\ j <= n
        BY <2>1
      <4>3. \A j \in n + 1 .. n + m : j <= i <=> j \in n + 1 .. i
        BY <2>1, <4>1
      <4>4. \A j \in n + 1 .. i : j \in n + 1 .. n + m
        BY <2>1, <4>1
      <4>5. \A j \in Genuine : j <= i
        BY <2>1, <4>1, <4>2
      <4> QED
        BY <2>1, <4>1, <4>3, <4>4, <4>5
    <3>3. Offset(printed'[i]) = Consumed + (i - n)
      BY <2>1, <3>1 DEF BytesInPlace, m
    <3> QED
      BY <2>4, <3>1, <3>2, <3>3
  <2>7. Cardinality(Genuine') = Consumed'
    BY <2>1, <2>2, <2>4
  <2> QED
    BY <2>1, <2>5, <2>6, <2>7 DEF PrintedInOrder, Offset
<1>8. CASE Close \/ Handled \/ UNCHANGED vars
  <2>1. UNCHANGED <<sent, buf, wire, printed>>
    BY <1>8 DEF Close, Handled, vars
  <2>2. Consumed' = Consumed
    BY <2>1 DEF Consumed
  <2> QED
    BY <1>2, <2>1, <2>2
<1> QED
  BY <1>3, <1>4, <1>5, <1>6, <1>7, <1>8 DEF Next, Reader, Terminating

LEMMA PlaceAlways == Spec => [](TypeOK /\ BytesInPlace)
BY InitType, NextType, InitPlace, NextPlace, PTL DEF Spec

LEMMA InOrderMeansNothingLost == TypeOK /\ BytesInPlace /\ PrintedInOrder => LogLosesNothing
<1> SUFFICES ASSUME TypeOK, BytesInPlace, PrintedInOrder, role = "log" PROVE LogLosesNothing
  BY DEF LogLosesNothing
<1> DEFINE Now == BytesOf(1 .. sent)
<1>1. buf \in Seq(Now) /\ wire \in Seq(Now)
  BY DEF TypeOK
<1> HIDE DEF Now
<1>2. /\ Len(buf \o wire) = Len(buf) + Len(wire)
      /\ \A i \in 1 .. Len(buf) + Len(wire) :
            (buf \o wire)[i] = IF i <= Len(buf) THEN buf[i] ELSE wire[i - Len(buf)]
  BY <1>1, ConcatProperties
<1>3. /\ Len(buf) \in Nat /\ Len(wire) \in Nat /\ Consumed \in Nat
      /\ Cardinality(Genuine) = Consumed
      /\ Consumed + Len(buf) + Len(wire) = sent * LineLength
  BY Bufs DEF BytesInPlace, PrintedInOrder, Consumed
<1>4. ASSUME NEW i \in 1 .. Len(buf \o wire)
      PROVE  Offset((buf \o wire)[i]) = Consumed + i
  <2>1. CASE i <= Len(buf)
    BY <1>2, <1>3, <2>1 DEF BytesInPlace
  <2>2. CASE i > Len(buf)
    <3>1. (buf \o wire)[i] = wire[i - Len(buf)] /\ i - Len(buf) \in 1 .. Len(wire)
      BY <1>2, <1>3, <2>2
    <3>2. Offset(wire[i - Len(buf)]) = Consumed + Len(buf) + (i - Len(buf))
      BY <3>1 DEF BytesInPlace
    <3> QED
      BY <1>3, <3>1, <3>2
  <2> QED
    BY <1>2, <1>3, <2>1, <2>2
<1>5. Cardinality(Genuine) + Len(buf \o wire) = sent * LineLength
  BY <1>2, <1>3
<1> QED
  BY <1>3, <1>4, <1>5 DEF LogLosesNothing, PrintedInOrder

\* A log prints every byte sent to it once and in order, for lines of any length and
\* reads of any size: also when the last bytes come with the end of the file.
THEOREM LogIsComplete == Spec => []LogLosesNothing
BY PlaceAlways, InitPrinted, NextPrinted, InOrderMeansNothingLost, PTL DEF Spec

-----------------------------------------------------------------------------
(* The lines a connector hands over.                                       *)

\* The last line handed over lies before what is in the buffer; of a writer that
\* sleeps long enough it is the last one sent, or the one before while that one is
\* under way.
HandledInOrder ==
    /\ role = "log" => ~paced
    /\ Intact # {} => Max(Intact) \in Intact
    /\ LastIntact \in 0 .. sent
    /\ LastIntact * LineLength <= Consumed
    /\ paced => \/ Len(buf) + Len(wire) = 0 /\ LastIntact = sent
                \/ Len(buf) + Len(wire) = LineLength /\ LastIntact = sent - 1

\* The last line handed over that was whole.
LEMMA LastAfter ==
    ASSUME NEW S, handled \in Seq(S), NEW line \in S, handled' = Append(handled, line),
           Intact # {} => Max(Intact) \in Intact
    PROVE  /\ Intact' # {} => Max(Intact') \in Intact'
           /\ LastIntact' = IF line = Misread THEN LastIntact ELSE line
<1> DEFINE n == Len(handled)
<1>1. /\ n \in Nat /\ DOMAIN handled = 1 .. n /\ DOMAIN handled' = 1 .. n + 1
      /\ \A i \in 1 .. n : handled'[i] = handled[i]
      /\ handled'[n + 1] = line
  OBVIOUS
<1> HIDE DEF n
<1>2. Intact = {i \in 1 .. n : handled[i] # Misread}
      /\ Intact' = {i \in 1 .. n + 1 : handled'[i] # Misread}
  BY <1>1 DEF Intact
<1>3. CASE line = Misread
  <2>1. Intact' = Intact
    BY <1>1, <1>2, <1>3
  <2>2. Intact # {} => handled'[Max(Intact)] = handled[Max(Intact)]
    BY <1>1, <1>2
  <2> QED
    BY <1>3, <2>1, <2>2 DEF LastIntact
<1>4. CASE line # Misread
  <2>1. n + 1 \in Intact' /\ \A i \in Intact' : i \in Int /\ i <= n + 1
    BY <1>1, <1>2, <1>4
  <2>2. Max(Intact') = n + 1
    <3> DEFINE P(x) == x \in Intact' /\ \A y \in Intact' : x >= y
    <3>1. P(n + 1)
      BY <1>1, <2>1
    <3>2. \A x : P(x) => x = n + 1
      BY <1>1, <2>1
    <3>3. Max(Intact') = CHOOSE x : P(x)
      BY DEF Max
    <3> HIDE DEF P
    <3> QED
      BY <3>1, <3>2, <3>3
  <2>3. Intact' # {}
    BY <2>1
  <2>4. LastIntact' = handled'[n + 1]
    BY <2>2, <2>3 DEF LastIntact
  <2> QED
    BY <1>1, <1>4, <2>1, <2>2, <2>4
<1> QED
  BY <1>3, <1>4

\* A first line that is whole begins where the last buffer ended, and fits.
LEMMA WholeLine ==
    ASSUME TypeOK, BytesInPlace, Complete(buf), FirstLine(buf) # Misread
    PROVE  /\ FirstLine(buf) \in 1 .. sent
           /\ (FirstLine(buf) - 1) * LineLength = Consumed
           /\ Len(buf) >= LineLength
<1> DEFINE line == buf[1].line
<1>0. LineLength \in Nat /\ LineLength > 0 /\ sent \in Nat /\ Consumed \in Nat
      /\ Len(buf) \in Nat /\ DOMAIN buf = 1 .. Len(buf)
  BY Bufs, Sizes DEF BytesInPlace
<1>1. PICK i \in 1 .. Len(buf) : buf[i].at = LineLength
  BY <1>0 DEF Complete, Newline
<1>2. 1 \in 1 .. Len(buf)
  BY <1>0, <1>1
<1>3. buf[1].at = 1 /\ FirstLine(buf) = line
  BY DEF FirstLine
<1>4. line \in 1 .. sent /\ buf[i].line \in 1 .. sent
  BY <1>1, <1>2, Bufs
<1>5. (line - 1) * LineLength + 1 = Consumed + 1
  BY <1>2, <1>3 DEF BytesInPlace, Offset
<1>6. (line - 1) * LineLength = Consumed
  <2>1. (line - 1) * LineLength \in Int
    BY <1>0, <1>4
  <2> QED
    BY <1>0, <1>5, <2>1
<1>7. (buf[i].line - 1) * LineLength + LineLength = Consumed + i
  BY <1>1 DEF BytesInPlace, Offset
<1>8. i >= LineLength
  <2> SUFFICES ASSUME i < LineLength PROVE FALSE
    BY <1>0, <1>1
  <2>1. buf[i].line - 1 \in Int /\ line - 1 \in Int /\ i \in 1 .. LineLength
        /\ LineLength \in 1 .. LineLength
    BY <1>0, <1>1, <1>4
  <2>2. (buf[i].line - 1) * LineLength + LineLength = (line - 1) * LineLength + i
    BY <1>6, <1>7
  <2> QED
    BY <1>0, <1>1, <2>1, <2>2, PlaceOfByte
<1> QED
  BY <1>0, <1>1, <1>3, <1>4, <1>6, <1>8

\* When one line is under way, a buffer with a newline holds all of it.
LEMMA OnlyLine ==
    ASSUME TypeOK, BytesInPlace, Complete(buf), Len(buf) + Len(wire) = LineLength
    PROVE  FirstLine(buf) = sent /\ sent >= 1 /\ Len(wire) = 0
<1>0. LineLength \in Nat /\ LineLength > 0 /\ sent \in Nat /\ sent * LineLength \in Nat
      /\ Len(buf) \in Nat /\ DOMAIN buf = 1 .. Len(buf) /\ Len(wire) \in Nat
  BY Bufs, Sizes
<1>1. PICK i \in 1 .. Len(buf) : buf[i].at = LineLength
  BY <1>0 DEF Complete, Newline
<1>2. Consumed = (sent - 1) * LineLength
  BY <1>0 DEF Consumed
<1>3. /\ 1 \in 1 .. Len(buf) /\ 1 \in 1 .. LineLength /\ LineLength \in 1 .. LineLength
      /\ i \in 1 .. LineLength
  BY <1>0, <1>1
<1>4. /\ buf[1].line \in 1 .. sent /\ buf[1].at \in 1 .. LineLength
      /\ buf[i].line \in 1 .. sent
  BY <1>1, <1>3, Bufs
<1>5. /\ (buf[1].line - 1) * LineLength + buf[1].at = (sent - 1) * LineLength + 1
      /\ (buf[i].line - 1) * LineLength + LineLength = (sent - 1) * LineLength + i
  BY <1>1, <1>2, <1>3 DEF BytesInPlace, Offset
<1>6. buf[1].line - 1 \in Int /\ buf[i].line - 1 \in Int /\ sent - 1 \in Int
  BY <1>0, <1>4
<1>7. PICK a \in Int, b \in Int, c \in Int, at \in 1 .. LineLength, one \in 1 .. LineLength :
         /\ a = buf[1].line - 1 /\ b = buf[i].line - 1 /\ c = sent - 1
         /\ at = buf[1].at /\ one = 1
  BY <1>3, <1>4, <1>6
<1>8. a * LineLength + at = c * LineLength + one
      /\ b * LineLength + LineLength = c * LineLength + i
  BY <1>5, <1>7
<1>9. a = c /\ at = one
  BY <1>8, PlaceOfByte
<1>10. i = LineLength
  BY <1>3, <1>8, PlaceOfByte
<1>11. buf[1].line = sent /\ sent >= 1 /\ buf[1].at = 1
  <2>1. buf[1].line \in Int /\ sent \in Int /\ 1 <= buf[1].line
    BY <1>0, <1>4
  <2>2. buf[1].line - 1 = sent - 1
    BY <1>7, <1>9
  <2> QED
    BY <1>7, <1>9, <2>1, <2>2
<1> QED
  BY <1>0, <1>1, <1>10, <1>11 DEF FirstLine

LEMMA InitHandled == Init => HandledInOrder
<1> SUFFICES ASSUME Init PROVE HandledInOrder
  OBVIOUS
<1>1. sent = 0 /\ buf = <<>> /\ wire = <<>> /\ handled = <<>>
  BY DEF Init
<1>2. Consumed = 0
  BY <1>1, Sizes DEF Consumed
<1>3. Intact = {} /\ LastIntact = 0
  BY <1>1 DEF Intact, LastIntact
<1>4. role = "log" => ~paced
  <2>1. paced \in IF role = "log" THEN {FALSE} ELSE BOOLEAN
    BY DEF Init
  <2> QED
    BY <2>1
<1> QED
  BY <1>1, <1>2, <1>3, <1>4, Sizes DEF HandledInOrder

LEMMA NextHandled ==
    TypeOK /\ BytesInPlace /\ HandledInOrder /\ [Next]_vars => HandledInOrder'
<1> SUFFICES ASSUME TypeOK, BytesInPlace, HandledInOrder, [Next]_vars PROVE HandledInOrder'
  OBVIOUS
<1>0. /\ LineLength \in Nat /\ LineLength > 0 /\ sent \in Nat /\ sent * LineLength \in Nat
      /\ Len(buf) \in Nat /\ Len(wire) \in Nat /\ Consumed \in Nat
      /\ handled \in Seq(0 .. sent)
      /\ LastIntact \in 0 .. sent /\ LastIntact * LineLength \in Nat
      /\ LastIntact * LineLength <= Consumed
  BY Bufs, Sizes DEF BytesInPlace, HandledInOrder, TypeOK
\* Steps that hand nothing over keep the last line.
<1>1. ASSUME UNCHANGED handled
      PROVE  LastIntact' = LastIntact /\ Intact' = Intact
  BY <1>1 DEF LastIntact, Intact
<1>2. CASE Publish
  <2>1. /\ Len(wire') = Len(wire) + LineLength /\ sent' = sent + 1
        /\ UNCHANGED <<buf, handled, role, paced>> /\ Consumed' = Consumed
    BY <1>2, PublishStep
  <2>2. paced => Len(buf) + Len(wire) = 0
    BY <1>2 DEF Publish
  <2>3. paced => LastIntact = sent
    BY <1>0, <2>2 DEF HandledInOrder
  <2>4. LastIntact' = LastIntact /\ Intact' = Intact
    BY <1>1, <2>1
  <2>5. LastIntact' \in 0 .. sent'
    BY <1>0, <2>1, <2>4
  <2>6. paced' => Len(buf') + Len(wire') = LineLength /\ LastIntact' = sent' - 1
    BY <1>0, <2>1, <2>2, <2>3, <2>4
  <2> QED
    BY <1>0, <2>1, <2>4, <2>5, <2>6 DEF HandledInOrder
<1>3. CASE ReadSome
  <2>1. PICK n \in 1 .. Len(wire) :
           /\ Len(buf') = Len(buf) + n /\ Len(wire') = Len(wire) - n
           /\ UNCHANGED <<sent, handled, role, paced>> /\ Consumed' = Consumed
    BY <1>3, ReadStep
  <2>2. Len(buf') + Len(wire') = Len(buf) + Len(wire)
    BY <1>0, <2>1
  <2> QED
    BY <1>1, <2>1, <2>2 DEF HandledInOrder
<1>4. CASE HandleLine
  <2> DEFINE line == FirstLine(buf)
  <2>1. /\ role = "connector" /\ Complete(buf) /\ buf' = <<>>
        /\ UNCHANGED <<role, paced, sent, wire>>
        /\ \/ handled' = Append(handled, line)
           \/ line = Misread /\ handled' = handled
    BY <1>4 DEF HandleLine, world
  <2>2. line \in 0 .. sent
    <3>1. buf \in Seq(BytesOf(1 .. sent)) /\ 1 .. sent \in SUBSET Nat
      BY <1>0 DEF TypeOK
    <3>2. line \in 1 .. sent \cup {0}
      BY <2>1, <3>1, CompleteHasFirst
    <3> QED
      BY <1>0, <3>2
  <2>3. /\ Intact' # {} => Max(Intact') \in Intact'
        /\ LastIntact' = IF line = Misread THEN LastIntact ELSE line
    <3>1. CASE handled' = Append(handled, line)
      BY <1>0, <2>2, <3>1, LastAfter DEF HandledInOrder
    <3>2. CASE line = Misread /\ handled' = handled
      BY <1>1, <3>2 DEF HandledInOrder
    <3> QED
      BY <2>1, <3>1, <3>2
  <2>4. Consumed' = Consumed + Len(buf) /\ Len(buf') = 0
    BY <2>1, TakeStep
  <2>5. LastIntact' \in 0 .. sent' /\ LastIntact' * LineLength <= Consumed'
    <3>1. CASE line = Misread
      BY <1>0, <2>1, <2>3, <2>4, <3>1
    <3>2. CASE line # Misread
      <4>1. /\ line \in 1 .. sent /\ (line - 1) * LineLength = Consumed
            /\ Len(buf) >= LineLength
        BY <2>1, <3>2, WholeLine
      <4>2. line * LineLength = Consumed + LineLength
        <5>1. PICK l \in 1 .. sent : l = line
          BY <4>1
        <5>2. l \in Int /\ (l - 1) * LineLength = Consumed
          BY <1>0, <4>1, <5>1
        <5>3. l * LineLength = Consumed + LineLength
          BY <1>0, <5>2, OneLess
        <5> QED
          BY <5>1, <5>3
      <4>3. LastIntact' = line /\ sent' = sent
        BY <2>1, <2>3, <3>2
      <4>4. line * LineLength <= Consumed'
        BY <1>0, <2>4, <4>1, <4>2
      <4> QED
        BY <2>2, <4>3, <4>4
    <3> QED
      BY <3>1, <3>2
  <2>6. paced' => Len(buf') + Len(wire') = 0 /\ LastIntact' = sent'
    <3>1. SUFFICES ASSUME paced PROVE Len(buf') + Len(wire') = 0 /\ LastIntact' = sent'
      BY <2>1
    <3>2. Len(buf) # 0
      BY <1>0, <2>1, Bufs DEF Complete
    <3>3. Len(buf) + Len(wire) = LineLength
      BY <1>0, <3>1, <3>2 DEF HandledInOrder
    <3>4. line = sent /\ sent >= 1 /\ Len(wire) = 0
      BY <2>1, <3>3, OnlyLine
    <3>5. line # Misread
      BY <1>0, <3>4 DEF Misread
    <3> QED
      BY <2>1, <2>3, <2>4, <3>4, <3>5
  <2> QED
    BY <2>1, <2>3, <2>5, <2>6 DEF HandledInOrder
<1>5. CASE PrintRow
  <2>1. /\ role = "log" /\ buf' = <<>> /\ UNCHANGED <<role, paced, sent, wire, handled>>
    BY <1>5 DEF PrintRow, world
  <2>2. Consumed' = Consumed + Len(buf)
    BY <2>1, TakeStep
  <2>3. LastIntact' = LastIntact /\ Intact' = Intact /\ ~paced
    BY <1>1, <2>1 DEF HandledInOrder
  <2>4. LastIntact' * LineLength <= Consumed'
    BY <1>0, <2>2, <2>3
  <2> QED
    BY <2>1, <2>3, <2>4 DEF HandledInOrder
<1>6. CASE EndOfFile
  <2>1. /\ UNCHANGED <<role, paced, sent, wire, handled>> /\ buf' = <<>>
        /\ wire = <<>> /\ ~Complete(buf)
    BY <1>6 DEF EndOfFile, world
  <2>2. Len(buf) = 0 /\ Len(buf') = 0 /\ Consumed' = Consumed + Len(buf)
    BY <2>1, NothingCutOff, TakeStep
  <2>3. Consumed' = Consumed /\ Len(buf') + Len(wire') = Len(buf) + Len(wire)
    BY <1>0, <2>1, <2>2
  <2> QED
    BY <1>1, <2>1, <2>3 DEF HandledInOrder
<1>7. CASE Close \/ Handled \/ UNCHANGED vars
  <2>1. UNCHANGED <<role, paced, sent, buf, wire, handled>>
    BY <1>7 DEF Close, Handled, vars, world
  <2>2. Consumed' = Consumed
    BY <2>1 DEF Consumed
  <2> QED
    BY <1>1, <2>1, <2>2 DEF HandledInOrder
<1> QED
  BY <1>2, <1>3, <1>4, <1>5, <1>6, <1>7 DEF Next, Reader, Terminating

LEMMA HandledAlways == Spec => [](TypeOK /\ BytesInPlace /\ HandledInOrder)
BY PlaceAlways, InitHandled, NextHandled, PTL DEF Spec

LEMMA ChannelStep ==
    TypeOK /\ BytesInPlace /\ HandledInOrder /\ [Next]_vars => [Channel!Next]_(Channel!vars)
<1> SUFFICES ASSUME TypeOK, BytesInPlace, HandledInOrder, [Next]_vars
             PROVE  [Channel!Next]_(Channel!vars)
  OBVIOUS
<1>1. ASSUME UNCHANGED handled PROVE LastIntact' = LastIntact
  BY <1>1 DEF LastIntact, Intact
<1>2. CASE Publish
  <2>1. sent' = sent + 1 /\ UNCHANGED <<handled, paced>>
    BY <1>2, PublishStep
  <2> QED
    BY <1>1, <2>1 DEF Channel!Next, Channel!Send
<1>3. CASE HandleLine
  <2> DEFINE line == FirstLine(buf)
  <2>1. /\ Complete(buf) /\ UNCHANGED <<paced, sent>>
        /\ \/ handled' = Append(handled, line)
           \/ line = Misread /\ handled' = handled
    BY <1>3 DEF HandleLine, world
  <2>2. CASE handled' = handled
    BY <1>1, <2>1, <2>2 DEF Channel!vars
  <2>3. CASE handled' = Append(handled, line)
    <3>0. /\ sent \in Nat /\ LineLength \in Nat /\ LineLength > 0 /\ Consumed \in Nat
          /\ handled \in Seq(0 .. sent) /\ paced \in BOOLEAN /\ LastIntact \in 0 .. sent
          /\ LastIntact * LineLength <= Consumed /\ LastIntact * LineLength \in Nat
          /\ Len(buf) \in Nat /\ Len(wire) \in Nat
      BY Bufs, Sizes DEF TypeOK, BytesInPlace, HandledInOrder
    <3>1. line \in 0 .. sent
      <4>1. buf \in Seq(BytesOf(1 .. sent)) /\ 1 .. sent \in SUBSET Nat
        BY <3>0 DEF TypeOK
      <4>2. line \in 1 .. sent \cup {0}
        BY <2>1, <4>1, CompleteHasFirst
      <4> QED
        BY <3>0, <4>2
    <3>2. LastIntact' = IF line = Misread THEN LastIntact ELSE line
      BY <2>3, <3>0, <3>1, LastAfter DEF HandledInOrder
    <3>3. CASE paced
      <4>1. Len(buf) # 0
        BY <2>1, <3>0, Bufs DEF Complete
      <4>2. Len(buf) + Len(wire) = LineLength /\ LastIntact = sent - 1
        BY <3>0, <3>3, <4>1 DEF HandledInOrder
      <4>3. line = sent /\ sent >= 1
        BY <2>1, <4>2, OnlyLine
      <4>4. LastIntact' = LastIntact + 1 /\ line = LastIntact + 1 /\ LastIntact < sent
        BY <3>0, <3>2, <4>2, <4>3 DEF Misread
      <4> QED
        BY <2>1, <2>3, <3>3, <4>4 DEF Channel!Next, Channel!ReceiveNext, Channel!Hand
    <3>4. CASE ~paced /\ line = Misread
      BY <2>1, <2>3, <3>2, <3>4 DEF Channel!Next, Channel!ReceiveGarbage
    <3>5. CASE ~paced /\ line # Misread
      <4>1. line \in 1 .. sent /\ (line - 1) * LineLength = Consumed
        BY <2>1, <3>5, WholeLine
      <4>2. ~(line - 1 < LastIntact)
        <5>1. line - 1 \in Int /\ LastIntact \in Int
          BY <3>0, <4>1
        <5>2. line - 1 < LastIntact => Consumed + LineLength <= LastIntact * LineLength
          BY <4>1, <5>1, Products
        <5> QED
          BY <3>0, <5>2
      <4>3. line \in LastIntact + 1 .. sent
        BY <3>0, <4>1, <4>2
      <4>4. LastIntact' = line
        BY <3>2, <3>5
      <4> QED
        BY <2>1, <2>3, <3>5, <4>3, <4>4 DEF Channel!Next, Channel!ReceiveLater, Channel!Hand
    <3> QED
      BY <3>0, <3>3, <3>4, <3>5
  <2> QED
    BY <2>1, <2>2, <2>3
<1>4. CASE Close \/ ReadSome \/ Handled \/ PrintRow \/ EndOfFile \/ UNCHANGED vars
  <2>1. UNCHANGED <<paced, sent, handled>>
    BY <1>4 DEF Close, ReadSome, Handled, PrintRow, EndOfFile, vars, world
  <2> QED
    BY <1>1, <2>1 DEF Channel!vars
<1> QED
  BY <1>2, <1>3, <1>4 DEF Next, Reader, Terminating

\* A connector hands over every line once and in order of a provider that sleeps long
\* enough; of any other it may skip lines, or take the tail of one for a line, but it
\* repeats none and hands none over late: for lines of any length and reads of any size.
THEOREM ChannelOrdered == Spec => Channel!Ordered
<1>1. Init => Channel!Init
  <2> SUFFICES ASSUME Init PROVE Channel!Init
    OBVIOUS
  <2>1. sent = 0 /\ handled = <<>> /\ paced \in BOOLEAN
    BY InitType DEF Init, TypeOK
  <2>2. LastIntact = 0
    BY <2>1 DEF LastIntact, Intact
  <2> QED
    BY <2>1, <2>2 DEF Channel!Init
<1> QED
  BY <1>1, HandledAlways, ChannelStep, PTL DEF Spec, Channel!Ordered
=============================================================================
