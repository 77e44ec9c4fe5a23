------------------------- MODULE BondInquiry_proofs -------------------------
(***************************************************************************)
(* Theorems about BondInquiry, for any inquiries and any prices.           *)
(***************************************************************************)
EXTENDS BondInquiry, SequenceTheorems, WellFoundedInduction, TLAPS

Frame == [inquiry : FileLines, switched : States, next : 1 .. 3]

LEMMA ListenersAre == Len(Listeners) = 2 /\ Listeners[1] = "history" /\ Listeners[2] = "self"
BY DEF Listeners

-----------------------------------------------------------------------------
(* The inductive invariant, in named parts.                                *)

Handled == {"RECEIVED", "QUOTED", "DONE"}

\* A call switched on the state its inquiry has, unless it has just finished it;
\* the calls below the innermost are waiting for it, in their last listener.
Calls ==
    \A i \in 1 .. Len(stack) :
        /\ stack[i].switched \in Handled
        /\ \/ stack[i].inquiry.state = stack[i].switched
           \/ /\ stack[i].switched = "QUOTED" /\ stack[i].inquiry.state = "DONE"
              /\ stack[i].next = 3
        /\ i < Len(stack) => stack[i].next = 3
        /\ \A row \in feed : stack[i].inquiry.id # row.id

\* What SendQuote copies from the map is the inquiry it was called about.
Stored ==
    \A i \in 1 .. Len(stack) : stack[i].switched = "RECEIVED" =>
        /\ ExistingData(inquiryMap, stack[i].inquiry.id)
        /\ inquiryMap[stack[i].inquiry.id] = stack[i].inquiry

\* Nothing is known of an inquiry that has not been read.
Fresh ==
    \A row \in feed : row.id \notin DOMAIN inquiryMap /\ \A i \in DOMAIN file : file[i].id # row.id

Line(inquiry) == [state |-> inquiry.state, terms |-> inquiry.terms, price |-> inquiry.price]

\* The file when an inquiry is about to be written: the stage before.
Before(inquiry) ==
    IF Len(stack) = 1 THEN [state |-> "NONE"]
    ELSE IF inquiry.state = "QUOTED"
    THEN [state |-> "RECEIVED", terms |-> inquiry.terms, price |-> Unquoted]
    ELSE [state |-> "QUOTED", terms |-> inquiry.terms, price |-> inquiry.price]

\* The file is one line behind the innermost call, or up with it.
FileFollows ==
    stack # <<>> =>
        /\ Top.next = 1 => LastLine(Top.inquiry.id) = Before(Top.inquiry)
        /\ Top.next = 2 => LastLine(Top.inquiry.id) = Line(Top.inquiry)
        /\ Len(stack) = 1 /\ Top.next < 3 => Top.inquiry.price = Unquoted
        /\ Len(stack) > 1 /\ Top.next = 1 /\ Top.inquiry.state = "QUOTED" =>
              Top.inquiry.price = QuotedPrice
        /\ Top.switched = "RECEIVED" => Len(stack) = 1

IInv == TypeOK /\ Calls /\ Stored /\ Fresh /\ FileFollows /\ ReentryAdvances

-----------------------------------------------------------------------------
(* The operators.                                                          *)

LEMMA ProcessDataType ==
    ASSUME NEW row \in Inquiries
    PROVE  /\ ProcessData(row) \in FileLines
           /\ ProcessData(row).id = row.id /\ ProcessData(row).price = Unquoted
BY DEF ProcessData, FileLines, Ids, Terms, string2inquiry, States

LEMMA QuoteType ==
    ASSUME NEW inquiry \in FileLines
    PROVE  /\ Quote(inquiry) \in FileLines
           /\ Quote(inquiry) = [inquiry EXCEPT !.state = "QUOTED", !.price = QuotedPrice]
BY DEF Quote, FileLines, States

\* A set of indices has a largest.
LEMMA LargestIndex ==
    ASSUME NEW n \in Nat, NEW S \in SUBSET (1 .. n), S # {}
    PROVE  Max(S) \in S /\ \A i \in S : i <= Max(S)
<1> DEFINE gaps == {n - i : i \in S}
<1>1. gaps \subseteq Nat /\ gaps # {}
  OBVIOUS
<1>2. PICK g \in gaps : \A h \in gaps : ~(<<h, g>> \in OpToRel(<, Nat))
  <2> HIDE DEF gaps
  <2> QED
    BY <1>1, NatLessThanWellFounded, WFMin
<1>3. \A h \in gaps : ~(h < g)
  <2> HIDE DEF gaps
  <2> QED
    BY <1>1, <1>2 DEF OpToRel
<1>4. PICK m \in S : g = n - m
  BY <1>2
<1>5. ASSUME NEW i \in S PROVE m >= i
  <2>1. n - i \in gaps /\ n - i \in Nat /\ n - m \in Nat
    BY <1>4
  <2>2. ~(n - i < n - m)
    <3> HIDE DEF gaps
    <3> QED
      BY <1>3, <1>4, <2>1
  <2> QED
    BY <1>4, <2>1, <2>2
<1>6. \E x \in S : \A y \in S : x >= y
  BY <1>5
<1> QED
  BY <1>6 DEF Max

\* A line added is the last of its inquiry, and of no other.
LEMMA LineAdded ==
    ASSUME file \in Seq(FileLines), NEW inquiry \in FileLines, file' = Append(file, inquiry),
           NEW id
    PROVE  LastLine(id)' = IF id = inquiry.id THEN Line(inquiry) ELSE LastLine(id)
<1> DEFINE lines == {i \in DOMAIN file : file[i].id = id}
           after == {i \in DOMAIN file' : file'[i].id = id}
<1>1. /\ DOMAIN file' = 1 .. Len(file) + 1 /\ DOMAIN file = 1 .. Len(file) /\ Len(file) \in Nat
      /\ file'[Len(file) + 1] = inquiry /\ \A i \in 1 .. Len(file) : file'[i] = file[i]
  OBVIOUS
<1>2. CASE id = inquiry.id
  <2>1. after \in SUBSET (1 .. Len(file) + 1) /\ Len(file) + 1 \in after
    BY <1>1, <1>2
  <2>2. Max(after) = Len(file) + 1
    <3>1. Len(file) + 1 \in Nat /\ after # {}
      BY <1>1, <2>1
    <3>2. Max(after) \in after /\ \A i \in after : i <= Max(after)
      <4> HIDE DEF after
      <4> QED
        BY <2>1, <3>1, LargestIndex
    <3>3. Max(after) \in 1 .. Len(file) + 1 /\ Len(file) + 1 <= Max(after)
      <4> HIDE DEF after
      <4> QED
        BY <2>1, <3>2
    <3> HIDE DEF after
    <3> QED
      BY <1>1, <3>1, <3>3
  <2> QED
    BY <1>1, <1>2, <2>1, <2>2 DEF LastLine, Line
<1>3. CASE id # inquiry.id
  <2>1. after = lines
    BY <1>1, <1>3
  <2>2. CASE lines = {}
    BY <2>1, <2>2 DEF LastLine
  <2>3. CASE lines # {}
    <3>1. Max(lines) \in lines
      <4>1. lines \in SUBSET (1 .. Len(file))
        BY <1>1
      <4> HIDE DEF lines
      <4> QED
        BY <1>1, <2>3, <4>1, LargestIndex
    <3>2. file'[Max(lines)] = file[Max(lines)]
      BY <1>1, <3>1
    <3> QED
      BY <1>3, <2>1, <2>3, <3>2 DEF LastLine
  <2> QED
    BY <2>2, <2>3
<1> QED
  BY <1>2, <1>3

-----------------------------------------------------------------------------
(* Each action.                                                            *)

LEMMA ReadKeeps ==
    ASSUME IInv, ReadInquiry
    PROVE  IInv'
<1> USE ListenersAre
<1>1. PICK row \in feed : feed' = feed \ {row} /\ Enter(<<>>, ProcessData(row))
  BY DEF ReadInquiry
<1> DEFINE inquiry == ProcessData(row)
<1>2. row \in Inquiries /\ inquiry \in FileLines /\ inquiry.id = row.id /\ inquiry.price = Unquoted
  BY ProcessDataType DEF IInv, TypeOK
<1> HIDE DEF inquiry
<1>3. /\ UNCHANGED <<file, stopped>> /\ stack = <<>>
      /\ inquiryMap' = IF inquiry.state = "RECEIVED"
                       THEN AddData(inquiryMap, inquiry.id, inquiry) ELSE inquiryMap
      /\ \/ stack' = <<>>
         \/ /\ stack' = <<[inquiry |-> inquiry, switched |-> inquiry.state, next |-> 1]>>
            /\ inquiry.state \in Handled
      /\ inquiry.state = "RECEIVED" => inquiry.state \in Handled
  BY <1>1 DEF ReadInquiry, Enter, inquiry, Handled
<1>4. inquiry.id \notin DOMAIN inquiryMap /\ \A i \in DOMAIN file : file[i].id # inquiry.id
  BY <1>2 DEF IInv, Fresh
<1>5. /\ DOMAIN inquiryMap' = IF inquiry.state = "RECEIVED" THEN DOMAIN inquiryMap \cup {inquiry.id}
                              ELSE DOMAIN inquiryMap
      /\ inquiry.state = "RECEIVED" => inquiryMap'[inquiry.id] = inquiry
      /\ \A id \in DOMAIN inquiryMap : inquiryMap'[id] = inquiryMap[id]
  BY <1>3, <1>4 DEF AddData
<1>6. \A other \in feed' : other.id # inquiry.id
  BY <1>1, <1>2, InquiriesAssumption DEF IInv, TypeOK
<1>7. TypeOK'
  <2>1. feed' \subseteq Inquiries
    BY <1>1 DEF IInv, TypeOK
  <2>2. DOMAIN inquiryMap' \subseteq Ids /\ \A id \in DOMAIN inquiryMap' : inquiryMap'[id] \in FileLines
    BY <1>2, <1>5 DEF IInv, TypeOK, Ids
  <2>3. stack' \in Seq(Frame)
    <3>1. inquiry.state \in Handled =>
            [inquiry |-> inquiry, switched |-> inquiry.state, next |-> 1] \in Frame
      BY <1>2 DEF Frame, Handled, States
    <3>2. <<>> \in Seq(Frame) /\ \A frame \in Frame : <<frame>> \in Seq(Frame)
      OBVIOUS
    <3> QED
      BY ONLY <1>3, <3>1, <3>2
  <2> QED
    BY <1>3, <2>1, <2>2, <2>3 DEF IInv, TypeOK, Frame
<1>8. Calls'
  <2>1. CASE stack' = <<>>
    BY <2>1 DEF Calls
  <2>2. CASE stack' # <<>>
    <3> DEFINE frame == [inquiry |-> inquiry, switched |-> inquiry.state, next |-> 1]
    <3>1. Len(stack') = 1 /\ stack'[1] = frame /\ inquiry.state \in Handled
      BY <1>3, <2>2
    <3>2. frame.inquiry = inquiry /\ frame.switched = inquiry.state
      OBVIOUS
    <3> HIDE DEF frame
    <3>3. 1 .. Len(stack') = {1}
      BY <3>1
    <3> QED
      BY <1>6, <3>1, <3>2, <3>3 DEF Calls
  <2> QED
    BY <2>1, <2>2
<1>9. Stored'
  BY <1>2, <1>3, <1>5 DEF Stored, ExistingData
<1>10. Fresh'
  BY <1>1, <1>3, <1>5, <1>6 DEF IInv, Fresh
<1>11. FileFollows'
  <2>1. LastLine(inquiry.id) = [state |-> "NONE"]
    BY <1>4 DEF LastLine
  <2>2. LastLine(inquiry.id)' = [state |-> "NONE"]
    BY <1>3, <2>1 DEF LastLine
  <2>3. CASE stack' = <<>>
    BY <2>3 DEF FileFollows
  <2>4. CASE stack' # <<>>
    <3>1. Len(stack') = 1 /\ Top' = [inquiry |-> inquiry, switched |-> inquiry.state, next |-> 1]
      BY <1>3, <2>4 DEF Top
    <3>2. Top'.inquiry = inquiry
      BY <3>1
    <3> QED
      BY <1>2, <2>2, <3>1, <3>2 DEF FileFollows, Before
  <2> QED
    BY <2>3, <2>4
<1>12. ReentryAdvances'
  <2>1. Len(stack') \in {0, 1}
    BY <1>3
  <2>2. \A n \in {0, 1} : \A i \in 1 .. n - 1 : FALSE
    OBVIOUS
  <2> QED
    BY <2>1, <2>2 DEF ReentryAdvances
<1> QED
  BY <1>7, <1>8, <1>9, <1>10, <1>11, <1>12 DEF IInv

\* The innermost call, before and after it has called a listener.
LEMMA TopFacts ==
    ASSUME TypeOK, stack # <<>>
    PROVE  /\ stack \in Seq(Frame) /\ Len(stack) \in Nat \ {0}
           /\ Top \in Frame /\ Top = stack[Len(stack)]
<1>1. stack \in Seq(Frame)
  BY ListenersAre DEF TypeOK, Frame
<1> QED
  BY <1>1 DEF Top

LEMMA CalledFacts ==
    ASSUME TypeOK, stack # <<>>, Top.next <= 2
    PROVE  /\ Called \in Seq(Frame) /\ Len(Called) = Len(stack)
           /\ \A i \in 1 .. Len(stack) - 1 : Called[i] = stack[i]
           /\ Called[Len(stack)].inquiry = Top.inquiry
           /\ Called[Len(stack)].switched = Top.switched
           /\ Called[Len(stack)].next = Top.next + 1
<1>1. /\ stack \in Seq(Frame) /\ Len(stack) \in Nat \ {0}
      /\ Top \in Frame /\ Top = stack[Len(stack)]
  BY TopFacts
<1> DEFINE called == [Top EXCEPT !.next = Top.next + 1]
<1>2. /\ called \in Frame /\ called.inquiry = Top.inquiry /\ called.switched = Top.switched
      /\ called.next = Top.next + 1
  BY <1>1 DEF Frame
<1>3. Called = [stack EXCEPT ![Len(stack)] = called]
  BY <1>1 DEF Called
<1> HIDE DEF called
<1> QED
  BY <1>1, <1>2, <1>3

\* A step that neither reads nor stores, and changes only the innermost calls.
LEMMA MapFrame ==
    ASSUME IInv, UNCHANGED <<feed, inquiryMap, stopped>>
    PROVE  /\ feed' \subseteq Inquiries
           /\ DOMAIN inquiryMap' \subseteq Ids
           /\ \A id \in DOMAIN inquiryMap' : inquiryMap'[id] \in FileLines
           /\ stopped' \in BOOLEAN
BY DEF IInv, TypeOK

LEMMA PersistKeeps ==
    ASSUME IInv, PersistData
    PROVE  IInv'
<1>1. /\ stack # <<>> /\ Top.next <= 2 /\ Top.next = 1
      /\ file' = Append(file, Top.inquiry) /\ stack' = Called
      /\ UNCHANGED <<feed, inquiryMap, stopped>>
  BY ListenersAre, TopFacts DEF PersistData, Calling, Frame, IInv
<1>2. /\ Len(stack) \in Nat \ {0} /\ Top \in Frame /\ Top = stack[Len(stack)]
      /\ stack' \in Seq(Frame) /\ Len(stack') = Len(stack)
      /\ \A i \in 1 .. Len(stack) - 1 : stack'[i] = stack[i]
      /\ stack'[Len(stack)].inquiry = Top.inquiry
      /\ stack'[Len(stack)].switched = Top.switched
      /\ stack'[Len(stack)].next = 2
  BY <1>1, TopFacts, CalledFacts DEF IInv
<1>3. \A i \in 1 .. Len(stack) : /\ stack'[i].inquiry = stack[i].inquiry
                                 /\ stack'[i].switched = stack[i].switched
                                 /\ i < Len(stack) => stack'[i].next = stack[i].next
  BY <1>2
<1>4. Top.inquiry \in FileLines /\ file \in Seq(FileLines) /\ file' \in Seq(FileLines)
  BY <1>1, <1>2 DEF Frame, IInv, TypeOK
<1>5. TypeOK'
  BY <1>1, <1>2, <1>4, MapFrame, ListenersAre DEF TypeOK, Frame
<1>6. Calls'
  BY <1>1, <1>2, <1>3 DEF IInv, Calls
<1>7. Stored'
  BY <1>1, <1>2, <1>3 DEF IInv, Stored
<1>8. Fresh'
  <2>1. \A row \in feed : Top.inquiry.id # row.id
    BY <1>2 DEF IInv, Calls
  <2>2. \A i \in DOMAIN file' : file'[i] = Top.inquiry \/ (i \in DOMAIN file /\ file'[i] = file[i])
    BY <1>1, <1>4
  <2> QED
    BY <1>1, <2>1, <2>2 DEF IInv, Fresh
<1>9. FileFollows'
  <2>1. PICK inquiry \in FileLines : inquiry = Top.inquiry
    BY <1>4
  <2>2. Top'.inquiry = inquiry /\ Top'.switched = Top.switched /\ Top'.next = 2
    BY <1>2, <2>1 DEF Top
  <2>3. /\ Len(stack) = 1 => inquiry.price = Unquoted
        /\ Top.switched = "RECEIVED" => Len(stack) = 1
    BY <1>1, <2>1 DEF IInv, FileFollows
  <2>4. LastLine(inquiry.id)' = Line(inquiry)
    BY <1>1, <1>4, <2>1, LineAdded
  <2>5. LastLine(Top.inquiry.id)' = LastLine(inquiry.id)'
    BY <2>2 DEF LastLine
  <2>6. LastLine(Top.inquiry.id)' = Line(Top.inquiry)'
    BY <2>2, <2>4, <2>5 DEF Line
  <2> QED
    BY <1>2, <2>2, <2>3, <2>6 DEF FileFollows
<1>10. ReentryAdvances'
  <2>1. Len(stack') = Len(stack) /\ Len(stack) \in Nat
    BY <1>1, <1>2, TopFacts DEF IInv
  <2>2. SUFFICES ASSUME NEW i \in 1 .. Len(stack) - 1
                 PROVE  /\ stack'[i + 1].inquiry.id = stack'[i].inquiry.id
                        /\ Stage[stack'[i + 1].switched] = Stage[stack'[i].switched] + 1
    BY <2>1 DEF ReentryAdvances
  <2>3. i \in 1 .. Len(stack) /\ i + 1 \in 1 .. Len(stack)
    BY <2>1, <2>2
  <2>4. /\ stack[i + 1].inquiry.id = stack[i].inquiry.id
        /\ Stage[stack[i + 1].switched] = Stage[stack[i].switched] + 1
    BY <2>2 DEF IInv, ReentryAdvances
  <2> QED
    BY <1>3, <2>3, <2>4
<1> QED
  BY <1>1, <1>5, <1>6, <1>7, <1>8, <1>9, <1>10, MapFrame DEF IInv

LEMMA IgnoreKeeps ==
    ASSUME IInv, Ignore
    PROVE  IInv'
<1>1. /\ stack # <<>> /\ Top.next = 2 /\ Top.next <= 2 /\ stack' = Called
      /\ UNCHANGED <<feed, inquiryMap, file, stopped>>
  BY ListenersAre, TopFacts DEF Ignore, Calling, Frame, IInv
<1>2. /\ Len(stack) \in Nat \ {0} /\ Top \in Frame /\ Top = stack[Len(stack)]
      /\ stack' \in Seq(Frame) /\ Len(stack') = Len(stack)
      /\ \A i \in 1 .. Len(stack) - 1 : stack'[i] = stack[i]
      /\ stack'[Len(stack)].inquiry = Top.inquiry
      /\ stack'[Len(stack)].switched = Top.switched
      /\ stack'[Len(stack)].next = 3
  BY <1>1, TopFacts, CalledFacts DEF IInv
<1>3. \A i \in 1 .. Len(stack) : /\ stack'[i].inquiry = stack[i].inquiry
                                 /\ stack'[i].switched = stack[i].switched
                                 /\ i < Len(stack) => stack'[i].next = stack[i].next
  BY <1>2
<1>4. TypeOK'
  BY <1>1, <1>2, MapFrame, ListenersAre DEF IInv, TypeOK, Frame
<1>5. Calls' /\ Stored' /\ Fresh'
  BY <1>1, <1>2, <1>3 DEF IInv, Calls, Stored, Fresh
<1>6. FileFollows'
  <2>1. Top'.switched = Top.switched /\ Top'.next = 3
    BY <1>2 DEF Top
  <2>2. Top.switched = "RECEIVED" => Len(stack) = 1
    BY <1>1 DEF IInv, FileFollows
  <2> QED
    BY <1>2, <2>1, <2>2 DEF FileFollows
<1>7. ReentryAdvances'
  BY <1>2, <1>3 DEF IInv, ReentryAdvances
<1> QED
  BY <1>1, <1>4, <1>5, <1>6, <1>7, MapFrame DEF IInv

LEMMA ReturnKeeps ==
    ASSUME IInv, Return
    PROVE  IInv'
<1>1. /\ stack # <<>> /\ stack' = Front(stack)
      /\ UNCHANGED <<feed, inquiryMap, file, stopped>>
  BY DEF Return
<1>2. /\ stack \in Seq(Frame) /\ Len(stack) \in Nat \ {0}
      /\ stack' \in Seq(Frame) /\ Len(stack') = Len(stack) - 1
      /\ \A i \in 1 .. Len(stack) - 1 : stack'[i] = stack[i]
  <2>1. stack \in Seq(Frame) /\ Len(stack) \in Nat \ {0}
    BY <1>1, TopFacts DEF IInv
  <2>2. Front(stack) = [i \in 1 .. Len(stack) - 1 |-> stack[i]] /\ Len(stack) - 1 \in Nat
    BY <2>1 DEF Front
  <2>3. Front(stack) \in [1 .. Len(stack) - 1 -> Frame]
    BY <2>1, <2>2
  <2>4. Front(stack) \in Seq(Frame)
    BY <2>2, <2>3, SeqDef
  <2> QED
    BY <1>1, <2>1, <2>2, <2>4
<1>3. TypeOK'
  BY <1>1, <1>2, MapFrame, ListenersAre DEF IInv, TypeOK, Frame
<1>4. Calls' /\ Stored' /\ Fresh'
  <2>1. \A i \in 1 .. Len(stack') :
           i \in 1 .. Len(stack) /\ i < Len(stack) /\ stack'[i] = stack[i]
    BY <1>2
  <2>2. Calls'
    BY <1>1, <2>1 DEF IInv, Calls
  <2>3. Stored'
    BY <1>1, <2>1 DEF IInv, Stored
  <2>4. Fresh'
    BY <1>1 DEF IInv, Fresh
  <2> QED
    BY <2>2, <2>3, <2>4
<1>5. FileFollows'
  <2> SUFFICES ASSUME stack' # <<>> PROVE FileFollows'
    BY DEF FileFollows
  <2>1. Len(stack') >= 1 /\ Top' = stack[Len(stack) - 1]
    BY <1>2 DEF Top
  <2>2. Top'.next = 3
    BY <1>2, <2>1 DEF IInv, Calls
  <2>3. Top'.switched = "RECEIVED" => Len(stack') = 1
    <3>1. CASE Len(stack') = 1
      BY <3>1
    <3>2. CASE Len(stack') > 1
      <4>1. /\ Stage[stack[Len(stack) - 1].switched] = Stage[stack[Len(stack) - 2].switched] + 1
            /\ stack[Len(stack) - 2].switched \in Handled
        BY <1>2, <3>2 DEF IInv, ReentryAdvances, Calls
      <4> QED
        BY <2>1, <4>1 DEF Stage, Handled
    <3> QED
      BY <1>2, <2>1, <3>1, <3>2
  <2> QED
    BY <2>2, <2>3 DEF FileFollows
<1>6. ReentryAdvances'
  <2>1. \A i \in 1 .. Len(stack') - 1 :
          i \in 1 .. Len(stack) - 1 /\ stack'[i] = stack[i] /\ stack'[i + 1] = stack[i + 1]
    BY <1>2
  <2> QED
    BY <2>1 DEF IInv, ReentryAdvances
<1> QED
  BY <1>1, <1>3, <1>4, <1>5, <1>6, MapFrame DEF IInv

\* A call from within a call: the innermost call has called its last listener, and
\* left its inquiry as it was or done; the new one has the inquiry one stage on.
LEMMA CallFacts ==
    ASSUME TypeOK, stack # <<>>, Top.next = 2, NEW inquiry \in FileLines, NEW left \in FileLines,
           inquiry.state \in {"QUOTED", "DONE"},
           Enter([Called EXCEPT ![Len(stack)].inquiry = left], inquiry)
    PROVE  /\ inquiryMap' = inquiryMap
           /\ stack' \in Seq(Frame) /\ Len(stack') = Len(stack) + 1
           /\ \A i \in 1 .. Len(stack) - 1 : stack'[i] = stack[i]
           /\ stack'[Len(stack)].inquiry = left
           /\ stack'[Len(stack)].switched = Top.switched
           /\ stack'[Len(stack)].next = 3
           /\ Top'.inquiry = inquiry /\ Top'.switched = inquiry.state /\ Top'.next = 1
           /\ Top' = stack'[Len(stack')]
<1>1. /\ Len(stack) \in Nat \ {0}
      /\ Called \in Seq(Frame) /\ Len(Called) = Len(stack)
      /\ \A i \in 1 .. Len(stack) - 1 : Called[i] = stack[i]
      /\ Called[Len(stack)].switched = Top.switched
      /\ Called[Len(stack)].next = 3
  BY TopFacts, CalledFacts
<1> DEFINE below == [Called[Len(stack)] EXCEPT !.inquiry = left]
           calls == [Called EXCEPT ![Len(stack)] = below]
           frame == [inquiry |-> inquiry, switched |-> inquiry.state, next |-> 1]
<1>2. /\ below \in Frame /\ below.inquiry = left /\ below.switched = Top.switched
      /\ below.next = 3
  <2>1. Called[Len(stack)] \in Frame
    BY <1>1
  <2> QED
    BY <1>1, <2>1 DEF Frame
<1>3. frame \in Frame /\ frame.inquiry = inquiry /\ frame.switched = inquiry.state /\ frame.next = 1
  BY DEF Frame, FileLines
<1>4. /\ calls \in Seq(Frame) /\ Len(calls) = Len(stack) /\ calls[Len(stack)] = below
      /\ \A i \in 1 .. Len(stack) - 1 : calls[i] = stack[i]
  <2> HIDE DEF below
  <2> QED
    BY <1>1, <1>2
<1>5. stack' = Append(calls, frame) /\ inquiryMap' = inquiryMap
  BY DEF Enter
<1> HIDE DEF below, calls, frame
<1>6. /\ stack' \in Seq(Frame) /\ Len(stack') = Len(stack) + 1
      /\ stack'[Len(stack) + 1] = frame
      /\ \A i \in 1 .. Len(stack) : stack'[i] = calls[i]
  BY <1>1, <1>3, <1>4, <1>5
<1>7. Top' = frame
  BY <1>6 DEF Top
<1> QED
  BY <1>1, <1>2, <1>3, <1>4, <1>5, <1>6, <1>7

\* Such a call keeps the invariant when the file is up to the calling inquiry.
LEMMA CallKeeps ==
    ASSUME IInv, stack # <<>>, Top.next = 2, NEW inquiry \in FileLines, NEW left \in FileLines,
           Enter([Called EXCEPT ![Len(stack)].inquiry = left], inquiry),
           UNCHANGED <<feed, file, stopped>>,
           inquiry.id = Top.inquiry.id, inquiry.terms = Top.inquiry.terms,
           \/ /\ Top.switched = "RECEIVED" /\ left = Top.inquiry
              /\ inquiry.state = "QUOTED" /\ inquiry.price = QuotedPrice
           \/ /\ Top.switched = "QUOTED" /\ Top.inquiry.state = "QUOTED" /\ left = inquiry
              /\ inquiry.state = "DONE" /\ inquiry.price = Top.inquiry.price
    PROVE  IInv'
<1>1. /\ inquiryMap' = inquiryMap
      /\ stack' \in Seq(Frame) /\ Len(stack') = Len(stack) + 1
      /\ \A i \in 1 .. Len(stack) - 1 : stack'[i] = stack[i]
      /\ stack'[Len(stack)].inquiry = left
      /\ stack'[Len(stack)].switched = Top.switched
      /\ stack'[Len(stack)].next = 3
      /\ Top'.inquiry = inquiry /\ Top'.switched = inquiry.state /\ Top'.next = 1
      /\ Top' = stack'[Len(stack')]
  BY CallFacts DEF IInv
<1>2. Len(stack) \in Nat \ {0} /\ Top \in Frame /\ Top = stack[Len(stack)] /\ left.id = Top.inquiry.id
  BY TopFacts DEF IInv
<1>3. TypeOK'
  BY <1>1, MapFrame, ListenersAre DEF IInv, TypeOK, Frame
<1>4. Calls'
  <2> SUFFICES ASSUME NEW i \in 1 .. Len(stack')
               PROVE  /\ stack'[i].switched \in Handled
                      /\ \/ stack'[i].inquiry.state = stack'[i].switched
                         \/ /\ stack'[i].switched = "QUOTED" /\ stack'[i].inquiry.state = "DONE"
                            /\ stack'[i].next = 3
                      /\ i < Len(stack') => stack'[i].next = 3
                      /\ \A row \in feed' : stack'[i].inquiry.id # row.id
    BY DEF Calls
  <2>1. \A row \in feed : Top.inquiry.id # row.id
    BY <1>2 DEF IInv, Calls
  <2>2. CASE i = Len(stack')
    BY <1>1, <1>2, <2>1, <2>2 DEF Handled
  <2>3. CASE i = Len(stack)
    <3>1. Top.switched \in Handled /\ (Top.switched = "RECEIVED" => Top.inquiry.state = "RECEIVED")
      BY <1>2 DEF IInv, Calls
    <3> QED
      BY <1>1, <1>2, <2>1, <2>3, <3>1
  <2>4. CASE i < Len(stack)
    BY <1>1, <1>2, <2>4 DEF IInv, Calls
  <2> QED
    BY <1>1, <1>2, <2>2, <2>3, <2>4
<1>5. Stored'
  <2> SUFFICES ASSUME NEW i \in 1 .. Len(stack'), stack'[i].switched = "RECEIVED"
               PROVE  /\ ExistingData(inquiryMap, stack'[i].inquiry.id)
                      /\ inquiryMap[stack'[i].inquiry.id] = stack'[i].inquiry
    BY <1>1 DEF Stored, ExistingData
  <2>1. i # Len(stack')
    BY <1>1
  <2>2. CASE i = Len(stack)
    BY <1>1, <1>2, <2>2 DEF IInv, Stored
  <2>3. CASE i < Len(stack)
    BY <1>1, <1>2, <2>3 DEF IInv, Stored
  <2> QED
    BY <1>1, <1>2, <2>1, <2>2, <2>3
<1>6. Fresh'
  BY <1>1 DEF IInv, Fresh
<1>7. FileFollows'
  <2>1. LastLine(Top.inquiry.id) = Line(Top.inquiry)
    BY DEF IInv, FileFollows
  <2>2. LastLine(Top.inquiry.id)' = LastLine(Top.inquiry.id)
    BY <1>1 DEF LastLine
  <2>3. Top.switched = "RECEIVED" => Top.inquiry.state = "RECEIVED" /\ Top.inquiry.price = Unquoted
    <3> SUFFICES ASSUME Top.switched = "RECEIVED"
                 PROVE  Top.inquiry.state = "RECEIVED" /\ Top.inquiry.price = Unquoted
      OBVIOUS
    <3>1. Top.inquiry.state = "RECEIVED"
      BY <1>2 DEF IInv, Calls
    <3>2. Len(stack) = 1
      BY DEF IInv, FileFollows
    <3> QED
      BY <3>1, <3>2 DEF IInv, FileFollows
  <2>4. Before(Top.inquiry)' = Line(Top.inquiry)
    BY <1>1, <1>2, <2>3 DEF Before, Line
  <2> QED
    BY <1>1, <1>2, <2>1, <2>2, <2>4 DEF FileFollows
<1>8. ReentryAdvances'
  <2> SUFFICES ASSUME NEW i \in 1 .. Len(stack') - 1
               PROVE  /\ stack'[i + 1].inquiry.id = stack'[i].inquiry.id
                      /\ Stage[stack'[i + 1].switched] = Stage[stack'[i].switched] + 1
    BY DEF ReentryAdvances
  <2>1. CASE i = Len(stack)
    BY <1>1, <1>2, <2>1 DEF Stage
  <2>2. CASE i = Len(stack) - 1
    <3>1. /\ Top.inquiry.id = stack[i].inquiry.id
          /\ Stage[Top.switched] = Stage[stack[i].switched] + 1
      BY <1>2, <2>2 DEF IInv, ReentryAdvances
    <3>2. i \in 1 .. Len(stack) - 1 /\ i + 1 = Len(stack)
      BY <1>2, <2>2
    <3>3. stack'[i] = stack[i]
      BY <1>1, <3>2
    <3>4. stack'[i + 1].switched = Top.switched
      BY <1>1, <3>2
    <3>5. stack'[i + 1].inquiry.id = Top.inquiry.id
      BY <1>1, <1>2, <3>2
    <3> QED
      BY <3>1, <3>3, <3>4, <3>5
  <2>3. CASE i < Len(stack) - 1
    <3>1. i \in 1 .. Len(stack) - 1 /\ stack'[i] = stack[i] /\ stack'[i + 1] = stack[i + 1]
      BY <1>1, <1>2, <2>3
    <3> QED
      BY <3>1 DEF IInv, ReentryAdvances
  <2> QED
    BY <1>1, <1>2, <2>1, <2>2, <2>3
<1> QED
  BY <1>1, <1>3, <1>4, <1>5, <1>6, <1>7, <1>8, MapFrame DEF IInv

LEMMA SendQuoteKeeps ==
    ASSUME IInv, SendQuote
    PROVE  IInv'
<1>1. /\ stack # <<>> /\ Top.next = 2 /\ Top.switched = "RECEIVED"
      /\ UNCHANGED <<feed, file, stopped>>
  BY ListenersAre, TopFacts DEF SendQuote, Calling, Frame, IInv
<1>2. /\ Len(stack) \in Nat \ {0} /\ Top \in Frame /\ Top = stack[Len(stack)]
      /\ Called \in Seq(Frame) /\ Len(Called) = Len(stack)
      /\ Called[Len(stack)].inquiry = Top.inquiry
  BY <1>1, TopFacts, CalledFacts DEF IInv
<1>3. PICK left \in FileLines : left = Top.inquiry
  BY <1>2 DEF Frame
<1>4. GetData(inquiryMap, Top.inquiry.id) = left
  BY <1>1, <1>2, <1>3 DEF IInv, Stored, GetData
<1>5. [Called EXCEPT ![Len(stack)].inquiry = left] = Called
  <2>1. Called[Len(stack)] \in Frame
    BY <1>2
  <2>2. [Called[Len(stack)] EXCEPT !.inquiry = left] = Called[Len(stack)]
    BY <1>2, <1>3, <2>1 DEF Frame
  <2> QED
    BY <1>2, <2>2
<1>6. PICK inquiry \in FileLines : inquiry = Quote(left)
  BY QuoteType
<1>7. /\ inquiry.id = left.id /\ inquiry.terms = left.terms
      /\ inquiry.state = "QUOTED" /\ inquiry.price = QuotedPrice
  BY <1>6 DEF Quote, FileLines
<1>8. Enter([Called EXCEPT ![Len(stack)].inquiry = left], inquiry)
  BY <1>4, <1>5, <1>6 DEF SendQuote
<1> QED
  BY <1>1, <1>3, <1>7, <1>8, CallKeeps

LEMMA FinishKeeps ==
    ASSUME IInv, Finish
    PROVE  IInv'
<1>1. /\ stack # <<>> /\ Top.next = 2 /\ Top.inquiry.state = "QUOTED"
      /\ UNCHANGED <<feed, file, stopped>>
  BY ListenersAre, TopFacts DEF Finish, Calling, Continues, Frame, IInv
<1>2. Len(stack) \in Nat \ {0} /\ Top \in Frame /\ Top = stack[Len(stack)]
  BY <1>1, TopFacts DEF IInv
<1>3. Top.switched = "QUOTED"
  BY <1>1, <1>2 DEF IInv, Calls
<1>4. [Top.inquiry EXCEPT !.state = "DONE"] \in FileLines
  BY <1>2 DEF Frame, FileLines, States
<1>5. PICK done \in FileLines : done = [Top.inquiry EXCEPT !.state = "DONE"]
  BY <1>4
<1>6. /\ done.id = Top.inquiry.id /\ done.terms = Top.inquiry.terms
      /\ done.state = "DONE" /\ done.price = Top.inquiry.price
  BY <1>2, <1>5 DEF Frame, FileLines
<1>7. Enter([Called EXCEPT ![Len(stack)].inquiry = done], done)
  BY <1>5 DEF Finish
<1> QED
  BY <1>1, <1>3, <1>6, <1>7, CallKeeps

-----------------------------------------------------------------------------
(* The theorems.                                                           *)

LEMMA InitHolds == Init => IInv
<1> SUFFICES ASSUME Init PROVE IInv
  OBVIOUS
<1>1. /\ feed = Inquiries /\ DOMAIN inquiryMap = {} /\ Range(inquiryMap) = {} /\ file = <<>>
      /\ stack = <<>> /\ stopped = FALSE
  BY DEF Init, EmptyMap, Range
<1>2. TypeOK /\ Calls /\ Stored /\ Fresh /\ FileFollows /\ ReentryAdvances
  <2>1. TypeOK
    <3>1. /\ file \in Seq(FileLines)
          /\ stack \in Seq([inquiry : FileLines, switched : States, next : 1 .. Len(Listeners) + 1])
      BY <1>1, EmptySeq
    <3> QED
      BY <1>1, <3>1 DEF TypeOK
  <2>2. 1 .. Len(stack) = {} /\ 1 .. Len(stack) - 1 = {} /\ DOMAIN file = {}
    BY <1>1
  <2> QED
    BY <1>1, <2>1, <2>2 DEF Calls, Stored, Fresh, FileFollows, ReentryAdvances
<1> QED
  BY <1>2 DEF IInv

LEMMA StepHolds == IInv /\ [Next]_vars => IInv'
<1> SUFFICES ASSUME IInv, [Next]_vars PROVE IInv'
  OBVIOUS
<1>1. CASE StopReading \/ UNCHANGED vars
  <2>1. UNCHANGED <<feed, inquiryMap, file, stack>> /\ stopped' \in BOOLEAN
    BY <1>1 DEF StopReading, vars, IInv, TypeOK
  <2>2. TypeOK' /\ Calls' /\ Stored' /\ Fresh' /\ ReentryAdvances'
    BY <2>1 DEF IInv, TypeOK, Calls, Stored, Fresh, ReentryAdvances
  <2>3. FileFollows'
    BY <2>1 DEF IInv, FileFollows, LastLine, Before, Line, Top
  <2> QED
    BY <2>2, <2>3 DEF IInv
<1> QED
  BY <1>1, ReadKeeps, PersistKeeps, SendQuoteKeeps, FinishKeeps, IgnoreKeeps, ReturnKeeps
     DEF Next, Chain, Terminating

\* Type correctness.
THEOREM TypeCorrect == Spec => []TypeOK
<1>1. IInv => TypeOK
  BY DEF IInv
<1> QED
  BY <1>1, InitHolds, StepHolds, PTL DEF Spec

\* The service that listens to itself gets somewhere: a call of OnMessage from within
\* another is about the same inquiry, one stage on.
THEOREM Advances == Spec => []ReentryAdvances
<1>1. IInv => ReentryAdvances
  BY DEF IInv
<1> QED
  BY <1>1, InitHolds, StepHolds, PTL DEF Spec

-----------------------------------------------------------------------------
(* Refinement: a line added to the file is one step of one inquiry's life, *)
(* and nothing else is a step of the desk.                                 *)

desk == [id \in Ids |-> LastLine(id)]

LEMMA PersistAdvances ==
    ASSUME IInv, PersistData
    PROVE  Desk!Next
<1>1. /\ stack # <<>> /\ Top.next = 1 /\ file' = Append(file, Top.inquiry)
  BY ListenersAre, TopFacts DEF PersistData, Calling, Frame, IInv
<1>2. Len(stack) \in Nat \ {0} /\ Top \in Frame /\ Top = stack[Len(stack)]
  BY <1>1, TopFacts DEF IInv
<1>3. PICK inquiry \in FileLines : inquiry = Top.inquiry
  BY <1>2 DEF Frame
<1> DEFINE k == inquiry.id
<1>4. k \in Ids /\ inquiry.terms \in Terms
  BY DEF FileLines
<1>5. \A id \in Ids : LastLine(id)' = IF id = k THEN Line(inquiry) ELSE LastLine(id)
  <2>1. file \in Seq(FileLines) /\ file' = Append(file, inquiry)
    BY <1>1, <1>3 DEF IInv, TypeOK
  <2> QED
    BY <2>1, LineAdded
<1>6. desk' = [desk EXCEPT ![k] = Line(inquiry)]
  BY <1>4, <1>5 DEF desk
<1>7. inquiry.state \in Handled /\ Top.switched = inquiry.state
  BY <1>1, <1>2, <1>3 DEF IInv, Calls
<1>8. desk[k] = Before(inquiry)
  <2>1. LastLine(Top.inquiry.id) = Before(Top.inquiry)
    BY <1>1 DEF IInv, FileFollows
  <2> QED
    BY <1>3, <1>4, <2>1 DEF desk
<1> HIDE DEF k
<1>9. CASE Len(stack) = 1
  <2>1. desk[k].state = "NONE" /\ inquiry.price = Unquoted
    BY <1>1, <1>3, <1>8, <1>9 DEF Before, IInv, FileFollows
  <2>2. desk' = [desk EXCEPT ![k] =
                   [state |-> inquiry.state, terms |-> inquiry.terms, price |-> Unquoted]]
    BY <1>6, <2>1 DEF Line
  <2>3. Desk!Arrive(k)
    BY <1>4, <1>7, <2>1, <2>2 DEF Desk!Arrive, desk, Handled
  <2> QED
    BY <1>4, <2>3 DEF Desk!Next
<1>10. CASE Len(stack) # 1 /\ inquiry.state = "QUOTED"
  <2>1. desk[k] = [state |-> "RECEIVED", terms |-> inquiry.terms, price |-> Unquoted]
    BY <1>8, <1>10 DEF Before
  <2>2. inquiry.price = QuotedPrice
    <3>1. Len(stack) > 1
      <4>1. \A n \in Nat \ {0} : n = 1 \/ n > 1
        OBVIOUS
      <4> QED
        BY <1>2, <1>10, <4>1
    <3> QED
      BY <1>1, <1>3, <1>10, <3>1 DEF IInv, FileFollows
  <2>3. desk' = [desk EXCEPT ![k].state = "QUOTED", ![k].price = QuotedPrice]
    <3>1. desk' = [desk EXCEPT ![k] = [state |-> "QUOTED", terms |-> inquiry.terms,
                                       price |-> QuotedPrice]]
      BY <1>6, <1>10, <2>2 DEF Line
    <3>2. PICK d : d = desk /\ d = [id \in Ids |-> d[id]]
      BY DEF desk
    <3>3. [d[k] EXCEPT !.state = "QUOTED"] =
          [state |-> "QUOTED", terms |-> inquiry.terms, price |-> Unquoted]
      BY <2>1, <3>2
    <3>4. [[state |-> "QUOTED", terms |-> inquiry.terms, price |-> Unquoted]
             EXCEPT !.price = QuotedPrice] =
          [state |-> "QUOTED", terms |-> inquiry.terms, price |-> QuotedPrice]
      OBVIOUS
    <3>5. [d EXCEPT ![k].state = "QUOTED", ![k].price = QuotedPrice] =
          [d EXCEPT ![k] = [state |-> "QUOTED", terms |-> inquiry.terms, price |-> QuotedPrice]]
      BY <1>4, <3>2, <3>3, <3>4
    <3> QED
      BY <3>1, <3>2, <3>5
  <2>4. Desk!SendQuote(k)
    BY <2>1, <2>3 DEF Desk!SendQuote, desk
  <2> QED
    BY <1>4, <2>4 DEF Desk!Next
<1>11. CASE Len(stack) # 1 /\ inquiry.state = "DONE"
  <2>1. desk[k] = [state |-> "QUOTED", terms |-> inquiry.terms, price |-> inquiry.price]
    BY <1>8, <1>11 DEF Before
  <2>2. desk' = [desk EXCEPT ![k].state = "DONE"]
    <3>1. desk' = [desk EXCEPT ![k] = [state |-> "DONE", terms |-> inquiry.terms,
                                       price |-> inquiry.price]]
      BY <1>6, <1>11 DEF Line
    <3>2. PICK d : d = desk /\ d = [id \in Ids |-> d[id]]
      BY DEF desk
    <3>3. [d[k] EXCEPT !.state = "DONE"] =
          [state |-> "DONE", terms |-> inquiry.terms, price |-> inquiry.price]
      BY <2>1, <3>2
    <3>4. [d EXCEPT ![k].state = "DONE"] =
          [d EXCEPT ![k] = [state |-> "DONE", terms |-> inquiry.terms, price |-> inquiry.price]]
      BY <1>4, <3>2, <3>3
    <3> QED
      BY <3>1, <3>2, <3>4
  <2>3. Desk!Finish(k)
    BY <2>1, <2>2 DEF Desk!Finish, desk
  <2> QED
    BY <1>4, <2>3 DEF Desk!Next
<1>12. inquiry.state = "RECEIVED" => Len(stack) = 1
  BY <1>1, <1>3, <1>7 DEF IInv, FileFollows
<1> QED
  BY <1>7, <1>9, <1>10, <1>11, <1>12 DEF Handled

\* Line by line, the file shows the life of every inquiry in order: it arrives, is
\* quoted at the quoted price and then done, and its terms and its price stay.
THEOREM DeskLives == Spec => Desk!Lives
<1>1. Init => Desk!Init
  <2> SUFFICES ASSUME Init PROVE Desk!Init
    OBVIOUS
  <2>1. \A id : LastLine(id) = [state |-> "NONE"]
    BY DEF Init, LastLine
  <2> QED
    BY <2>1 DEF Desk!Init, Desk!Nothing
<1>2. IInv /\ [Next]_vars => [Desk!Next]_desk
  <2> SUFFICES ASSUME IInv, [Next]_vars, ~PersistData PROVE desk' = desk
    BY PersistAdvances
  <2>1. file' = file
    BY DEF Next, Chain, Terminating, ReadInquiry, StopReading, SendQuote, Finish, Ignore,
       Return, vars
  <2>2. \A id : LastLine(id)' = LastLine(id)
    BY <2>1 DEF LastLine
  <2> QED
    BY <2>2 DEF desk
<1> QED
  BY <1>1, <1>2, InitHolds, StepHolds, PTL DEF Spec, Desk!Lives, desk
=============================================================================
