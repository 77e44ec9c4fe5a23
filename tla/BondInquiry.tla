----------------------------- MODULE BondInquiry -----------------------------
(***************************************************************************)
(* BondInquiryService, its listener on itself and the service that         *)
(* persists inquiries, all on inquiry_thread.                              *)
(*                                                                         *)
(* OnMessage calls the listeners; the service's own listener calls         *)
(* OnMessage again from within that call, one stage further.  The stack of *)
(* calls is modelled: a frame is one call of OnMessage, with the inquiry   *)
(* it was given, the state it switched on, and the next listener to call.  *)
(***************************************************************************)
EXTENDS Integers, Sequences, SequencesExt, ServiceMap

CONSTANTS
    Inquiries,      \* the rows the feed may deliver: id, state and terms
    QuotedPrice,    \* the price of every quote
    Unquoted        \* the price an inquiry arrives with

States == {"RECEIVED", "QUOTED", "DONE", "REJECTED", "CUSTOMER_REJECTED"}

(***************************************************************************)
(* inquiryservice.hpp: "each inquiry must be unique".  A row may have any  *)
(* text in the place of its state.                                         *)
(***************************************************************************)
ASSUME InquiriesAssumption ==
    \A a, b \in Inquiries : a.id = b.id => a = b

VARIABLES
    feed,           \* the rows still to come
    inquiryMap,     \* the map of BondInquiryService: id -> inquiry
    file,           \* the inquiries in allinquiries.txt
    stack,          \* the calls of OnMessage in progress, the innermost last
    stopped         \* the thread has ended

vars == <<feed, inquiryMap, file, stack, stopped>>

Ids   == {inquiry.id : inquiry \in Inquiries}
Terms == {inquiry.terms : inquiry \in Inquiries}

-----------------------------------------------------------------------------
Init ==
    /\ feed = Inquiries
    /\ inquiryMap = EmptyMap
    /\ file = <<>>
    /\ stack = <<>>
    /\ stopped = FALSE

\* The listeners, in the order main.cpp adds them.
Listeners_SelfFirst == <<"self", "history">>                        \* mutant
Listeners == <<"history", "self">>

Top == stack[Len(stack)]

\* The top frame after it has called its listener.
Called == [stack EXCEPT ![Len(stack)].next = @ + 1]

\* Entering OnMessage: a received inquiry is stored; a rejected one goes nowhere.
Enter(calls, inquiry) ==
    /\ inquiryMap' = IF inquiry.state = "RECEIVED"
                     THEN AddData(inquiryMap, inquiry.id, inquiry) ELSE inquiryMap
    /\ stack' = IF inquiry.state \in {"RECEIVED", "QUOTED", "DONE"}
                THEN Append(calls, [inquiry |-> inquiry, switched |-> inquiry.state, next |-> 1])
                ELSE calls

\* A text that names no state is taken for RECEIVED.
string2inquiry(text) == IF text \in States THEN text ELSE "RECEIVED"

\* The connector has no price to give.
ProcessData(row) ==
    [id |-> row.id, terms |-> row.terms, state |-> string2inquiry(row.state), price |-> Unquoted]

ReadInquiry ==
    /\ ~stopped /\ stack = <<>>
    /\ \E inquiry \in feed :
          /\ feed' = feed \ {inquiry}
          /\ Enter(<<>>, ProcessData(inquiry))
    /\ UNCHANGED <<file, stopped>>

StopReading ==
    /\ ~stopped /\ stack = <<>>
    /\ stopped' = TRUE
    /\ UNCHANGED <<feed, inquiryMap, file, stack>>

Calling(listener) ==
    /\ stack # <<>>
    /\ Top.next <= Len(Listeners)
    /\ Listeners[Top.next] = listener

\* The historical listener persists whatever it is given.
PersistData ==
    /\ Calling("history")
    /\ file' = Append(file, Top.inquiry)
    /\ stack' = Called
    /\ UNCHANGED <<feed, inquiryMap, stopped>>

\* The quote is made on a copy of what the map holds.
Quote_PerUnit(inquiry) == [inquiry EXCEPT !.state = "QUOTED", !.price = QuotedPrice \div 100]  \* mutant
Quote(inquiry) == [inquiry EXCEPT !.state = "QUOTED", !.price = QuotedPrice]

\* ProcessAdd of the service's own listener.
SendQuote ==
    /\ Calling("self") /\ Top.switched = "RECEIVED"
    /\ Enter(Called, Quote(GetData(inquiryMap, Top.inquiry.id)))
    /\ UNCHANGED <<feed, file, stopped>>

\* ProcessUpdate of the service's own listener looks at the inquiry's state.
Continues_Always(inquiry) == TRUE                                   \* mutant
Continues(inquiry) == inquiry.state = "QUOTED"

\* The inquiry is changed in place: the caller's frame sees it too.
Finish ==
    /\ Calling("self") /\ Top.switched # "RECEIVED" /\ Continues(Top.inquiry)
    /\ LET done == [Top.inquiry EXCEPT !.state = "DONE"]
       IN Enter([Called EXCEPT ![Len(stack)].inquiry = done], done)
    /\ UNCHANGED <<feed, file, stopped>>

Ignore ==
    /\ Calling("self") /\ Top.switched # "RECEIVED" /\ ~Continues(Top.inquiry)
    /\ stack' = Called
    /\ UNCHANGED <<feed, inquiryMap, file, stopped>>

Return ==
    /\ stack # <<>> /\ Top.next > Len(Listeners)
    /\ stack' = Front(stack)
    /\ UNCHANGED <<feed, inquiryMap, file, stopped>>

Chain == PersistData \/ SendQuote \/ Finish \/ Ignore \/ Return

Terminating == stopped /\ UNCHANGED vars

Next == ReadInquiry \/ StopReading \/ Chain \/ Terminating

\* The operating system runs a thread that is in the middle of a call.
Spec == Init /\ [][Next]_vars /\ WF_vars(Chain)

-----------------------------------------------------------------------------
(* Properties.                                                             *)

FileLines == [id : Ids, terms : Terms, state : States, price : {QuotedPrice, Unquoted}]

\* Every variable holds what its C++ counterpart can hold.
TypeOK ==
    /\ feed \subseteq Inquiries
    /\ DOMAIN inquiryMap \subseteq Ids
    /\ \A id \in DOMAIN inquiryMap : inquiryMap[id] \in FileLines
    /\ file \in Seq(FileLines)
    /\ stack \in Seq([inquiry : FileLines, switched : States, next : 1 .. Len(Listeners) + 1])
    /\ stopped \in BOOLEAN

Stage == [RECEIVED |-> 1, QUOTED |-> 2, DONE |-> 3]

\* The service that listens to itself gets somewhere: an OnMessage called from
\* within another one is about the same inquiry, one stage on, so the calls never
\* nest deeper than the three stages of an inquiry.
ReentryAdvances ==
    \A i \in 1 .. Len(stack) - 1 :
        /\ stack[i + 1].inquiry.id = stack[i].inquiry.id
        /\ Stage[stack[i + 1].switched] = Stage[stack[i].switched] + 1

\* The inquiries on file, as the last line of each tells.
LastLine(id) ==
    LET lines == {i \in DOMAIN file : file[i].id = id}
    IN IF lines = {} THEN [state |-> "NONE"]
       ELSE LET line == file[Max(lines)]
            IN [state |-> line.state, terms |-> line.terms, price |-> line.price]

Desk == INSTANCE InquiryDesk WITH desk <- [id \in Ids |-> LastLine(id)]

\* Line by line, the file of inquiries shows the life of every inquiry in order.
ImplementsDesk == Desk!Spec
=============================================================================
