--------------------------- MODULE BondGUI_proofs ---------------------------
(***************************************************************************)
(* Theorems about BondGUI, for any prices, throttle and size of the page.  *)
(***************************************************************************)
EXTENDS BondGUI, TLAPS

\* The page of the GUI is counted, and its age since the last clearing is known.
Inv ==
    /\ TypeOK
    /\ PageMatchesCounter
    /\ ~firstPage => pageAge = elapsed

LEMMA InitInv == Init => Inv
<1> SUFFICES ASSUME Init PROVE Inv
  OBVIOUS
<1>1. DOMAIN guiMap = {}
  BY DEF Init, EmptyMap
<1>2. /\ guiFile = <<>> /\ counter = 0 /\ wait = FALSE /\ elapsed \in 0 .. throttle
      /\ firstPage = TRUE /\ pageAge = 0 /\ handled = 0
  BY DEF Init
<1>3. guiFile \in Seq({Line(p) : p \in Prices}) /\ Len(guiFile) = 0
  BY <1>2
<1>4. counter \in 0 .. max_count /\ pageAge \in 0 .. throttle
  BY <1>2, GUIAssumption
<1> QED
  BY <1>1, <1>2, <1>3, <1>4 DEF Inv, TypeOK, PageMatchesCounter

LEMMA StepInv == Inv /\ Next => Inv'
<1> SUFFICES ASSUME Inv, Next PROVE Inv'
  OBVIOUS
<1> DEFINE Lines == {Line(p) : p \in Prices}
<1>0. /\ guiFile \in Seq(Lines) /\ counter \in 0 .. max_count /\ wait \in BOOLEAN
      /\ elapsed \in 0 .. throttle /\ pageAge \in 0 .. throttle
      /\ firstPage \in BOOLEAN /\ handled \in {0, 1}
      /\ counter = Len(guiFile) /\ (wait => counter = max_count)
      /\ (~firstPage => pageAge = elapsed)
      /\ max_count \in Nat /\ max_count > 0 /\ throttle \in Nat
  BY GUIAssumption DEF Inv, TypeOK, PageMatchesCounter
<1>1. ASSUME NEW p \in Prices, OnMessage(p) PROVE Inv'
  <2>1. /\ DOMAIN guiMap' \subseteq {q.bond : q \in Prices}
        /\ \A bond \in DOMAIN guiMap' : guiMap'[bond] \in Prices
    BY <1>1 DEF OnMessage, AddData, Inv, TypeOK
  <2>2. handled' \in {0, 1}
    BY <1>0, <1>1 DEF OnMessage
  <2>3. CASE Show(p)
    <3>1. /\ guiFile' = Append(guiFile, Line(p)) /\ Line(p) \in Lines
          /\ counter' = counter + 1 /\ counter < max_count
          /\ UNCHANGED <<wait, elapsed, firstPage, pageAge>>
      BY <2>3 DEF Show, Room
    <3> HIDE DEF Lines
    <3>2. guiFile' \in Seq(Lines) /\ Len(guiFile') = Len(guiFile) + 1
      BY <1>0, <3>1
    <3>3. counter' \in 0 .. max_count /\ ~wait
      BY <1>0, <3>1
    <3> QED
      BY <1>0, <2>1, <2>2, <3>1, <3>2, <3>3
         DEF Inv, TypeOK, PageMatchesCounter, Lines
  <2>4. CASE ClearFile
    <3>1. guiFile' = <<>> /\ wait' = FALSE /\ elapsed' = 0 /\ counter' = 0
          /\ firstPage' = FALSE /\ pageAge' = 0
      BY <2>4 DEF ClearFile, ElapsedAfterClear, CounterAfterClear
    <3>2. guiFile' \in Seq(Lines) /\ Len(guiFile') = 0
      BY <3>1
    <3>3. counter' \in 0 .. max_count /\ elapsed' \in 0 .. throttle /\ pageAge' \in 0 .. throttle
      BY <1>0, <3>1
    <3> QED
      BY <2>1, <2>2, <3>1, <3>2, <3>3 DEF Inv, TypeOK, PageMatchesCounter
  <2>5. CASE KeepWaiting
    BY <1>0, <2>1, <2>2, <2>5 DEF KeepWaiting, Inv, TypeOK, PageMatchesCounter
  <2>6. CASE StartWaiting
    BY <1>0, <2>1, <2>2, <2>6
       DEF StartWaiting, Room, Inv, TypeOK, PageMatchesCounter
  <2> QED
    BY <1>1, <2>3, <2>4, <2>5, <2>6 DEF OnMessage
<1>2. CASE Tick
  <2>1. /\ elapsed' = UpToThrottle(elapsed) /\ pageAge' = UpToThrottle(pageAge)
        /\ UNCHANGED <<guiMap, counter, wait, guiFile, firstPage, handled>>
    BY <1>2 DEF Tick
  <2>2. elapsed' \in 0 .. throttle /\ pageAge' \in 0 .. throttle
    BY <1>0, <2>1 DEF UpToThrottle
  <2> QED
    BY <1>0, <2>1, <2>2 DEF Inv, TypeOK, PageMatchesCounter
<1> QED
  BY <1>1, <1>2 DEF Next

LEMMA InvAlways == Spec => []Inv
<1>1. Inv /\ UNCHANGED guiVars => Inv'
  BY DEF guiVars, Inv, TypeOK, PageMatchesCounter
<1> QED
  BY <1>1, InitInv, StepInv, PTL DEF Spec

\* The counter is the number of lines on the page, and a service that waits has a full
\* page, for any prices and any size of the page.
THEOREM PageCounted == Spec => []PageMatchesCounter
BY InvAlways, PTL DEF Inv

\* From the second page on, no page is cleared before it has been up for the throttle.
THEOREM ClearingThrottled == Spec => ClearsThrottled
<1>1. Inv /\ [Next]_guiVars =>
          [Len(guiFile') < Len(guiFile) => firstPage \/ pageAge >= throttle]_guiVars
  <2> SUFFICES ASSUME Inv, Next, Len(guiFile') < Len(guiFile), ~firstPage
               PROVE  pageAge >= throttle
    OBVIOUS
  <2>1. guiFile \in Seq({Line(p) : p \in Prices}) /\ pageAge = elapsed
    BY DEF Inv, TypeOK
  <2>2. CASE ClearFile
    BY <2>1, <2>2 DEF ClearFile
  <2>3. CASE guiFile' = guiFile
    BY <2>1, <2>3
  <2>4. ASSUME NEW p \in Prices, Show(p) PROVE FALSE
    BY <2>1, <2>4 DEF Show
  <2> QED
    BY <2>2, <2>3, <2>4 DEF Next, OnMessage, Tick, KeepWaiting, StartWaiting
<1> QED
  BY <1>1, InvAlways, PTL DEF Spec, ClearsThrottled
=============================================================================
