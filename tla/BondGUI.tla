------------------------------- MODULE BondGUI -------------------------------
(***************************************************************************)
(* BondGUIService: writes prices to gui.txt until it holds max_count       *)
(* lines, then waits for the throttle to pass, clears the file and starts  *)
(* over.  There is no timer: the service only ever looks at the clock      *)
(* while it handles a price, and a price it does not show is dropped.      *)
(*                                                                         *)
(* steady_clock is kept as the time since wait_start, up to the throttle,  *)
(* beyond which its value changes nothing.                                 *)
(***************************************************************************)
EXTENDS Integers, Sequences, ServiceMap, BondNotation

CONSTANTS
    Prices,     \* the prices the pricing service may hand over: bond, mid and spread
    throttle,   \* in units of the clock
    max_count   \* the number of lines of the file

ASSUME GUIAssumption == throttle \in Nat /\ max_count \in Nat \ {0}

VARIABLES
    guiMap,     \* the map of BondGUIService: bond -> price
    counter,    \* lines written since the file was cleared
    wait,       \* waiting for the throttle
    elapsed,    \* steady_clock::now() - wait_start
    guiFile,    \* the lines of gui.txt, below the header
    \* History variables.
    firstPage,  \* the file was never cleared
    pageAge,    \* the time since the constructor or ClearFile truncated it
    handled     \* the parity of the number of prices handled

guiVars == <<guiMap, counter, wait, elapsed, guiFile, firstPage, pageAge, handled>>

\* wait_start is not initialised: it is the clock's epoch, some time in the past.
Init ==
    /\ guiMap = EmptyMap
    /\ counter = 0
    /\ wait = FALSE
    /\ elapsed \in 0 .. throttle
    /\ guiFile = <<>>
    /\ firstPage = TRUE
    /\ pageAge = 0
    /\ handled = 0

Room == counter < max_count

\* A line shows the mid and the spread in bond notation.
Line(price) == [price EXCEPT !.mid = dec2bond(price.mid), !.spread = dec2bond(price.spread)]

Show(price) ==
    /\ Room
    /\ guiFile' = Append(guiFile, Line(price))
    /\ counter' = counter + 1
    /\ UNCHANGED <<wait, elapsed, firstPage, pageAge>>

\* What wait_start is measured from: clearing the file, not the start of the wait.
ElapsedAfterClear_Kept == elapsed                                   \* mutant
ElapsedAfterClear == 0

CounterAfterClear_Kept == counter                                   \* mutant
CounterAfterClear == 0

ClearFile ==
    /\ ~Room /\ wait /\ elapsed >= throttle
    /\ guiFile' = <<>>
    /\ wait' = FALSE
    /\ elapsed' = ElapsedAfterClear
    /\ counter' = CounterAfterClear
    /\ firstPage' = FALSE
    /\ pageAge' = 0

KeepWaiting ==
    /\ ~Room /\ wait /\ elapsed < throttle
    /\ UNCHANGED <<counter, wait, elapsed, guiFile, firstPage, pageAge>>

\* The code's branch for counter == -1 is dead: such a counter leaves room.
StartWaiting_Reset ==                                               \* mutant
    /\ ~Room /\ ~wait
    /\ wait' = TRUE /\ counter' = 0
    /\ UNCHANGED <<elapsed, guiFile, firstPage, pageAge>>
StartWaiting_Forgotten ==                                           \* mutant
    /\ ~Room /\ ~wait
    /\ UNCHANGED <<counter, wait, elapsed, guiFile, firstPage, pageAge>>
StartWaiting ==
    /\ ~Room /\ ~wait
    /\ wait' = TRUE
    /\ UNCHANGED <<counter, elapsed, guiFile, firstPage, pageAge>>

OnMessage(price) ==
    /\ guiMap' = AddData(guiMap, price.bond, price)
    /\ handled' = 1 - handled
    /\ Show(price) \/ ClearFile \/ KeepWaiting \/ StartWaiting

UpToThrottle(time) == IF time < throttle THEN time + 1 ELSE throttle

Tick ==
    /\ elapsed' = UpToThrottle(elapsed)
    /\ pageAge' = UpToThrottle(pageAge)
    /\ UNCHANGED <<guiMap, counter, wait, guiFile, firstPage, handled>>

Next == (\E price \in Prices : OnMessage(price)) \/ Tick

\* The clock goes on; prices need not.
Spec == Init /\ [][Next]_guiVars /\ WF_guiVars(Tick)

-----------------------------------------------------------------------------
(* Properties.                                                             *)

\* Every variable holds what its C++ counterpart can hold.
TypeOK ==
    /\ DOMAIN guiMap \subseteq {price.bond : price \in Prices}
    /\ \A bond \in DOMAIN guiMap : guiMap[bond] \in Prices
    /\ counter \in 0 .. max_count
    /\ wait \in BOOLEAN
    /\ guiFile \in Seq({Line(price) : price \in Prices})
    /\ {elapsed, pageAge} \subseteq 0 .. throttle
    /\ firstPage \in BOOLEAN
    /\ handled \in {0, 1}

\* The counter counts the lines on the page, and the service only waits on a full
\* page: the two survive any interleaving of prices and clock.
PageMatchesCounter ==
    /\ counter = Len(guiFile)
    /\ wait => Len(guiFile) = max_count

\* From the second page on, a page stays up for the throttle at least.
ClearsThrottled ==
    [][Len(guiFile') < Len(guiFile) => firstPage \/ pageAge >= throttle]_guiVars

\* As long as prices keep coming, the page keeps being turned.
PagesTurn == []<>(handled = 0) /\ []<>(handled = 1) => []<>(guiFile = <<>>)

\* bondguiservice.hpp: the service "writes to gui.txt every throttle", and
\* wait_start is the "start of throttle": every page stays up for the throttle.
ThrottleHonoured ==
    [][Len(guiFile') < Len(guiFile) => pageAge >= throttle]_guiVars
=============================================================================
