--------------------------- MODULE Startup_proofs ---------------------------
(***************************************************************************)
(* Theorems about Startup, for any number of failures: what the order of   *)
(* the connectors in main.cpp guarantees, whoever is lost and when.        *)
(***************************************************************************)
EXTENDS Startup, TLAPS

Procs == Providers \cup Logs

\* Where main stands; the logs come before the files, and those before the feeds.
LEMMA Order ==
    /\ Len(Connectors) = 7
    /\ \A i \in 1 .. 7 : Connectors[i] =
          IF i = 1 THEN "executionlog" ELSE IF i = 2 THEN "streaminglog"
          ELSE IF i = 3 THEN "files" ELSE IF i = 4 THEN "pricing"
          ELSE IF i = 5 THEN "trades" ELSE IF i = 6 THEN "marketdata" ELSE "inquiry"
BY DEF Connectors

\* What a log is that has been connected.
Met == {"connected", "failed", "done"}

MainType == main \in 1 .. 8 /\ system \in {"up", "ended", "aborted"}

\* proc and threads have an entry for each process, whatever it is.
Entries == DOMAIN proc = Procs /\ DOMAIN threads = Providers

\* A log that main need not wait for: it was connected, or its accept has failed.
Settled(log) == proc[log] \in Met \/ log \in unaccepted

\* main is only past the connector of a log that is settled.
LogsMet ==
    /\ main > 1 => Settled("executionlog")
    /\ main > 2 => Settled("streaminglog")

\* A feed has a thread only once main is past both logs, and past the files.
ThreadsLate == \A p \in Providers : threads[p] # "none" => main > 3

\* A system that aborts on the way does so at the connector of a log.
AbortedEarly == system = "aborted" => main < 3 \/ main = 8

IInv == MainType /\ Entries /\ LogsMet /\ ThreadsLate /\ AbortedEarly

LEMMA InitInv == Init => IInv
BY DEF Init, IInv, MainType, Entries, LogsMet, ThreadsLate, AbortedEarly, Procs

\* main moves on only while the system is up, one connector at a time.
LEMMA MainAt ==
    ASSUME MainType, NEW p, Constructing(p)
    PROVE  /\ main \in 1 .. 7 /\ main + 1 \in 1 .. 8 /\ system = "up" /\ Connectors[main] = p
           /\ p = "executionlog" <=> main = 1
           /\ p = "streaminglog" <=> main = 2
           /\ p \in Logs => main < 3
           /\ p \in Providers => main > 3
<1>1. main \in 1 .. 7 /\ system = "up" /\ Connectors[main] = p
  BY Order DEF MainType, Constructing, Gone, Running
<1> QED
  BY <1>1, Order DEF Logs, Providers

LEMMA NextInv == IInv /\ [Next]_vars => IInv'
<1> SUFFICES ASSUME IInv, [Next]_vars PROVE IInv'
  OBVIOUS
<1> USE DEF IInv
\* Steps of one process; a log that was connected stays so, or is lost, or ends.
<1>1. ASSUME NEW p \in Procs, NEW state, Become(p, state), UNCHANGED <<main, unaccepted, threads, system>>,
             p \in Logs /\ proc[p] \in Met => state \in Met
      PROVE  IInv'
  <2>1. DOMAIN proc' = Procs /\ \A q \in Procs : proc'[q] = IF q = p THEN state ELSE proc[q]
    BY <1>1 DEF Become, Entries
  <2>2. "executionlog" \in Procs /\ "streaminglog" \in Procs
        /\ "executionlog" \in Logs /\ "streaminglog" \in Logs
    BY DEF Procs, Logs
  <2>3. LogsMet'
    BY <1>1, <2>1, <2>2 DEF LogsMet, Settled
  <2> QED
    BY <1>1, <2>1, <2>3 DEF MainType, Entries, ThreadsLate, AbortedEarly
\* Steps of a thread, which only a running system takes.
<1>2. ASSUME NEW p \in Providers, NEW state, threads' = [threads EXCEPT ![p] = state],
             Running, UNCHANGED <<main, unaccepted, proc, system>>
      PROVE  IInv'
  <2>1. main = 8
    BY <1>2, Order DEF Running, MainType
  <2>2. DOMAIN threads' = Providers
    BY <1>2 DEF Entries
  <2> QED
    BY <1>2, <2>1, <2>2 DEF MainType, Entries, LogsMet, Settled, ThreadsLate, AbortedEarly
<1>3. ASSUME UNCHANGED <<main, unaccepted, threads, proc, system>> PROVE IInv'
  BY <1>3 DEF MainType, Entries, LogsMet, Settled, ThreadsLate, AbortedEarly
<1>4. ASSUME UNCHANGED <<main, unaccepted, threads, proc>>, system' \in {"ended", "aborted"}, Running
      PROVE  IInv'
  <2>1. main = 8
    BY <1>4, Order DEF Running, MainType
  <2> QED
    BY <1>4, <2>1 DEF MainType, Entries, LogsMet, Settled, ThreadsLate, AbortedEarly
<1>5. CASE Launch
  BY <1>3, <1>5 DEF Launch
<1>6. ASSUME NEW p \in Providers, Provider(p) \/ FinishBuffered(p) \/ Fail(p) PROVE IInv'
  <2>1. p \in Procs /\ p \notin Logs
    BY DEF Procs, Providers, Logs
  <2> QED
    BY <1>1, <1>6, <2>1 DEF Provider, Listen, FinishSending, FinishBuffered, Finish,
       Disconnected, Fail
<1>7. ASSUME NEW p \in Logs, Log(p) \/ LogFails(p) PROVE IInv'
  <2>1. p \in Procs
    BY DEF Procs
  <2> QED
    BY <1>1, <1>7, <2>1 DEF Log, Connect, FinishLogging, LogFails, Met
<1>8. ASSUME NEW p \in Logs, BindFails(p) PROVE IInv'
  <2>1. main < 3 /\ UNCHANGED <<main, unaccepted, proc, threads>> /\ system' = "aborted"
    BY <1>8, MainAt DEF BindFails
  <2> QED
    BY <2>1 DEF MainType, Entries, LogsMet, Settled, ThreadsLate, AbortedEarly
<1>9. ASSUME NEW p \in Logs, Bind(p) PROVE IInv'
  BY <1>3, <1>9 DEF Bind
\* Either way the log whose connector main leaves is settled.
<1>10. ASSUME NEW p \in Logs, Accept(p) \/ AcceptFails(p) PROVE IInv'
  <2>1. /\ main' = main + 1 /\ UNCHANGED <<proc, threads, system>> /\ Constructing(p)
        /\ unaccepted \subseteq unaccepted'
        /\ proc[p] \in Met \/ p \in unaccepted'
    BY <1>10 DEF Accept, AcceptFails, Met
  <2>2. /\ main \in 1 .. 7 /\ main' \in 1 .. 8 /\ system = "up"
        /\ main = 1 => p = "executionlog"
        /\ main = 2 => p = "streaminglog"
        /\ main < 3
    BY <2>1, MainAt
  <2>3. LogsMet'
    BY <2>1, <2>2 DEF LogsMet, Settled
  <2> QED
    BY <2>1, <2>2, <2>3 DEF MainType, Entries, ThreadsLate, AbortedEarly
<1>11. CASE OpenFiles
  <2>1. /\ main' = main + 1 /\ UNCHANGED <<proc, unaccepted, threads, system>>
        /\ Constructing("files")
    BY <1>11 DEF OpenFiles
  <2>2. main > 2 /\ main' \in 1 .. 8 /\ system = "up" /\ main \in 1 .. 7
    <3>1. main \in 1 .. 7 /\ main + 1 \in 1 .. 8 /\ main # 1 /\ main # 2 /\ system = "up"
      BY <2>1, MainAt
    <3> QED
      BY <2>1, <3>1
  <2> QED
    BY <2>1, <2>2 DEF MainType, Entries, LogsMet, Settled, ThreadsLate, AbortedEarly
<1>12. ASSUME NEW p \in Providers, ConnectFeed(p) PROVE IInv'
  <2>1. /\ main' = main + 1 /\ UNCHANGED <<unaccepted, system>> /\ Constructing(p)
        /\ \E state : threads' = [threads EXCEPT ![p] = state]
        /\ proc' = proc \/ Become(p, "connected")
    BY <1>12 DEF ConnectFeed
  <2>2. main > 3 /\ main' \in 1 .. 8 /\ system = "up" /\ main \in 1 .. 7
    BY <2>1, MainAt
  <2>3. DOMAIN threads' = Providers
    BY <2>1 DEF Entries
  <2>4. DOMAIN proc' = Procs /\ \A log \in Logs : proc'[log] = proc[log]
    <3>1. \A log \in Logs : log # p /\ log \in Procs
      BY DEF Logs, Providers, Procs
    <3> QED
      BY <2>1, <3>1 DEF Become, Entries
  <2>5. "executionlog" \in Logs /\ "streaminglog" \in Logs
    BY DEF Logs
  <2>6. LogsMet'
    BY <2>1, <2>2, <2>4, <2>5 DEF LogsMet, Settled
  <2> QED
    BY <2>1, <2>2, <2>3, <2>4, <2>6 DEF MainType, Entries, ThreadsLate, AbortedEarly
<1>13. ASSUME NEW p \in Providers, EndThread(p) \/ Throw(p) PROVE IInv'
  BY <1>2, <1>13 DEF EndThread, Throw
<1>14. CASE End \/ Abort
  BY <1>4, <1>14 DEF End, Abort
<1>15. CASE UNCHANGED vars
  BY <1>3, <1>15 DEF vars
<1> QED
  BY <1>5, <1>6, <1>7, <1>8, <1>9, <1>10, <1>11, <1>12, <1>13, <1>14, <1>15 DEF Next, System

LEMMA InvAlways == Spec => []IInv
BY InitInv, NextInv, PTL DEF Spec

LEMMA InvMeansLogsFirst == IInv => FeedsAfterLogs
BY DEF IInv, ThreadsLate, LogsMet, Settled, Met, MainType, FeedsAfterLogs, LogsSettled, Logs

LEMMA InvMeansKept == IInv => FilesKept
<1> SUFFICES ASSUME IInv, system = "aborted", ~Running PROVE ~Truncated
  BY DEF FilesKept
<1>1. main \in 1 .. 2
  BY Order DEF IInv, MainType, AbortedEarly, Running
<1>2. \A i \in 1 .. main - 1 : Connectors[i] # "files"
  BY <1>1, Order
<1> QED
  BY <1>2 DEF Truncated

\* No feed is connected before each log was connected or its accept has failed,
\* whichever processes fail, however often, and in whatever haste they are launched: a
\* missing log holds the feeds up until main has it, or has given it up.
THEOREM LogsBeforeFeeds == Spec => []FeedsAfterLogs
BY InvAlways, InvMeansLogsFirst, PTL

\* A trading system that cannot have a port of its own truncates no file.
THEOREM FilesUntouched == Spec => []FilesKept
BY InvAlways, InvMeansKept, PTL
=============================================================================
