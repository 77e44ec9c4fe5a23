------------------------------- MODULE Startup -------------------------------
(***************************************************************************)
(* The seven processes of the system, from launch to end: four data        *)
(* providers, the trading system, and the two trading logs.  A provider    *)
(* waits for the trading system to connect; a log connects to the trading  *)
(* system; a connection nobody listens for is refused at once, and no one  *)
(* tries again.  Any of the seven may be lost on the way: a provider or a  *)
(* log fails, the trading system aborts; what becomes of the others is a   *)
(* question of who waits for whom at that moment.                          *)
(*                                                                         *)
(* The trading system makes its connections one after the other, in the    *)
(* order in which main.cpp constructs its connectors, and each constructor *)
(* blocks until it is connected or refused.                                *)
(***************************************************************************)
EXTENDS Integers, Sequences, SequencesExt, FiniteSets

CONSTANT MaxFailures    \* bound: how much goes wrong

ASSUME MaxFailuresAssumption == MaxFailures \in Nat

Providers == {"pricing", "trades", "marketdata", "inquiry"}
Logs      == {"executionlog", "streaminglog"}

\* setup.sh and README.md: the providers, the trading system, then the logs.
LaunchOrder == <<"inquiry", "marketdata", "trades", "pricing",
                 "tradingsystem", "executionlog", "streaminglog">>

\* The connectors main.cpp constructs, in order; those of the files are one.
Connectors_LogsLast ==                                              \* mutant
    <<"pricing", "trades", "marketdata", "inquiry", "executionlog", "streaminglog", "files">>
Connectors_StreamFirst ==                                           \* mutant
    <<"streaminglog", "executionlog", "files", "pricing", "trades", "marketdata", "inquiry">>
Connectors_FilesFirst ==                                            \* mutant
    <<"files", "executionlog", "streaminglog", "pricing", "trades", "marketdata", "inquiry">>
Connectors ==
    <<"executionlog", "streaminglog", "files", "pricing", "trades", "marketdata", "inquiry">>

VARIABLES
    patient,    \* whoever launches a process waits until the last one listens
    mayFail,    \* processes may fail: a port is taken, a file is missing, ...
    launched,   \* how many processes of LaunchOrder have been launched
    proc,       \* the state of each provider and log
    main,       \* the connector main is constructing; beyond the last one it runs
    bound,      \* the logs whose port the trading system listens on
    unaccepted, \* the logs whose accept has failed: main went on without them
    threads,    \* the read thread of each provider's connector
    system      \* the trading system: "up", "ended" or "aborted"

world == <<patient, mayFail>>
vars  == <<world, launched, proc, main, bound, unaccepted, threads, system>>

\* Its sockets are closed.
Gone == system # "up"

Launched(p) == \E i \in 1 .. launched : LaunchOrder[i] = p

Running == main > Len(Connectors)

Constructing(p) == Launched("tradingsystem") /\ ~Gone /\ ~Running /\ Connectors[main] = p

Init ==
    /\ patient \in BOOLEAN
    /\ mayFail \in BOOLEAN
    /\ launched = 0
    /\ proc = [p \in Providers \cup Logs |-> "starting"]
    /\ main = 1
    /\ bound = {}
    /\ unaccepted = {}
    /\ threads = [p \in Providers |-> "none"]
    /\ system = "up"

\* What a patient launcher waits for before it launches a process.
Ready(p) ==
    IF p \in Logs THEN p \in bound
    ELSE \A i \in 1 .. launched : proc[LaunchOrder[i]] = "listening"

\* An impatient one may launch the next process at any time.
Launch ==
    /\ launched < Len(LaunchOrder)
    /\ patient => Ready(LaunchOrder[launched + 1])
    /\ launched' = launched + 1
    /\ UNCHANGED <<world, proc, main, bound, unaccepted, threads, system>>

\* Something may still go wrong: a provider, a log or an accept fails, or the trading
\* system aborts.
CanFail ==
    /\ mayFail
    /\ Cardinality({p \in Providers \cup Logs : proc[p] = "failed" \/ p \in unaccepted})
         + Cardinality({system} \cap {"aborted"}) < MaxFailures

Become(p, state) == proc' = [proc EXCEPT ![p] = state]

(* Data providers.                                                         *)

Listen(p) ==
    /\ Launched(p) /\ proc[p] = "starting"
    /\ Become(p, "listening")
    /\ UNCHANGED <<world, launched, main, bound, unaccepted, threads, system>>

\* All lines are sent; the socket closes with the process.  Lines that nobody reads,
\* yet or any more, may or may not fit into the buffers of the connection.
Finish(p) ==
    /\ proc[p] = "connected"
    /\ Become(p, "done")
    /\ UNCHANGED <<world, launched, main, bound, unaccepted, threads, system>>

FinishBuffered(p) == Finish(p)
FinishSending(p)  == Running /\ ~Gone /\ threads[p] = "reading" /\ Finish(p)

\* A write to a connection that the trading system has closed throws.
Disconnected(p) ==
    /\ proc[p] = "connected" /\ Gone
    /\ Become(p, "failed")
    /\ UNCHANGED <<world, launched, main, bound, unaccepted, threads, system>>

Fail(p) ==
    /\ CanFail
    /\ Launched(p) /\ proc[p] \in {"starting", "connected"}
    /\ Become(p, "failed")
    /\ UNCHANGED <<world, launched, main, bound, unaccepted, threads, system>>

(* Trading logs.                                                           *)

\* A refused log returns 1.
Connect(p) ==
    /\ Launched(p) /\ proc[p] = "starting"
    /\ Become(p, IF p \in bound /\ ~Gone THEN "connected" ELSE "refused")
    /\ UNCHANGED <<world, launched, main, bound, unaccepted, threads, system>>

\* The log reads until the trading system has closed the connection; one that was
\* never accepted is reset then, and its log returns 1.
FinishLogging(p) ==
    /\ proc[p] = "connected" /\ Gone
    /\ Become(p, IF p \in unaccepted THEN "failed" ELSE "done")
    /\ UNCHANGED <<world, launched, main, bound, unaccepted, threads, system>>

\* A log is lost while it is connected.
LogFails(p) ==
    /\ CanFail
    /\ proc[p] = "connected"
    /\ Become(p, "failed")
    /\ UNCHANGED <<world, launched, main, bound, unaccepted, threads, system>>

(* The trading system.                                                     *)

\* The constructor of a publish connector listens, then accepts.
Bind(p) ==
    /\ Constructing(p) /\ p \notin bound
    /\ bound' = bound \cup {p}
    /\ UNCHANGED <<world, launched, proc, main, unaccepted, threads, system>>

\* Another program has the port, maybe the trading system itself, launched twice:
\* nothing catches what the constructor of the acceptor throws.
BindFails(p) ==
    /\ CanFail
    /\ Constructing(p) /\ p \notin bound
    /\ system' = "aborted"
    /\ UNCHANGED <<world, launched, proc, main, bound, unaccepted, threads>>

\* A connection is accepted even if the log was lost since it made it.
Accept(p) ==
    /\ Constructing(p) /\ p \in bound
    /\ proc[p] \in {"connected", "failed"}
    /\ main' = main + 1
    /\ UNCHANGED <<world, launched, proc, bound, unaccepted, threads, system>>

\* accept itself fails, with or without a log in front of the port.  The constructor
\* catches that and returns: main goes on with a socket that is not connected.
AcceptFails(p) ==
    /\ CanFail
    /\ Constructing(p) /\ p \in bound
    /\ unaccepted' = unaccepted \cup {p}
    /\ main' = main + 1
    /\ UNCHANGED <<world, launched, proc, bound, threads, system>>

\* The constructor of a file connector truncates its file.
OpenFiles ==
    /\ Constructing("files")
    /\ main' = main + 1
    /\ UNCHANGED <<world, launched, proc, bound, unaccepted, threads, system>>

\* The constructor of a read connector catches a refusal and returns.
ConnectFeed(p) ==
    /\ Constructing(p)
    /\ \/ /\ proc[p] = "listening"
          /\ Become(p, "connected")
          /\ threads' = [threads EXCEPT ![p] = "reading"]
       \/ /\ proc[p] # "listening"
          /\ threads' = [threads EXCEPT ![p] = "unconnected"]
          /\ UNCHANGED proc
    /\ main' = main + 1
    /\ UNCHANGED <<world, launched, bound, unaccepted, system>>

\* Read ends on end of file, and at once on a socket that never connected.
ReadEnds_EofOnly(p) == threads[p] = "reading" /\ proc[p] = "done"  \* mutant
ReadEnds(p) == threads[p] = "unconnected" \/ proc[p] \in {"done", "failed"}

EndThread(p) ==
    /\ Running /\ ~Gone /\ threads[p] \in {"reading", "unconnected"}
    /\ ReadEnds(p)
    /\ threads' = [threads EXCEPT ![p] = "over"]
    /\ UNCHANGED <<world, launched, proc, main, bound, unaccepted, system>>

\* The feeds whose messages go on to a log.
PublishesTo == [marketdata |-> "executionlog", pricing |-> "streaminglog"]

\* A write to a log that is lost, or that was never accepted, ends the thread before
\* its feed has ended; the connection to the provider stays open, and nobody reads it.
Unwritable(log) == proc[log] = "failed" \/ log \in unaccepted

Throw(p) ==
    /\ Running /\ ~Gone /\ threads[p] = "reading"
    /\ p \in DOMAIN PublishesTo /\ Unwritable(PublishesTo[p])
    /\ threads' = [threads EXCEPT ![p] = "over"]
    /\ UNCHANGED <<world, launched, proc, main, bound, unaccepted, system>>

\* A line that does not parse throws what no thread catches.
Abort ==
    /\ CanFail
    /\ Running /\ ~Gone /\ \E p \in Providers : threads[p] = "reading"
    /\ system' = "aborted"
    /\ UNCHANGED <<world, launched, proc, main, bound, unaccepted, threads>>

\* main has joined its four threads.
End_AfterProviders ==                                               \* mutant
    /\ Running /\ ~Gone
    /\ \A p \in Providers : threads[p] = "over" /\ proc[p] # "connected"
    /\ system' = "ended"
    /\ UNCHANGED <<world, launched, proc, main, bound, unaccepted, threads>>
End ==
    /\ Running /\ ~Gone
    /\ \A p \in Providers : threads[p] = "over"
    /\ system' = "ended"
    /\ UNCHANGED <<world, launched, proc, main, bound, unaccepted, threads>>

Provider(p) == Listen(p) \/ FinishSending(p) \/ Disconnected(p)
Log(p)      == Connect(p) \/ FinishLogging(p)
System      == \/ \E p \in Logs : Bind(p) \/ Accept(p)
               \/ OpenFiles
               \/ \E p \in Providers : ConnectFeed(p) \/ EndThread(p)
               \/ End

Next == \/ Launch
        \/ \E p \in Providers : Provider(p) \/ FinishBuffered(p) \/ Fail(p)
        \/ \E p \in Logs : Log(p) \/ LogFails(p) \/ BindFails(p) \/ AcceptFails(p)
        \/ \E p \in Providers : Throw(p)
        \/ System \/ Abort

\* Every process that can take a step takes one, and the launcher goes on.
Spec == /\ Init /\ [][Next]_vars
        /\ WF_vars(Launch) /\ WF_vars(System)
        /\ \A p \in Providers : WF_vars(Provider(p))
        /\ \A p \in Logs : WF_vars(Log(p))

-----------------------------------------------------------------------------
(* Properties.                                                             *)

\* Each log has been connected, whatever became of it then, or main has given up
\* waiting for it.
LogsSettled ==
    \A log \in Logs : proc[log] \in {"connected", "failed", "done"} \/ log \in unaccepted

\* No feed is connected, and no message read, while a log is still to come: a log that
\* is missing then is one whose accept has failed.
FeedsAfterLogs == (\E p \in Providers : threads[p] # "none") => LogsSettled

Truncated == \E i \in 1 .. main - 1 : Connectors[i] = "files"

\* A trading system launched beside another one finds a port taken and aborts before
\* it has truncated the files, which are the other one's.
FilesKept == system = "aborted" /\ ~Running => ~Truncated

\* Once no log is still to come, neither the providers nor the logs can keep the
\* system from running, or from ending, whichever of them are lost and when.
EndsOnceLogsSettle == LogsSettled ~> Gone

\* No provider is left on its connection for ever, not even one that is blocked by
\* lines which a thread that has ended will never read.
NoProviderLeft == <>[](\A p \in Providers : proc[p] # "connected")

\* Launched in the order of setup.sh, and without a failure, the trading system starts.
Starts == ~mayFail => <>Running

\* Launched with care, and without a failure, every process of the system ends well.
AllEndWell ==
    patient /\ ~mayFail =>
        <>(system = "ended" /\ \A p \in Providers \cup Logs : proc[p] = "done")
=============================================================================
