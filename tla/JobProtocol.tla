----------------------------- MODULE JobProtocol -----------------------------
(***************************************************************************)
(* How one experiment's jobs travel between the control server and its     *)
(* workers: ControlServer's main thread (schedule, attach, send), its      *)
(* reader threads (one WorkerClientThread per connection), the web GUI's   *)
(* thread (cancel), and on every worker the Communicator's thread and the  *)
(* JobThread.  A connection is a pair of FIFO channels of whole messages;  *)
(* how messages are framed, and that PING, PONG and LOGGING travel on the  *)
(* same channels, is left out.  A job stands for its position in the       *)
(* experiment's list; unstartedJobs is the suffix that begins at `next'.   *)
(* The methods of the server that take no lock are taken step by step      *)
(* unless Timely: then whoever calls one has it done before anyone acts.   *)
(***************************************************************************)
EXTENDS Naturals, SequencesExt, JobState

CONSTANTS
    Workers,      \* the workers' names
    NoWorker,     \* null, where a worker is expected
    JobCount,     \* the number of jobs of the experiment
    Cancellable,  \* the jobs whose cancel link the user may follow
    MaxFaults,    \* how many connections break or workers crash, at most
    Timely        \* TRUE if nobody acts between two steps that follow at once

ASSUME JobProtocolAssumption ==
    /\ NoWorker \notin Workers
    /\ JobCount \in Nat
    /\ Cancellable \subseteq 1 .. JobCount
    /\ MaxFaults \in Nat
    /\ Timely \in BOOLEAN

Jobs == 1 .. JobCount
NoJob == 0

VARIABLES
    \* the control server
    csState,      \* CSJob.state
    observed,     \* the jobs that have the ControlServer among their observers
    jobWorker,    \* CSJob.worker
    wdState,      \* WorkerDescriptor.state
    wdJob,        \* WorkerDescriptor.job
    registered,   \* the workers the Scheduler's WorkerObserver observes
    unemployed,   \* Scheduler.unemployedWorkers
    next,         \* the first of Experiment.unstartedJobs
    main,         \* where ControlServer.run is between two schedule calls
    todo,         \* what a thread of the server has yet to do of the methods it is in
    connected,    \* the workers in ControlServer.workerMap
    linked,       \* those whose entry there has an open socket
    reading,      \* the workers whose WorkerClientThread is alive
    \* the channels
    toWorker, toServer,
    \* the workers
    actualJob,    \* Experimentor.actualJob
    actualThread, \* Experimentor.actualThread, as the job whose thread it is
    comm,         \* where the Communicator's thread is between two messages
    wkState,      \* WorkerJob.state
    wkObserved,   \* the jobs that have the Communicator among their observers
    host,         \* the worker process that started the job
    thread,       \* where the job's JobThread is
    outcome,      \* JobThread.run's local finalState
    stopping,     \* the jobs whose thread got stop(KillJobException), not raised yet
    faults        \* the number of faults so far

schedVars == <<registered, unemployed, next, main>>
csVars == <<csState, observed, jobWorker, wdState, wdJob, todo>>
linkVars == <<connected, linked, reading, faults>>
chanVars == <<toWorker, toServer>>
threadVars == <<host, thread, outcome, stopping>>
workerVars == <<actualJob, actualThread, comm, wkState, wkObserved, threadVars>>
vars == <<csVars, schedVars, linkVars, chanVars, workerVars>>

-----------------------------------------------------------------------------
(* Messages.  Only NEWJOB names a job, only STATECHANGE names a state.     *)

Kinds == {"NEWJOB", "CANCELJOB", "JOBACCEPTED", "JOBREFUSED", "JOBFINISHED", "STATECHANGE"}
Message == [kind : Kinds, job : Jobs \cup {NoJob}, state : JobStates]

Msg(k) == [kind |-> k, job |-> NoJob, state |-> "NEW"]
NewJob(j) == [kind |-> "NEWJOB", job |-> j, state |-> "NEW"]
StateChange(s) == [kind |-> "STATECHANGE", job |-> NoJob, state |-> s]

\* What a worker writes reaches the server only while a thread there reads it.
Send(w, m) ==
    toServer' = IF w \in reading THEN [toServer EXCEPT ![w] = Append(@, m)] ELSE toServer

\* What threads do: the main thread, the web GUI's, the WorkerClientThread of a
\* worker in its loop, and one that has left it (of several, one after another).
MainThread == <<"main", NoWorker>>
GuiThread == <<"gui", NoWorker>>
Reader(w) == <<"reader", w>>
Closer(w) == <<"closer", w>>
ServerThreads == {MainThread, GuiThread} \cup ({"reader", "closer"} \X Workers)

WorkerStates == {"unavailable", "unemployed", "employed"}

\* The steps of WorkerDescriptor.setJob and setState, and of the methods of
\* ControlServer, Scheduler and WorkerClientThread that are called with no lock.
Steps == {"setJob", "setState", "writeState", "notify", "update", "register", "start", "put",
          "leave", "drop", "unregister", "fail"}
Step == [step : Steps, worker : Workers, job : Jobs \cup {NoJob}, state : WorkerStates]

Do(k, w) == [step |-> k, worker |-> w, job |-> NoJob, state |-> "unavailable"]
WithJob(w, j) == [step |-> "setJob", worker |-> w, job |-> j, state |-> "unavailable"]
WithState(k, w, s) == [step |-> k, worker |-> w, job |-> NoJob, state |-> s]

\* The phases of a JobThread: inside run's try block, in its finally block
\* (before experimentFinished clears actualJob, before it clears actualThread,
\* before it sets the final state, before it notifies JOB_FINISHED), ended, or
\* ended by an exception that left the finally block half done.
TryPhases == {"ready", "parsing", "running", "metrics"}
FinallyPhases == {"finally", "clearing", "cleared", "reported"}
Phases == {"none"} \cup TryPhases \cup FinallyPhases \cup {"done", "died"}

TypeOK ==
    /\ csState \in [Jobs -> JobStates]
    /\ observed \subseteq Jobs
    /\ jobWorker \in [Jobs -> Workers \cup {NoWorker}]
    /\ wdState \in [Workers -> WorkerStates]
    /\ wdJob \in [Workers -> Jobs \cup {NoJob}]
    /\ registered \subseteq Workers
    /\ unemployed \subseteq Workers
    /\ next \in 1 .. JobCount + 1
    /\ main \in {"schedule", "check", "attach", "send"}
    /\ todo \in [ServerThreads -> Seq(Step)]
    /\ connected \subseteq Workers
    /\ linked \subseteq connected
    /\ reading \subseteq Workers
    /\ Timely => linked = connected /\ reading \subseteq connected /\ \A t \in ServerThreads : todo[t] = <<>>
    /\ toWorker \in [Workers -> Seq(Message)]
    /\ toServer \in [Workers -> Seq(Message)]
    /\ actualJob \in [Workers -> Jobs \cup {NoJob}]
    /\ actualThread \in [Workers -> Jobs \cup {NoJob}]
    /\ comm \in [Workers -> {"read", "start", "observe", "busy", "stop", "died"}]
    /\ wkState \in [Jobs -> JobStates]
    /\ wkObserved \subseteq Jobs
    /\ host \in [Jobs -> Workers \cup {NoWorker}]
    /\ thread \in [Jobs -> Phases]
    /\ outcome \in [Jobs -> FinalStates]
    /\ stopping \subseteq Jobs
    /\ faults \in 0 .. MaxFaults

\* The server has just started and knows the workers from earlier sessions;
\* the experiment's jobs have been added and it is the active one.
Init ==
    /\ csState = [j \in Jobs |-> "NEW"]
    /\ observed = {}
    /\ jobWorker = [j \in Jobs |-> NoWorker]
    /\ wdState = [w \in Workers |-> "unavailable"]
    /\ wdJob = [w \in Workers |-> NoJob]
    /\ registered = {}
    /\ unemployed = {}
    /\ next = 1
    /\ main = "schedule"
    /\ todo = [t \in ServerThreads |-> <<>>]
    /\ connected = {}
    /\ linked = {}
    /\ reading = {}
    /\ toWorker = [w \in Workers |-> <<>>]
    /\ toServer = [w \in Workers |-> <<>>]
    /\ actualJob = [w \in Workers |-> NoJob]
    /\ actualThread = [w \in Workers |-> NoJob]
    /\ comm = [w \in Workers |-> "read"]
    /\ wkState = [j \in Jobs |-> "NEW"]
    /\ wkObserved = {}
    /\ host = [j \in Jobs |-> NoWorker]
    /\ thread = [j \in Jobs |-> "none"]
    /\ outcome = [j \in Jobs |-> "FAILED"]
    /\ stopping = {}
    /\ faults = 0

\* Nothing is under way that takes no waiting: no message is in flight, the
\* main thread waits in accept, no Communicator and no JobThread is between
\* two calls of one method.  The server schedules every five seconds and a
\* user clicks more slowly still; Timely makes that an assumption.
Quiet ==
    /\ main = "schedule"
    /\ \A w \in Workers : toWorker[w] = <<>> /\ toServer[w] = <<>> /\ comm[w] \in {"read", "died"}
    /\ \A j \in Jobs : thread[j] \notin FinallyPhases /\ j \notin stopping

-----------------------------------------------------------------------------
(* Pieces of the control server's handlers.  Each is done by a thread t,     *)
(* which, unless Timely, is left with steps to do before those in rest.      *)

\* WorkerDescriptor.setJob.
SetJob(w, j) ==
    <<WithJob(w, j), WithState("setState", w, IF j = NoJob THEN "unemployed" ELSE "employed")>>

\* WorkerDescriptor.setJob(null) and setState(UNEMPLOYED), with the Scheduler's
\* WorkerObserver, which a change of state notifies.
FreeWorker(t, w, rest) ==
    IF Timely
    THEN /\ wdJob' = [wdJob EXCEPT ![w] = NoJob]
         /\ wdState' = [wdState EXCEPT ![w] = "unemployed"]
         /\ unemployed' = IF wdState[w] # "unemployed" /\ w \in registered
                          THEN unemployed \cup {w} ELSE unemployed
         /\ UNCHANGED todo
    ELSE /\ todo' = [todo EXCEPT ![t] =
                        SetJob(w, NoJob) \o <<WithState("setState", w, "unemployed")>> \o rest]
         /\ UNCHANGED <<wdJob, wdState, unemployed>>

\* Mutant of EmployWorker: the change of state notifies nobody.
EmployWorkerSilently(t, w, j) ==
    /\ wdJob' = [wdJob EXCEPT ![w] = j]
    /\ wdState' = [wdState EXCEPT ![w] = "employed"]
    /\ UNCHANGED <<unemployed, todo>>

\* WorkerDescriptor.setJob(job), likewise.
EmployWorker(t, w, j) ==
    IF Timely
    THEN /\ wdJob' = [wdJob EXCEPT ![w] = j]
         /\ wdState' = [wdState EXCEPT ![w] = "employed"]
         /\ unemployed' = IF wdState[w] # "employed" /\ w \in registered
                          THEN unemployed \ {w} ELSE unemployed
         /\ UNCHANGED todo
    ELSE /\ todo' = [todo EXCEPT ![t] = SetJob(w, j)]
         /\ UNCHANGED <<wdJob, wdState, unemployed>>

\* CSJob.setState(s) when it is accepted, with ControlServer.update, which a
\* change of state calls if the server observes the job: a final state frees
\* the job's worker, CANCELLING tells the worker to cancel.
SetJobState(t, j, s, rest) ==
    /\ csState' = [csState EXCEPT ![j] = s]
    /\ IF csState[j] # s /\ j \in observed /\ IsFinal(s)
       THEN FreeWorker(t, jobWorker[j], rest) /\ observed' = observed \ {j}
       ELSE /\ todo' = [todo EXCEPT ![t] = rest]
            /\ UNCHANGED <<wdJob, wdState, unemployed, observed>>
    /\ toWorker' = IF csState[j] # s /\ j \in observed /\ s = "CANCELLING"
                      /\ jobWorker[j] \in linked
                   THEN [toWorker EXCEPT ![jobWorker[j]] = Append(@, Msg("CANCELJOB"))]
                   ELSE toWorker

-----------------------------------------------------------------------------
(* The control server's main thread.                                       *)

\* Scheduler.schedule: the experiment's next unstarted job goes to some
\* unemployed worker (the first of a hash map).  An unstarted job that was
\* cancelled makes setState(SCHEDULED) throw; run logs that and goes on.
Schedule(w) ==
    /\ main = "schedule"
    /\ todo[MainThread] = <<>>
    /\ Timely => Quiet
    /\ w \in unemployed
    /\ next \in Jobs
    /\ SetStateAccepts(csState[next], "SCHEDULED")
    /\ csState' = [csState EXCEPT ![next] = "SCHEDULED"]
    /\ next' = next + 1
    /\ jobWorker' = [jobWorker EXCEPT ![next] = w]
    /\ EmployWorker(MainThread, w, next)
    /\ main' = "check"
    /\ UNCHANGED <<observed, registered, linkVars, chanVars, workerVars>>

\* The job that schedule has returned to run.
Scheduled == next - 1

\* run drops a job that has ended meanwhile.
Check ==
    /\ main = "check"
    /\ todo[MainThread] = <<>>
    /\ main' = IF IsFinal(csState[Scheduled]) THEN "schedule" ELSE "attach"
    /\ UNCHANGED <<csVars, registered, unemployed, next, linkVars, chanVars, workerVars>>

\* addObserver, and once more setJob.
Attach ==
    /\ main = "attach"
    /\ main' = "send"
    /\ observed' = observed \cup {Scheduled}
    /\ EmployWorker(MainThread, jobWorker[Scheduled], Scheduled)
    /\ UNCHANGED <<csState, jobWorker, registered, next, linkVars, chanVars, workerVars>>

\* Mutant of SendJob: a job that has not been accepted yet is sent once more.
SendJobAgain ==
    /\ main = "send"
    /\ main' = IF csState[Scheduled] = "SCHEDULED" THEN "attach" ELSE "schedule"
    /\ toWorker' = [toWorker EXCEPT ![jobWorker[Scheduled]] = Append(@, NewJob(Scheduled))]
    /\ UNCHANGED <<csVars, registered, unemployed, next, linkVars, toServer, workerVars>>

\* sendJob; without a thread for the worker it throws and run goes on; what it
\* writes to a closed socket is lost.
SendJob ==
    /\ main = "send"
    /\ todo[MainThread] = <<>>
    /\ main' = "schedule"
    /\ toWorker' = IF jobWorker[Scheduled] \in linked
                   THEN [toWorker EXCEPT ![jobWorker[Scheduled]] = Append(@, NewJob(Scheduled))]
                   ELSE toWorker
    /\ UNCHANGED <<csVars, registered, unemployed, next, linkVars, toServer, workerVars>>

-----------------------------------------------------------------------------
(* ControlServer.handleMessages, called by a WorkerClientThread, one at a    *)
(* time.  A message is about the job the descriptor holds when it is         *)
(* handled.  An exception ends the thread.                                   *)

\* addThread has started the WorkerClientThread of w's connection.
Started(w) == Do("start", w) \notin ToSet(todo[MainThread])

Receive(w, k) ==
    /\ w \in reading
    /\ Started(w)
    /\ \A v \in Workers : todo[Reader(v)] = <<>>
    /\ toServer[w] # <<>>
    /\ Head(toServer[w]).kind = k
    /\ toServer' = [toServer EXCEPT ![w] = Tail(@)]
    /\ UNCHANGED <<jobWorker, registered, next, main, connected, linked, faults, workerVars>>

UnchangedJobs == UNCHANGED <<csState, observed, wdState, wdJob, unemployed, toWorker, todo>>

HandleJobFinished(w) ==
    /\ Receive(w, "JOBFINISHED")
    /\ observed' = observed \ {wdJob[w]}
    /\ IF Timely \/ wdJob[w] # NoJob
       THEN FreeWorker(Reader(w), w, <<>>)
       ELSE /\ todo' = [todo EXCEPT ![Reader(w)] = <<WithState("setState", w, "unemployed")>>]
            /\ UNCHANGED <<wdJob, wdState, unemployed>>
    /\ UNCHANGED <<csState, reading, toWorker>>

\* An illegal transition is caught and ignored.
HandleStateChange(w) ==
    LET j == wdJob[w]
        s == Head(toServer[w]).state
    IN  /\ Receive(w, "STATECHANGE")
        /\ IF j # NoJob /\ SetStateAccepts(csState[j], s)
           THEN SetJobState(Reader(w), j, s, <<>>)
           ELSE UnchangedJobs
        /\ UNCHANGED reading

\* JOBACCEPTED and JOBREFUSED: an illegal transition is not caught.
HandleReply(w, k, s) ==
    LET j == wdJob[w]
    IN  /\ Receive(w, k)
        /\ IF j = NoJob
           THEN UnchangedJobs /\ UNCHANGED reading
           ELSE IF SetStateAccepts(csState[j], s)
                THEN SetJobState(Reader(w), j, s, <<>>) /\ UNCHANGED reading
                ELSE UnchangedJobs /\ reading' = reading \ {w}

\* Mutant of HandleJobAccepted: an acceptance leaves the job SCHEDULED.
HandleJobAcceptedAsSent(w) == HandleReply(w, "JOBACCEPTED", "SCHEDULED")

HandleJobAccepted(w) == HandleReply(w, "JOBACCEPTED", "INITIALIZING")
HandleJobRefused(w) == HandleReply(w, "JOBREFUSED", "NEW")

-----------------------------------------------------------------------------
(* The web GUI.                                                            *)

\* Mutant of Cancel: the server does not wait for the worker's confirmation.
CancelAtOnce(j) ==
    /\ j \in Cancellable
    /\ IsStateTransitionAllowed(csState[j], "CANCELLED")
    /\ Timely => Quiet
    /\ SetJobState(GuiThread, j, "CANCELLED", <<>>)
    /\ UNCHANGED <<jobWorker, registered, next, main, linkVars, toServer, workerVars>>

\* The job's cancel link, shown while the job is not final; killJob(job) goes
\* through the job's worker to whatever job that worker holds.
Cancel(j) ==
    /\ j \in Cancellable
    /\ ~ IsFinal(csState[j])
    /\ todo[GuiThread] = <<>>
    /\ Timely => Quiet
    /\ IF csState[j] = "NEW" \/ jobWorker[j] = NoWorker
       THEN SetJobState(GuiThread, j, "CANCELLED", <<>>)
       ELSE LET w == jobWorker[j]
                k == wdJob[w]
            IN  /\ wdState[w] = "employed"
                /\ k # NoJob
                /\ IsStateTransitionAllowed(csState[k], "CANCELLING")
                /\ SetJobState(GuiThread, k, "CANCELLING", <<>>)
    /\ UNCHANGED <<jobWorker, registered, next, main, linkVars, toServer, workerVars>>

-----------------------------------------------------------------------------
(* The worker: the Communicator's thread.                                  *)

Take(w, k) ==
    /\ comm[w] = "read"
    /\ toWorker[w] # <<>>
    /\ Head(toWorker[w]).kind = k
    /\ toWorker' = [toWorker EXCEPT ![w] = Tail(@)]
    /\ UNCHANGED <<csVars, schedVars, linkVars>>

\* Mutant of HandleNewJob: the worker does not ask whether it is busy.
HandleNewJobUnchecked(w) ==
    LET j == Head(toWorker[w]).job
    IN  /\ Take(w, "NEWJOB")
        /\ actualJob' = [actualJob EXCEPT ![w] = j]
        /\ host' = [host EXCEPT ![j] = w]
        /\ wkState' = [wkState EXCEPT ![j] = "INITIALIZING"]
        /\ actualThread' = [actualThread EXCEPT ![w] = j]
        /\ comm' = [comm EXCEPT ![w] = "start"]
        /\ Send(w, Msg("JOBACCEPTED"))
        /\ UNCHANGED <<wkObserved, thread, outcome, stopping>>

\* NEWJOB: parse the job and begin to start it (Experimentor.startJob up to
\* the announcement of JOB_STARTED) or refuse it.
HandleNewJob(w) ==
    LET j == Head(toWorker[w]).job
    IN  /\ Take(w, "NEWJOB")
        /\ IF actualJob[w] = NoJob
           THEN /\ actualJob' = [actualJob EXCEPT ![w] = j]
                /\ host' = [host EXCEPT ![j] = w]
                /\ wkState' = [wkState EXCEPT ![j] = "INITIALIZING"]
                /\ actualThread' = [actualThread EXCEPT ![w] = j]
                /\ comm' = [comm EXCEPT ![w] = "start"]
                /\ Send(w, Msg("JOBACCEPTED"))
           ELSE /\ Send(w, Msg("JOBREFUSED"))
                /\ UNCHANGED <<actualJob, actualThread, host, wkState, comm>>
        /\ UNCHANGED <<wkObserved, thread, outcome, stopping>>

\* actualThread.start(): a null pointer, answered by a message that the server
\* ignores, if the thread of the job before has cleared the field meanwhile.
StartThread(w) ==
    LET j == actualThread[w]
    IN  /\ comm[w] = "start"
        /\ IF j = NoJob
           THEN comm' = [comm EXCEPT ![w] = "read"] /\ UNCHANGED thread
           ELSE /\ comm' = [comm EXCEPT ![w] = "observe"]
                /\ thread' = [thread EXCEPT ![j] = "ready"]
        /\ UNCHANGED <<csVars, schedVars, linkVars, chanVars, actualJob, actualThread, wkState,
                       wkObserved, host, outcome, stopping>>

\* newJob.addObserver(this), after startJob has returned.
ObserveJob(w, j) ==
    /\ comm[w] = "observe"
    /\ host[j] = w
    /\ j \notin wkObserved
    /\ wkObserved' = wkObserved \cup {j}
    /\ comm' = [comm EXCEPT ![w] = "read"]
    /\ UNCHANGED <<csVars, schedVars, linkVars, chanVars, actualJob, actualThread, wkState, threadVars>>

\* Mutant of Report: only the result of a job is worth a message.
ReportResult(w, j, s) ==
    IF j \in wkObserved /\ IsFinal(s) THEN Send(w, StateChange(s)) ELSE UNCHANGED toServer

\* What a WorkerJob's change to state s tells the server.
Report(w, j, s) ==
    IF j \in wkObserved THEN Send(w, StateChange(s)) ELSE UNCHANGED toServer

\* CANCELJOB: Experimentor.killJob, which asks whether a job is being executed.
HandleCancelJob(w) ==
    /\ Take(w, "CANCELJOB")
    /\ comm' = [comm EXCEPT ![w] = IF actualJob[w] # NoJob THEN "busy" ELSE @]
    /\ UNCHANGED <<toServer, actualJob, actualThread, wkState, wkObserved, threadVars>>

\* It goes on to setState(CANCELLING): a null pointer, which ends the
\* Communicator's thread, if the job has been cleared meanwhile.
KillThread(w) ==
    LET j == actualJob[w]
    IN  /\ comm[w] = "busy"
        /\ CASE actualThread[w] = NoJob \/ (j # NoJob /\ IsFinal(wkState[j])) ->
                    comm' = [comm EXCEPT ![w] = "read"] /\ UNCHANGED <<wkState, toServer>>
             [] actualThread[w] # NoJob /\ j = NoJob ->
                    comm' = [comm EXCEPT ![w] = "died"] /\ UNCHANGED <<wkState, toServer>>
             [] OTHER ->
                    /\ comm' = [comm EXCEPT ![w] = "stop"]
                    /\ wkState' = [wkState EXCEPT ![j] = "CANCELLING"]
                    /\ IF wkState[j] # "CANCELLING" THEN Report(w, j, "CANCELLING")
                                                    ELSE UNCHANGED toServer
        /\ UNCHANGED <<csVars, schedVars, linkVars, toWorker, actualJob, actualThread, wkObserved,
                       threadVars>>

\* Mutant of StopThread: a job that has finished meanwhile is stopped as well.
StopThreadUnchecked(w) ==
    /\ comm[w] = "stop"
    /\ comm' = [comm EXCEPT ![w] = "read"]
    /\ stopping' = stopping \cup {actualThread[w]}
    /\ UNCHANGED <<csVars, schedVars, linkVars, chanVars, actualJob, actualThread, wkState,
                   wkObserved, host, thread, outcome>>

\* actualThread.stop(new KillJobException()): a null pointer as well, if the
\* thread has finished since.
StopThread(w) ==
    LET j == actualThread[w]
    IN  /\ comm[w] = "stop"
        /\ IF j = NoJob
           THEN comm' = [comm EXCEPT ![w] = "died"] /\ UNCHANGED stopping
           ELSE /\ comm' = [comm EXCEPT ![w] = "read"]
                /\ stopping' = IF thread[j] = "died" THEN stopping ELSE stopping \cup {j}
        /\ UNCHANGED <<csVars, schedVars, linkVars, chanVars, actualJob, actualThread, wkState,
                       wkObserved, host, thread, outcome>>

-----------------------------------------------------------------------------
(* The worker: JobThread.run.                                              *)

ThreadUnchanged == UNCHANGED <<csVars, schedVars, linkVars, toWorker, comm, wkObserved, host>>

\* The try block ends with outcome f; the finally block is next.
EndTry(j, f) ==
    /\ thread' = [thread EXCEPT ![j] = "finally"]
    /\ outcome' = [outcome EXCEPT ![j] = f]

\* job.setState(s) in the try block; an illegal transition ends the block.
Advance(j, from, s, to) ==
    /\ thread[j] = from
    /\ j \notin stopping
    /\ IF IsStateTransitionAllowed(wkState[j], s)
       THEN /\ wkState' = [wkState EXCEPT ![j] = s]
            /\ thread' = [thread EXCEPT ![j] = to]
            /\ Report(host[j], j, s)
            /\ UNCHANGED outcome
       ELSE EndTry(j, "FAILED") /\ UNCHANGED <<wkState, toServer>>
    /\ UNCHANGED <<actualJob, actualThread, stopping>>
    /\ ThreadUnchanged

\* The services are found and the input file downloaded: parse it.
StartParsing(j) == (Timely => j \in wkObserved) /\ Advance(j, "ready", "PARSING", "parsing")
StartRunning(j) == Advance(j, "parsing", "RUNNING", "running")
\* execute has returned and the meter holds a front.
StartMetrics(j) == Advance(j, "running", "CALCULATING_METRICS", "metrics")

\* execute has returned and there is no front or the job is being cancelled,
\* or the metric has been computed: SUCCESS.
Succeed(j) ==
    /\ thread[j] \in {"running", "metrics"}
    /\ j \notin stopping
    /\ EndTry(j, "SUCCESS")
    /\ UNCHANGED <<actualJob, actualThread, wkState, toServer, stopping>>
    /\ ThreadUnchanged

\* An exception of a service, the parser, the algorithm or the meter: FAILED.
Throw(j) ==
    /\ thread[j] \in TryPhases
    /\ Timely => j \in wkObserved
    /\ EndTry(j, "FAILED")
    /\ UNCHANGED <<actualJob, actualThread, wkState, toServer, stopping>>
    /\ ThreadUnchanged

\* The KillJobException is raised.  The try block catches it; in the finally
\* block nothing does.
RaiseKill(j) ==
    /\ j \in stopping
    /\ stopping' = stopping \ {j}
    /\ IF thread[j] \in TryPhases
       THEN EndTry(j, "CANCELLED")
       ELSE /\ thread' = [thread EXCEPT ![j] = IF @ = "done" THEN @ ELSE "died"]
            /\ UNCHANGED outcome
    /\ UNCHANGED <<actualJob, actualThread, wkState, toServer>>
    /\ ThreadUnchanged

\* Mutants of ClearJob: the job is not cleared; it is cleared and its end
\* announced before its result.
ClearJobForgotten(j) ==
    /\ thread[j] = "finally"
    /\ thread' = [thread EXCEPT ![j] = "clearing"]
    /\ UNCHANGED <<actualJob, actualThread, wkState, outcome, stopping, toServer>>
    /\ ThreadUnchanged

ClearJobAnnounced(j) ==
    /\ thread[j] = "finally"
    /\ actualJob' = [actualJob EXCEPT ![host[j]] = NoJob]
    /\ thread' = [thread EXCEPT ![j] = "clearing"]
    /\ Send(host[j], Msg("JOBFINISHED"))
    /\ UNCHANGED <<actualThread, wkState, outcome, stopping>>
    /\ ThreadUnchanged

\* Experimentor.experimentFinished, first part: the worker is free again.
ClearJob(j) ==
    /\ thread[j] = "finally"
    /\ actualJob' = [actualJob EXCEPT ![host[j]] = NoJob]
    /\ thread' = [thread EXCEPT ![j] = "clearing"]
    /\ UNCHANGED <<actualThread, wkState, outcome, stopping, toServer>>
    /\ ThreadUnchanged

\* Second part: actualThread, which may be the next job's by now.
ClearThread(j) ==
    /\ thread[j] = "clearing"
    /\ actualThread' = [actualThread EXCEPT ![host[j]] = NoJob]
    /\ thread' = [thread EXCEPT ![j] = "cleared"]
    /\ UNCHANGED <<actualJob, wkState, outcome, stopping, toServer>>
    /\ ThreadUnchanged

\* Third part: the final state.  An illegal transition escapes from run.
ReportOutcome(j) ==
    /\ thread[j] = "cleared"
    /\ IF IsStateTransitionAllowed(wkState[j], outcome[j])
       THEN /\ wkState' = [wkState EXCEPT ![j] = outcome[j]]
            /\ thread' = [thread EXCEPT ![j] = "reported"]
            /\ Report(host[j], j, outcome[j])
       ELSE /\ thread' = [thread EXCEPT ![j] = "died"]
            /\ UNCHANGED <<wkState, toServer>>
    /\ UNCHANGED <<actualJob, actualThread, outcome, stopping>>
    /\ ThreadUnchanged

\* Fourth part: JOB_FINISHED.
NotifyFinished(j) ==
    /\ thread[j] = "reported"
    /\ thread' = [thread EXCEPT ![j] = "done"]
    /\ Send(host[j], Msg("JOBFINISHED"))
    /\ UNCHANGED <<actualJob, actualThread, wkState, outcome, stopping>>
    /\ ThreadUnchanged

-----------------------------------------------------------------------------
(* Connections.                                                            *)

\* Communicator.connect, and ControlServer.handleConnection on the main thread.
\* The server may still think of a connection of the worker's that is lost.
Connect(w) ==
    /\ w \notin linked \cup reading
    /\ comm[w] = "read"
    /\ main = "schedule"
    /\ todo[MainThread] = <<>>
    /\ reading' = reading \cup {w}
    /\ IF Timely
       THEN /\ wdState' = [wdState EXCEPT ![w] = "unemployed"]
            /\ wdJob' = IF wdState[w] # "unemployed" THEN [wdJob EXCEPT ![w] = NoJob] ELSE wdJob
            /\ registered' = registered \cup {w}
            /\ unemployed' = unemployed \cup {w}
            /\ connected' = connected \cup {w} /\ linked' = linked \cup {w}
            /\ UNCHANGED todo
       ELSE /\ todo' = [todo EXCEPT ![MainThread] =
                           <<WithState("setState", w, "unemployed"), Do("register", w),
                             Do("start", w), Do("put", w)>>]
            /\ UNCHANGED <<wdState, wdJob, registered, unemployed, connected, linked>>
    /\ UNCHANGED <<csState, observed, jobWorker, next, main, faults, chanVars, workerVars>>

\* Mutant of Disconnect: the lost worker's job is made new instead of failed.
DisconnectRenewed(w) ==
    LET j == wdJob[w]
        renews == j # NoJob /\ ~ IsFinal(csState[j])
    IN  /\ connected' = connected \ {w} /\ linked' = linked \ {w}
        /\ reading' = reading \ {w}
        /\ registered' = registered \ {w}
        /\ csState' = IF renews THEN [csState EXCEPT ![j] = "NEW"] ELSE csState
        /\ jobWorker' = IF renews THEN [jobWorker EXCEPT ![j] = NoWorker] ELSE jobWorker
        /\ wdJob' = [wdJob EXCEPT ![w] = NoJob]
        /\ wdState' = [wdState EXCEPT ![w] = "unavailable"]
        /\ toWorker' = [toWorker EXCEPT ![w] = <<>>]
        /\ toServer' = [toServer EXCEPT ![w] = <<>>]
        /\ UNCHANGED <<observed, unemployed, next, main, todo>>

\* handleConnectionLoss or checkAttendance's timeout, if Timely: the connection
\* and what is in flight on it are gone, the worker is unregistered and its job
\* failed.  Only a live WorkerClientThread marks the descriptor unavailable.
Disconnect(w) ==
    LET j == wdJob[w]
        fails == j # NoJob /\ IsStateTransitionAllowed(csState[j], "FAILED")
        frees == fails /\ j \in observed
    IN  /\ connected' = connected \ {w} /\ linked' = linked \ {w}
        /\ reading' = reading \ {w}
        /\ registered' = registered \ {w}
        /\ csState' = IF fails THEN [csState EXCEPT ![j] = "FAILED"] ELSE csState
        /\ observed' = IF fails THEN observed \ {j} ELSE observed
        /\ wdJob' = IF frees THEN [wdJob EXCEPT ![w] = NoJob] ELSE wdJob
        /\ wdState' = [wdState EXCEPT ![w] = IF w \in reading THEN "unavailable"
                                             ELSE IF frees THEN "unemployed" ELSE @]
        /\ toWorker' = [toWorker EXCEPT ![w] = <<>>]
        /\ toServer' = [toServer EXCEPT ![w] = <<>>]
        /\ UNCHANGED <<jobWorker, unemployed, next, main, todo>>

\* A socket is closed: what is in flight is gone, and a WorkerClientThread that
\* reads from it will leave its loop and call handleConnectionLoss.
LeaveLoop(w) == IF w \in reading THEN <<Do("leave", w), Do("drop", w)>> ELSE <<>>

Close(w) ==
    /\ linked' = linked \ {w}
    /\ reading' = reading \ {w}
    /\ toWorker' = [toWorker EXCEPT ![w] = <<>>]
    /\ toServer' = [toServer EXCEPT ![w] = <<>>]

\* The connection breaks, the WorkerClientThread has yet to act on it.
Break(w) ==
    /\ Close(w)
    /\ todo' = [todo EXCEPT ![Closer(w)] = @ \o LeaveLoop(w)]
    /\ UNCHANGED <<csState, observed, jobWorker, wdState, wdJob, schedVars, connected>>

\* The connection breaks and its WorkerClientThread notices; the job goes on.
LoseConnection(w) ==
    /\ w \in reading
    /\ Started(w)
    /\ faults < MaxFaults
    /\ faults' = faults + 1
    /\ IF Timely THEN Disconnect(w) ELSE Break(w)
    /\ UNCHANGED workerVars

\* The worker's process ends and is started again.
CrashWorker(w) ==
    /\ w \in reading
    /\ Started(w)
    /\ faults < MaxFaults
    /\ faults' = faults + 1
    /\ IF Timely THEN Disconnect(w) ELSE Break(w)
    /\ actualJob' = [actualJob EXCEPT ![w] = NoJob]
    /\ actualThread' = [actualThread EXCEPT ![w] = NoJob]
    /\ comm' = [comm EXCEPT ![w] = "read"]
    /\ thread' = [j \in Jobs |-> IF host[j] = w /\ thread[j] # "done" THEN "died" ELSE thread[j]]
    /\ stopping' = {j \in stopping : host[j] # w}
    /\ host' = [j \in Jobs |-> IF host[j] = w THEN NoWorker ELSE host[j]]
    /\ UNCHANGED <<wkState, wkObserved, outcome>>

\* checkAttendance's timeout.  No PONG can come from a worker whose Communicator
\* has died, nor through a WorkerClientThread that has.
AttendanceTimeout(w) ==
    /\ w \in connected
    /\ wdState[w] # "unavailable"
    /\ main = "schedule"
    /\ todo[MainThread] = <<>>
    /\ w \notin reading \/ comm[w] = "died"
    /\ IF Timely THEN Disconnect(w)
       ELSE /\ Close(w)
            /\ connected' = connected \ {w}
            /\ todo' = [todo EXCEPT ![MainThread] = <<Do("unregister", w), Do("fail", w)>>,
                                    ![Closer(w)] = @ \o LeaveLoop(w)]
            /\ UNCHANGED <<csState, observed, jobWorker, wdState, wdJob, registered, unemployed, next,
                           main>>
    /\ UNCHANGED <<faults, workerVars>>

-----------------------------------------------------------------------------
(* The steps of the server's methods that take no lock, unless Timely.      *)

\* Thread t is about to take a step of kind k; it goes on with the others.
At(t, k) == todo[t] # <<>> /\ Head(todo[t]).step = k
Target(t) == Head(todo[t]).worker
GoOn(t, more) == todo' = [todo EXCEPT ![t] = more \o Tail(@)]

\* schedule holds the Scheduler's lock until it has employed the worker.
SchedulerIsFree(t) == t = MainThread \/ ~ (main = "check" /\ todo[MainThread] # <<>>)

WriteJob(t) ==
    /\ At(t, "setJob")
    /\ GoOn(t, <<>>)
    /\ wdJob' = [wdJob EXCEPT ![Target(t)] = Head(todo[t]).job]
    /\ UNCHANGED <<csState, observed, jobWorker, wdState, schedVars, linkVars, chanVars, workerVars>>

\* setState begins with a test, and clears the job of an unemployed worker.
SetState(t) ==
    LET w == Target(t)
        s == Head(todo[t]).state
    IN  /\ At(t, "setState")
        /\ GoOn(t, IF wdState[w] = s THEN <<>>
                   ELSE (IF s = "unemployed" THEN <<WithJob(w, NoJob)>> ELSE <<>>)
                            \o <<WithState("writeState", w, s), Do("notify", w)>>)
        /\ UNCHANGED <<csState, observed, jobWorker, wdState, wdJob, schedVars, linkVars, chanVars,
                       workerVars>>

WriteState(t) ==
    /\ At(t, "writeState")
    /\ GoOn(t, <<>>)
    /\ wdState' = [wdState EXCEPT ![Target(t)] = Head(todo[t]).state]
    /\ UNCHANGED <<csState, observed, jobWorker, wdJob, schedVars, linkVars, chanVars, workerVars>>

\* Observable.notifyObservers: who observes is looked up before they are told.
Notify(t) ==
    /\ At(t, "notify")
    /\ GoOn(t, IF Target(t) \in registered THEN <<Do("update", Target(t))>> ELSE <<>>)
    /\ UNCHANGED <<csState, observed, jobWorker, wdState, wdJob, schedVars, linkVars, chanVars,
                   workerVars>>

\* WorkerObserver.update.
Update(t) ==
    LET w == Target(t)
    IN  /\ At(t, "update")
        /\ SchedulerIsFree(t)
        /\ GoOn(t, <<>>)
        /\ unemployed' = CASE wdState[w] = "employed"   -> unemployed \ {w}
                           [] wdState[w] = "unemployed" -> unemployed \cup {w}
                           [] OTHER                     -> unemployed
        /\ UNCHANGED <<csState, observed, jobWorker, wdState, wdJob, registered, next, main, linkVars,
                       chanVars, workerVars>>

\* Scheduler.registerWorker and unregisterWorker.
Register(t) ==
    LET w == Target(t)
    IN  /\ At(t, "register")
        /\ SchedulerIsFree(t)
        /\ GoOn(t, <<>>)
        /\ registered' = registered \cup {w}
        /\ unemployed' = IF wdState[w] = "unemployed" THEN unemployed \cup {w} ELSE unemployed
        /\ UNCHANGED <<csState, observed, jobWorker, wdState, wdJob, next, main, linkVars, chanVars,
                       workerVars>>

Unregister(t) ==
    /\ At(t, "unregister")
    /\ SchedulerIsFree(t)
    /\ GoOn(t, <<>>)
    /\ registered' = registered \ {Target(t)}
    /\ UNCHANGED <<csState, observed, jobWorker, wdState, wdJob, unemployed, next, main, linkVars,
                   chanVars, workerVars>>

\* addThread starts the thread, then enters it into the map.
StartReader(t) ==
    /\ At(t, "start")
    /\ GoOn(t, <<>>)
    /\ UNCHANGED <<csState, observed, jobWorker, wdState, wdJob, schedVars, linkVars, chanVars,
                   workerVars>>

PutThread(t) ==
    /\ At(t, "put")
    /\ GoOn(t, <<>>)
    /\ connected' = connected \cup {Target(t)}
    /\ linked' = IF Target(t) \in reading THEN linked \cup {Target(t)} ELSE linked \ {Target(t)}
    /\ UNCHANGED <<csState, observed, jobWorker, wdState, wdJob, schedVars, reading, faults, chanVars,
                   workerVars>>

\* A WorkerClientThread leaves its loop once its last message has been handled.
Leave(t) ==
    /\ At(t, "leave")
    /\ todo[Reader(Target(t))] = <<>>
    /\ GoOn(t, <<>>)
    /\ UNCHANGED <<csState, observed, jobWorker, wdState, wdJob, schedVars, linkVars, chanVars,
                   workerVars>>

\* handleConnectionLoss: the worker's thread is closed and removed, whichever
\* that is by now.
Drop(t) ==
    LET w == Target(t)
        unavailable == WithState("setState", w, "unavailable")
    IN  /\ At(t, "drop")
        /\ IF w \in connected
           THEN /\ connected' = connected \ {w}
                /\ IF w \in linked
                   THEN /\ Close(w)
                        /\ todo' = [todo EXCEPT ![t] =
                                       <<Do("unregister", w), Do("fail", w), unavailable>> \o Tail(@)
                                           \o LeaveLoop(w)]
                   ELSE /\ GoOn(t, <<Do("unregister", w), Do("fail", w), unavailable>>)
                        /\ UNCHANGED <<linked, reading, chanVars>>
           ELSE /\ GoOn(t, <<unavailable>>)
                /\ UNCHANGED <<connected, linked, reading, chanVars>>
        /\ UNCHANGED <<csState, observed, jobWorker, wdState, wdJob, schedVars, faults, workerVars>>

\* Mutant of FailJob: the lost worker's job is made new instead of failed.
FailJobRenewed(t) ==
    LET j == wdJob[Target(t)]
        renews == j # NoJob /\ ~ IsFinal(csState[j])
    IN  /\ At(t, "fail")
        /\ GoOn(t, <<>>)
        /\ csState' = IF renews THEN [csState EXCEPT ![j] = "NEW"] ELSE csState
        /\ jobWorker' = IF renews THEN [jobWorker EXCEPT ![j] = NoWorker] ELSE jobWorker
        /\ UNCHANGED <<observed, wdState, wdJob, schedVars, linkVars, chanVars, workerVars>>

\* The lost worker's job fails; an illegal transition is caught.
FailJob(t) ==
    LET j == wdJob[Target(t)]
    IN  /\ At(t, "fail")
        /\ IF j # NoJob /\ SetStateAccepts(csState[j], "FAILED")
           THEN SetJobState(t, j, "FAILED", Tail(todo[t]))
           ELSE /\ GoOn(t, <<>>)
                /\ UNCHANGED <<csState, observed, wdState, wdJob, unemployed, toWorker>>
        /\ UNCHANGED <<jobWorker, registered, next, main, linkVars, toServer, workerVars>>

GoesOn(t) ==
    \/ WriteJob(t) \/ SetState(t) \/ WriteState(t) \/ Notify(t) \/ Update(t)
    \/ Register(t) \/ Unregister(t) \/ StartReader(t) \/ PutThread(t)
    \/ Leave(t) \/ Drop(t) \/ FailJob(t)

-----------------------------------------------------------------------------
ReaderThread(w) ==
    \/ HandleJobFinished(w)
    \/ HandleStateChange(w)
    \/ HandleJobAccepted(w)
    \/ HandleJobRefused(w)

Communicator(w) ==
    \/ HandleNewJob(w)
    \/ StartThread(w)
    \/ \E j \in Jobs : ObserveJob(w, j)
    \/ HandleCancelJob(w)
    \/ KillThread(w)
    \/ StopThread(w)

JobThread(j) ==
    \/ StartParsing(j)
    \/ StartRunning(j)
    \/ StartMetrics(j)
    \/ Succeed(j)
    \/ RaiseKill(j)
    \/ ClearJob(j)
    \/ ClearThread(j)
    \/ ReportOutcome(j)
    \/ NotifyFinished(j)

Main ==
    \/ \E w \in Workers : Schedule(w)
    \/ Check
    \/ Attach
    \/ SendJob

Next ==
    \/ Main
    \/ \E t \in ServerThreads : GoesOn(t)
    \/ \E w \in Workers : ReaderThread(w) \/ Communicator(w) \/ Connect(w) \/ AttendanceTimeout(w)
                          \/ LoseConnection(w) \/ CrashWorker(w)
    \/ \E j \in Jobs : JobThread(j) \/ Throw(j) \/ Cancel(j)

Spec == Init /\ [][Next]_vars

\* Every thread runs; that an algorithm throws, a user cancels or a connection
\* breaks is never owed.
Fairness ==
    /\ WF_vars(Main)
    /\ \A t \in ServerThreads : WF_vars(GoesOn(t))
    /\ \A w \in Workers : WF_vars(ReaderThread(w)) /\ WF_vars(Communicator(w)) /\ WF_vars(Connect(w))
                          /\ WF_vars(AttendanceTimeout(w))
    /\ \A j \in Jobs : WF_vars(JobThread(j))

FairSpec == Spec /\ Fairness

-----------------------------------------------------------------------------
(* Properties under every interleaving, cancellation and fault.            *)

\* Job j is on its way to worker w, at place i of the channel.
InFlight(j, w, i) ==
    /\ i \in 1 .. Len(toWorker[w])
    /\ toWorker[w][i].kind = "NEWJOB"
    /\ toWorker[w][i].job = j

\* A job is handed out at most once (sendJob, startJob): at most one NEWJOB for
\* it travels, none once a worker has started it, none before it is scheduled;
\* no refusal, reconnection or late message makes the server send it again.
HandedOutOnce ==
    \A j \in Jobs, w \in Workers : \A i \in 1 .. Len(toWorker[w]) :
        InFlight(j, w, i) =>
            /\ j < next
            /\ thread[j] = "none"
            /\ \A v \in Workers : \A k \in 1 .. Len(toWorker[v]) :
                   InFlight(j, v, k) => v = w /\ k = i

Executing(j) == thread[j] \in TryPhases \cup {"finally"}

\* A worker process never executes two jobs at once, however often the server
\* believes it to be free (the isBusy test of Communicator.handleMessages).
OneJobPerWorker ==
    \A j, k \in Jobs : Executing(j) /\ Executing(k) /\ host[j] = host[k] => j = k

\* A job that has ended keeps its result, whatever arrives late, is refused or
\* is misattributed afterwards.
ResultStays ==
    [][\A j \in Jobs : IsFinal(csState[j]) => csState'[j] = csState[j]]_vars

-----------------------------------------------------------------------------
(* Properties that need the pauses between the server's and the user's     *)
(* actions to be longer than what is under way (Timely); all but the first *)
(* also need that nothing breaks and nobody cancels.                       *)

\* A job the server records as cancelled is not executing anywhere: CANCELLED
\* is the worker's confirmation, and no message about another job, no lost
\* connection and no restart produces it early.
CancelledIsStopped ==
    \A j \in Jobs : csState[j] = "CANCELLED" => ~ Executing(j)

\* Whenever nothing is under way, the server and the worker that ran a job
\* agree on its state (STATECHANGE, JOBACCEPTED).
AgreementWhenQuiet ==
    Quiet => \A j \in Jobs : j < next => csState[j] = wkState[j]

\* Whenever nothing is under way, a connected worker is employed exactly if it
\* executes a job, and the job is the one the server thinks of.
EmployedWhenBusy ==
    Quiet => \A w \in connected :
                 /\ wdState[w] = "employed" <=> actualJob[w] # NoJob
                 /\ wdState[w] = "employed" => wdJob[w] = actualJob[w]

\* "This should never be thrown at this point": a STATECHANGE about to be
\* handled is legal for the job it will be applied to.
StateChangesLegal ==
    \A w \in reading :
        toServer[w] # <<>> /\ Head(toServer[w]).kind = "STATECHANGE" /\ wdJob[w] # NoJob
            => SetStateAccepts(csState[wdJob[w]], Head(toServer[w]).state)

\* "The state is already set by a separate statechange message": when a
\* JOBFINISHED is about to be handled the worker's job has ended.
EndedBeforeFinished ==
    \A w \in reading :
        toServer[w] # <<>> /\ Head(toServer[w]).kind = "JOBFINISHED" /\ wdJob[w] # NoJob
            => IsFinal(csState[wdJob[w]])

-----------------------------------------------------------------------------
(* The promise of JobLife, as the server's records show it: a job is handed *)
(* out when Scheduler.schedule gives it a worker, and ends when its state   *)
(* does.                                                                    *)

lifeOfJobs ==
    [j \in Jobs |-> IF IsFinal(csState[j]) THEN "ended"
                    ELSE IF jobWorker[j] = NoWorker THEN "waiting" ELSE "handed"]

resultOfJobs == [j \in Jobs |-> IF IsFinal(csState[j]) THEN csState[j] ELSE "NEW"]

Life == INSTANCE JobLife WITH Exclusive <- FALSE, life <- lifeOfJobs,
                              owner <- jobWorker, result <- resultOfJobs

TimelyLife == INSTANCE JobLife WITH Exclusive <- TRUE, life <- lifeOfJobs,
                                    owner <- jobWorker, result <- resultOfJobs

\* Under every interleaving, cancellation and fault the protocol implements
\* JobLife: no job is handed out a second time, out of order or after its end,
\* changes its worker or its result, or ends without having been handed out
\* unless the user cancelled it.
ImplementsLife == Life!Spec

\* If the pauses are long enough (Timely) and nothing fails, it implements the
\* exclusive JobLife and its fairness: an idle worker is put to use while a job
\* waits, but never while the server has an open job with it, and every job ends.
ImplementsTimelyLife == TimelyLife!FairSpec

-----------------------------------------------------------------------------
(* What comments say and the code does not do.                             *)

\* SUCCESS says "that the job has been run successfully": the server records it
\* only of a job that a worker has run successfully.
NoFalseSuccess ==
    \A j \in Jobs : csState[j] = "SUCCESS" => wkState[j] = "SUCCESS"

=============================================================================
