------------------------- MODULE ExperimentScheduler -------------------------
(***************************************************************************)
(* Several experiments share the workers: Experiment (its state, its three *)
(* lists of jobs, the JobObserver that keeps them) and Scheduler (queue,   *)
(* activeExperiments, waitingForWorkers, schedule).  Workers are           *)
(* registered throughout; a worker that is lost and comes back is one      *)
(* whose job fails and that still executes it.  What the workers report of *)
(* the job the server takes them to have is any sequence of states that    *)
(* this job accepts, whichever job it is about; what they refuse, and that *)
(* they have finished, may come late.  The server may crash and start      *)
(* again: what it then knows is what the database holds.  Pausing an       *)
(* experiment has no entry point in the program and is left out.           *)
(***************************************************************************)
EXTENDS FiniteSets, Integers, SequencesExt, JobState

CONSTANTS
    Experiments,
    JobCount,      \* the number of jobs of every experiment
    Workers,
    None,          \* null
    Priority,      \* Experiment.priority, set when it is created
    Assignments,   \* Experiment.assignedWorkers at the start: one of these
    UserMay,       \* what the user may do beside starting experiments
    Reported,      \* the states that workers report of jobs
    MaxRestarts,   \* how often the server crashes, at most
    MaxListed      \* how often a job enters runningJobs, at most

Jobs == Experiments \X (1 .. JobCount)
JobsOf(e) == {e} \X (1 .. JobCount)
ExperimentOf(j) == j[1]

ASSUME ExperimentSchedulerAssumption ==
    /\ IsFiniteSet(Workers) /\ None \notin Workers
    /\ None \notin Experiments \cup Jobs \cup JobStates \cup {"write"}
    /\ JobCount \in Nat \ {0}
    /\ Priority \in [Experiments -> Nat]
    /\ Assignments \subseteq [Experiments -> SUBSET Workers]
    /\ UserMay \subseteq {"cancelJob", "cancelExperiment", "removeJob", "reassign"}
    /\ Reported \subseteq JobStates \ {"NEW", "SCHEDULED"}
    /\ MaxRestarts \in Nat
    /\ MaxListed \in Nat

FinishStates == {"cancelled", "partial success", "success", "failed"}
ExperimentStates == FinishStates \cup {"new", "ready", "active", "waiting", "cancelling"}

VARIABLES
    \* Experiment
    expState,     \* state
    assigned,     \* assignedWorkers
    unstarted,    \* unstartedJobs
    running,      \* runningJobs
    finished,     \* finishedJobs
    begun,        \* scheduled_count or initialized_count is not 0
    uncounted,    \* the jobs in finishedJobs that no counter has counted
    \* Scheduler
    known,        \* experiments, and the Experiments it observes
    queue,        \* queue
    active,       \* activeExperiments
    waitingFor,   \* waitingForWorkers
    unemployed,   \* unemployedWorkers
    scheduling,   \* schedule has called itself again and holds the lock
    \* CSJob and WorkerDescriptor
    jobState, jobWorker, wdJob,
    pending,      \* what setState has yet to do: announce a state to the
                  \* JobObserver, or write it
    observed,     \* the jobs that the ControlServer observes
    busy,         \* the workers from which the JOBFINISHED of a job that is not
                  \* theirs any more may still come, and which may execute it
    \* The database; an experiment's state is written when it is set.
    stored,         \* the state of a job
    storedWorker,   \* the worker of a job
    storedAssigned, \* the workers assigned to an experiment
    restarts

expVars == <<expState, assigned, unstarted, running, finished, begun, uncounted>>
schedulerVars == <<known, queue, active, waitingFor, unemployed, scheduling>>
jobVars == <<jobState, jobWorker, wdJob, pending, observed, busy>>
dbVars == <<stored, storedWorker, storedAssigned, restarts>>
vars == <<expVars, schedulerVars, jobVars, dbVars>>

TypeOK ==
    /\ expState \in [Experiments -> ExperimentStates]
    /\ assigned \in [Experiments -> SUBSET Workers]
    /\ unstarted \in [Experiments -> Seq(Jobs)] /\ running \in [Experiments -> Seq(Jobs)]
    /\ finished \in [Experiments -> SUBSET Jobs]
    /\ \A e \in Experiments : unstarted[e] \in Seq(JobsOf(e)) /\ running[e] \in Seq(JobsOf(e))
    /\ \A e \in Experiments : finished[e] \subseteq JobsOf(e)
    /\ begun \in [Experiments -> BOOLEAN]
    /\ known \subseteq Experiments
    /\ queue \subseteq known
    /\ active \in Seq(known)
    /\ waitingFor \in [Workers -> known \cup {None}]
    /\ unemployed \subseteq Workers
    /\ scheduling \in BOOLEAN
    /\ jobState \in [Jobs -> JobStates]
    /\ jobWorker \in [Jobs -> Workers \cup {None}]
    /\ wdJob \in [Workers -> Jobs \cup {None}]
    /\ pending \in [Jobs -> JobStates \cup {None, "write"}]
    /\ uncounted \subseteq Jobs /\ observed \subseteq Jobs
    /\ busy \subseteq Workers
    /\ stored \in [Jobs -> JobStates]
    /\ storedWorker \in [Jobs -> Workers \cup {None}]
    /\ storedAssigned \in [Experiments -> SUBSET Workers]
    /\ restarts \in 0 .. MaxRestarts

\* Every experiment has been created and given its jobs and workers.
Init ==
    /\ expState = [e \in Experiments |-> "new"]
    /\ assigned \in Assignments
    /\ unstarted = [e \in Experiments |-> [i \in 1 .. JobCount |-> <<e, i>>]]
    /\ running = [e \in Experiments |-> <<>>]
    /\ finished = [e \in Experiments |-> {}]
    /\ begun = [e \in Experiments |-> FALSE]
    /\ known = {}
    /\ queue = {}
    /\ active = <<>>
    /\ waitingFor = [w \in Workers |-> None]
    /\ unemployed = Workers
    /\ scheduling = FALSE
    /\ jobState = [j \in Jobs |-> "NEW"]
    /\ jobWorker = [j \in Jobs |-> None]
    /\ wdJob = [w \in Workers |-> None]
    /\ pending = [j \in Jobs |-> None]
    /\ uncounted = {} /\ observed = {} /\ busy = {}
    /\ stored = jobState
    /\ storedWorker = jobWorker
    /\ storedAssigned = assigned
    /\ restarts = 0

\* The states of jobs in the database are only read after a crash: without
\* crashes they are not kept, and writing one is not a step.
Written(states) == IF MaxRestarts = 0 THEN stored ELSE states

-----------------------------------------------------------------------------
(* Experiment.                                                             *)

\* getNextJob.
NextJob(e) == IF unstarted[e] = <<>> THEN None ELSE Head(unstarted[e])

\* setState with the Scheduler's ExperimentObserver, which observes the
\* experiments it knows: an experiment that becomes active leaves the queue and
\* goes to the front; one that is finished is no longer waited for.  What the
\* observer removes from activeExperiments is the name, which is never in it.
SetExperimentState(e, s) ==
    /\ expState' = [expState EXCEPT ![e] = s]
    /\ IF expState[e] # s /\ e \in known /\ s = "active"
       THEN queue' = queue \ {e} /\ active' = <<e>> \o active
       ELSE UNCHANGED <<queue, active>>
    /\ waitingFor' = IF expState[e] # s /\ e \in known /\ s \in FinishStates
                     THEN [w \in Workers |-> IF waitingFor[w] = e THEN None ELSE waitingFor[w]]
                     ELSE waitingFor

\* The counter for state s: the number of jobs of f that ended in it since the
\* server was started.
Count(f, s) == Cardinality({j \in f \ uncounted : jobState[j] = s})

\* Mutant of Outcome: one successful job is enough.
OutcomeOfAny(e, f) == IF Count(f, "SUCCESS") > 0 THEN "success" ELSE "failed"

\* How successful an experiment was whose jobs f have all finished.
Outcome(e, f) ==
    LET significant == JobCount - Count(f, "CANCELLED") - Count(f, "ABORTED")
    IN  CASE expState[e] = "cancelling" \/ Count(f, "CANCELLED") = JobCount -> "cancelled"
          [] OTHER -> CASE Count(f, "FAILED") = significant -> "failed"
                        [] OTHER -> IF Count(f, "SUCCESS") = significant THEN "success"
                                                                         ELSE "partial success"

\* Mutants of ObserveJobState: a job waits until its worker has accepted it; an
\* experiment is taken to have finished once nothing of it is waiting or running.
ObserveWith(j, s, starts, over(_)) ==
    LET e == ExperimentOf(j)
    IN  /\ finished' = IF IsFinal(s) THEN [finished EXCEPT ![e] = @ \cup {j}] ELSE finished
        /\ running' = CASE IsFinal(s)    -> [running EXCEPT ![e] = RemoveFirst(@, j)]
                        [] s = "RUNNING" -> [running EXCEPT ![e] = Append(@, j)]
                        [] OTHER         -> running
        /\ unstarted' = IF s = starts THEN [unstarted EXCEPT ![e] = RemoveFirst(@, j)] ELSE unstarted
        /\ begun' = [begun EXCEPT ![e] = @ \/ s \in {"SCHEDULED", "INITIALIZING"}]
        /\ SetExperimentState(e, IF over(e) THEN Outcome(e, finished'[e])
                                 ELSE IF running'[e] = <<>> /\ ~ begun'[e] THEN "waiting" ELSE "active")
        /\ UNCHANGED <<assigned, uncounted>>

AllFinished(e) == Cardinality(finished'[e]) = JobCount
NothingLeft(e) == running'[e] = <<>> /\ unstarted'[e] = <<>>

ObserveStartingLate(j, s) == ObserveWith(j, s, "INITIALIZING", AllFinished)
ObserveEndingEarly(j, s) == ObserveWith(j, s, "SCHEDULED", NothingLeft)

\* JobObserver.update(job, s).
ObserveJobState(j, s) ==
    LET e == ExperimentOf(j)
    IN  /\ finished' = IF IsFinal(s) THEN [finished EXCEPT ![e] = @ \cup {j}] ELSE finished
        /\ running' = CASE IsFinal(s)    -> [running EXCEPT ![e] = RemoveFirst(@, j)]
                        [] s = "RUNNING" -> [running EXCEPT ![e] = Append(@, j)]
                        [] OTHER         -> running
        /\ unstarted' = IF s = "SCHEDULED" THEN [unstarted EXCEPT ![e] = RemoveFirst(@, j)] ELSE unstarted
        /\ begun' = [begun EXCEPT ![e] = @ \/ s \in {"SCHEDULED", "INITIALIZING"}]
        /\ SetExperimentState(e,
               IF Cardinality(finished'[e]) = JobCount THEN Outcome(e, finished'[e])
               ELSE IF running'[e] = <<>> /\ ~ begun'[e] THEN "waiting" ELSE "active")
        /\ UNCHANGED <<assigned, uncounted>>

-----------------------------------------------------------------------------
(* Scheduler.schedule, on the ControlServer's main thread.  A call that     *)
(* starts an experiment calls itself again without releasing the lock.      *)

\* The unemployed workers an experiment waits for; any may come first.
Awaited == {w \in unemployed : waitingFor[w] # None}

\* Mutant of Considers: any worker will do for the first experiment.
ConsidersAnyone(e, w) ==
    /\ active # <<>>
    /\ w \in unemployed
    /\ IF Awaited # {} THEN w \in Awaited /\ e = waitingFor[w] ELSE e = Head(active)

\* The experiment e and the worker w that schedule considers, if active is not
\* empty and someone is unemployed.
Considers(e, w) ==
    /\ active # <<>>
    /\ w \in unemployed
    /\ IF Awaited # {} THEN w \in Awaited /\ e = waitingFor[w]
                       ELSE e = Head(active) /\ assigned[e] = {}

\* The job it finds for w, or null.
Finds(e, w) == Considers(e, w) /\ NextJob(e) # None

FindsNothing ==
    /\ unemployed # {}
    /\ \/ active = <<>>
       \/ \E e \in known, w \in unemployed : Considers(e, w) /\ NextJob(e) = None
       \/ active # <<>> /\ Awaited = {} /\ assigned[Head(active)] # {}

MostUrgent == {e \in queue : \A f \in queue : Priority[e] <= Priority[f]}

\* The job is given to the worker, in state SCHEDULED.
HandOut(e, w) ==
    LET j == NextJob(e)
    IN  /\ Finds(e, w)
        /\ pending[j] = None
        /\ SetStateAccepts(jobState[j], "SCHEDULED")
        /\ jobState' = [jobState EXCEPT ![j] = "SCHEDULED"]
        /\ ObserveJobState(j, "SCHEDULED")
        /\ jobWorker' = [jobWorker EXCEPT ![j] = w]
        /\ wdJob' = [wdJob EXCEPT ![w] = j]
        /\ unemployed' = unemployed \ {w}
        /\ observed' = observed \cup {j}
        /\ stored' = Written([stored EXCEPT ![j] = "SCHEDULED"])
        /\ storedWorker' = [storedWorker EXCEPT ![j] = w]
        /\ scheduling' = FALSE
        /\ UNCHANGED <<known, pending, busy, storedAssigned, restarts>>

\* The job does not accept SCHEDULED: schedule throws, nothing has changed.
ScheduleThrows(e, w) ==
    /\ Finds(e, w)
    /\ pending[NextJob(e)] = None
    /\ ~ SetStateAccepts(jobState[NextJob(e)], "SCHEDULED")
    /\ scheduling' = FALSE
    /\ UNCHANGED <<expVars, known, queue, active, waitingFor, unemployed, jobVars, dbVars>>

\* Mutant of StartNext: the experiment goes to the end of activeExperiments.
StartNextBehind(e) ==
    /\ FindsNothing
    /\ e \in MostUrgent
    /\ expState' = [expState EXCEPT ![e] = "active"]
    /\ queue' = queue \ {e}
    /\ active' = Append(active, e)
    /\ waitingFor' = [w \in Workers |-> IF w \in assigned[e] THEN e ELSE waitingFor[w]]
    /\ scheduling' = TRUE
    /\ UNCHANGED <<assigned, unstarted, running, finished, begun, uncounted, known, unemployed,
                   jobVars, dbVars>>

\* No job is found: the most urgent experiment of the queue is started and its
\* workers are waited for, in place of whoever waited for them.
StartNext(e) ==
    /\ FindsNothing
    /\ e \in MostUrgent
    /\ expState' = [expState EXCEPT ![e] = "active"]
    /\ queue' = queue \ {e}
    /\ active' = IF expState[e] # "active" THEN <<e>> \o active ELSE active
    /\ waitingFor' = [w \in Workers |-> IF w \in assigned[e] THEN e ELSE waitingFor[w]]
    /\ scheduling' = TRUE
    /\ UNCHANGED <<assigned, unstarted, running, finished, begun, uncounted, known, unemployed,
                   jobVars, dbVars>>

\* ... or the queue is empty.
GiveUp ==
    /\ scheduling
    /\ FindsNothing
    /\ queue = {}
    /\ scheduling' = FALSE
    /\ UNCHANGED <<expVars, known, queue, active, waitingFor, unemployed, jobVars, dbVars>>

-----------------------------------------------------------------------------
(* Jobs change state.  CSJob.setState holds the job's lock until every      *)
(* observer has returned; the ControlServer comes first and frees the       *)
(* worker of a job that has ended, the experiment's JobObserver last; then  *)
(* the state is written to the database.                                    *)

SetJobState(j, s) ==
    /\ ~ scheduling
    /\ pending[j] = None
    /\ jobState[j] # s
    /\ IsStateTransitionAllowed(jobState[j], s)
    /\ jobState' = [jobState EXCEPT ![j] = s]
    /\ pending' = [pending EXCEPT ![j] = s]
    /\ IF IsFinal(s) /\ j \in observed
       THEN /\ wdJob' = [wdJob EXCEPT ![jobWorker[j]] = None]
            /\ unemployed' = unemployed \cup {jobWorker[j]}
            /\ observed' = observed \ {j}
       ELSE UNCHANGED <<wdJob, unemployed, observed>>
    /\ UNCHANGED <<expVars, known, queue, active, waitingFor, scheduling, jobWorker, dbVars>>

\* How often job j is in runningJobs.
Listed(j) == Cardinality({i \in DOMAIN running[ExperimentOf(j)] : running[ExperimentOf(j)][i] = j})

\* What a worker reports goes to its job (STATECHANGE, JOBACCEPTED), which also
\* fails if the worker is lost.
WorkerReports(w, s) ==
    /\ wdJob[w] # None
    /\ s \in Reported
    /\ s = "RUNNING" => Listed(wdJob[w]) < MaxListed
    /\ SetJobState(wdJob[w], s)
    /\ busy' = IF IsFinal(s) THEN busy \cup {w} ELSE busy

\* A worker that still executes another job refuses the new one (JOBREFUSED).
WorkerRefuses(w) ==
    /\ w \in busy
    /\ wdJob[w] # None
    /\ jobState[wdJob[w]] = "SCHEDULED"
    /\ SetJobState(wdJob[w], "NEW")
    /\ busy' = busy

\* It reports that a job has finished (JOBFINISHED): the server takes the worker
\* to be free of whatever job it has by now.  More than one may be under way.
JobFinished(w) ==
    /\ ~ scheduling
    /\ w \in busy
    /\ busy' \in {busy, busy \ {w}}
    /\ observed' = observed \ {wdJob[w]}
    /\ wdJob' = [wdJob EXCEPT ![w] = None]
    /\ unemployed' = unemployed \cup {w}
    /\ UNCHANGED <<expVars, known, queue, active, waitingFor, scheduling, jobState, jobWorker,
                   pending, dbVars>>

\* The JobObserver is called; it is left to write the state.
Announce(j) ==
    /\ ~ scheduling
    /\ pending[j] \in JobStates
    /\ ObserveJobState(j, pending[j])
    /\ pending' = [pending EXCEPT ![j] = IF MaxRestarts = 0 THEN None ELSE "write"]
    /\ UNCHANGED <<known, unemployed, scheduling, jobState, jobWorker, wdJob, observed, busy, dbVars>>

\* Mutant of Write: the state of the job does not reach the database.
WriteNothing(j) ==
    /\ pending[j] = "write"
    /\ pending' = [pending EXCEPT ![j] = None]
    /\ UNCHANGED <<expVars, schedulerVars, jobState, jobWorker, wdJob, observed, busy, dbVars>>

\* CSJob.setState writes the new state and returns.
Write(j) ==
    /\ pending[j] = "write"
    /\ pending' = [pending EXCEPT ![j] = None]
    /\ stored' = [stored EXCEPT ![j] = jobState[j]]
    /\ UNCHANGED <<expVars, schedulerVars, jobState, jobWorker, wdJob, observed, busy,
                   storedWorker, storedAssigned, restarts>>

-----------------------------------------------------------------------------
(* The server crashes and is started again.  The experiments are loaded when *)
(* the class Experiment is first used, which may be before the workers are:  *)
(* those not yet known are left out.  READY is never written.                *)

\* Jobs of one experiment in the order of their numbers.
InOrder(js) ==
    CHOOSE s \in [1 .. Cardinality(js) -> js] : \A i, k \in DOMAIN s : i < k => s[i][2] < s[k][2]

\* loadJobs: the jobs of e whose state in the database is in S.
Load(e, S) == InOrder({j \in JobsOf(e) : stored[j] \in S})

\* Mutant of Restart: experiments that have not finished may be started again,
\* with the jobs that have not ended.
RestartAgain(knownWorkers) ==
    LET again == {e \in Experiments : expState[e] \notin FinishStates}
    IN  /\ restarts < MaxRestarts
        /\ restarts' = restarts + 1
        /\ expState' = [e \in Experiments |-> IF e \in again THEN "new" ELSE expState[e]]
        /\ assigned' = [e \in Experiments |-> storedAssigned[e] \cap knownWorkers]
        /\ jobState' = [j \in Jobs |-> IF IsFinal(stored[j]) THEN stored[j] ELSE "NEW"]
        /\ unstarted' = [e \in Experiments |-> Load(e, JobStates \ FinalStates)]
        /\ running' = [e \in Experiments |-> <<>>]
        /\ finished' = [e \in Experiments |-> ToSet(Load(e, FinalStates))]
        /\ begun' = [e \in Experiments |-> FALSE]
        /\ uncounted' = {j \in Jobs : IsFinal(stored[j])}
        /\ jobWorker' = storedWorker
        /\ known' = {} /\ queue' = {} /\ active' = <<>> /\ scheduling' = FALSE
        /\ waitingFor' = [w \in Workers |-> None]
        /\ unemployed' = Workers
        /\ wdJob' = [w \in Workers |-> None]
        /\ pending' = [j \in Jobs |-> None]
        /\ observed' = {}
        /\ busy' = busy \cup {w \in Workers : wdJob[w] # None}
        /\ UNCHANGED <<stored, storedWorker, storedAssigned>>

Restart(knownWorkers) ==
    /\ restarts < MaxRestarts
    /\ restarts' = restarts + 1
    /\ expState' = [e \in Experiments |-> IF expState[e] = "ready" THEN "new" ELSE expState[e]]
    /\ assigned' = [e \in Experiments |-> storedAssigned[e] \cap knownWorkers]
    /\ jobState' = stored
    /\ jobWorker' = [j \in Jobs |-> IF storedWorker[j] \in knownWorkers THEN storedWorker[j] ELSE None]
    /\ unstarted' = [e \in Experiments |-> Load(e, {"NEW"})]
    /\ running' = [e \in Experiments |-> Load(e, JobStates \ (FinalStates \cup {"NEW"}))]
    /\ finished' = [e \in Experiments |-> ToSet(Load(e, FinalStates))]
    /\ begun' = [e \in Experiments |-> FALSE]
    /\ uncounted' = {j \in Jobs : IsFinal(stored[j])}
    /\ known' = {} /\ queue' = {} /\ active' = <<>> /\ scheduling' = FALSE
    /\ waitingFor' = [w \in Workers |-> None]
    /\ unemployed' = Workers
    /\ wdJob' = [w \in Workers |-> None]
    /\ pending' = [j \in Jobs |-> None]
    /\ observed' = {}
    /\ busy' = busy \cup {w \in Workers : wdJob[w] # None}
    /\ UNCHANGED <<stored, storedWorker, storedAssigned>>

-----------------------------------------------------------------------------
(* The web GUI.                                                            *)

\* Mutant of AddExperiment: the map of known experiments is forgotten.
AddExperimentUnknown(e) ==
    /\ ~ scheduling
    /\ e \notin known
    /\ expState[e] = "new"
    /\ expState' = [expState EXCEPT ![e] = "ready"]
    /\ queue' = queue \cup {e}
    /\ UNCHANGED <<assigned, unstarted, running, finished, begun, uncounted, known, active,
                   waitingFor, unemployed, scheduling, jobVars, dbVars>>

\* The start link: Scheduler.addExperiment.
AddExperiment(e) ==
    /\ ~ scheduling
    /\ e \notin known
    /\ expState[e] = "new"
    /\ expState' = [expState EXCEPT ![e] = "ready"]
    /\ known' = known \cup {e}
    /\ queue' = queue \cup {e}
    /\ UNCHANGED <<assigned, unstarted, running, finished, begun, uncounted, active, waitingFor,
                   unemployed, scheduling, jobVars, dbVars>>

\* The job's cancel link: ControlServer.killJob(job).
CancelJob(j) ==
    /\ "cancelJob" \in UserMay
    /\ expState[ExperimentOf(j)] # "new"
    /\ ~ IsFinal(jobState[j])
    /\ IF jobState[j] = "NEW" \/ jobWorker[j] = None THEN SetJobState(j, "CANCELLED")
       ELSE LET k == wdJob[jobWorker[j]]
            IN  k # None /\ SetJobState(k, "CANCELLING")
    /\ busy' = busy

\* The job's remove link: the job is cancelled, which changes the experiment's
\* state, so that Experiment.removeJob throws.
RemoveJob(j) ==
    /\ "removeJob" \in UserMay
    /\ expState[ExperimentOf(j)] = "new"
    /\ SetJobState(j, "CANCELLED")
    /\ busy' = busy

\* killJob(j) for every job j of e, in their order: of a job that has been
\* scheduled, even one that has ended, the worker's job is told to cancel, unless
\* that is a new one of e (it was refused) and has been cancelled before.
Told(e) ==
    {k \in Jobs : \E j \in JobsOf(e) :
        /\ jobState[j] # "NEW"
        /\ jobWorker[j] # None /\ wdJob[jobWorker[j]] = k
        /\ k \in JobsOf(e) /\ jobState[k] = "NEW" => j[2] < k[2]}
Killed(e) == {j \in JobsOf(e) : jobState[j] = "NEW"} \ Told(e)

\* The experiment's cancel link: Experiment.cancel, under the experiment's lock.
\* The JobObserver, called for each job, makes a CANCELLING experiment ACTIVE
\* again, so that it goes to the front, unless the last job ends it.
CancelExperiment(e) ==
    LET told == {k \in Told(e) : jobState[k] # "CANCELLING"}
        done == finished[e] \cup Killed(e)
        freed == {w \in Workers : wdJob[w] \in Killed(e)}
        revived == /\ begun[e] \/ running[e] # <<>>
                   /\ e \in known
                   /\ \/ told \cap JobsOf(e) # {}
                      \/ Cardinality(Killed(e)) > 1
                      \/ Killed(e) # {} /\ done # JobsOf(e)
    IN  /\ "cancelExperiment" \in UserMay
        /\ ~ scheduling
        /\ expState[e] \notin FinishStates \cup {"cancelling"}
        /\ \A j \in JobsOf(e) \cup told : pending[j] = None
        /\ jobState' = [j \in Jobs |-> CASE j \in Killed(e) -> "CANCELLED"
                                         [] j \in told      -> "CANCELLING"
                                         [] OTHER           -> jobState[j]]
        /\ wdJob' = [w \in Workers |-> IF w \in freed THEN None ELSE wdJob[w]]
        /\ unemployed' = unemployed \cup freed
        /\ observed' = observed \ Killed(e)
        /\ finished' = [finished EXCEPT ![e] = done]
        /\ expState' = [expState EXCEPT ![e] = "cancelled"]
        /\ active' = IF revived THEN <<e>> \o active ELSE active
        /\ queue' = IF revived THEN queue \ {e} ELSE queue
        /\ waitingFor' = [w \in Workers |-> IF e \in known /\ waitingFor[w] = e THEN None
                                                                             ELSE waitingFor[w]]
        /\ stored' = Written([j \in Jobs |-> IF j \in Killed(e) \cup told THEN jobState'[j] ELSE stored[j]])
        /\ UNCHANGED <<assigned, unstarted, running, begun, uncounted, known, scheduling, jobWorker,
                       pending, busy, storedWorker, storedAssigned, restarts>>

\* The links to unassign a worker, and, unless the experiment has finished, to
\* assign one: unassignWorker, assignWorker.
Reassign(e, w) ==
    /\ "reassign" \in UserMay
    /\ w \in assigned[e] \/ expState[e] \notin FinishStates \cup {"cancelling"}
    /\ assigned' = [assigned EXCEPT ![e] = IF w \in @ THEN @ \ {w} ELSE @ \cup {w}]
    /\ storedAssigned' = [storedAssigned EXCEPT ![e] = IF w \in assigned[e] THEN @ \ {w}
                                                                           ELSE @ \cup {w}]
    /\ UNCHANGED <<expState, unstarted, running, finished, begun, uncounted, schedulerVars, jobVars,
                   stored, storedWorker, restarts>>

-----------------------------------------------------------------------------
Schedule ==
    \/ \E e \in known, w \in Workers : HandOut(e, w) \/ ScheduleThrows(e, w)
    \/ \E e \in known : StartNext(e)
    \/ GiveUp

User ==
    \/ \E e \in Experiments : AddExperiment(e) \/ CancelExperiment(e)
    \/ \E e \in Experiments, w \in Workers : Reassign(e, w)
    \/ \E j \in Jobs : CancelJob(j) \/ RemoveJob(j)

Next ==
    \/ Schedule
    \/ \E w \in Workers, s \in JobStates : WorkerReports(w, s)
    \/ \E w \in Workers : WorkerRefuses(w) \/ JobFinished(w)
    \/ \E j \in Jobs : Announce(j) \/ Write(j)
    \/ User
    \/ \E knownWorkers \in SUBSET Workers : Restart(knownWorkers)

Spec == Init /\ [][Next]_vars

-----------------------------------------------------------------------------
(* Properties.                                                             *)

Settled(e) == \A j \in JobsOf(e) : pending[j] = None

\* Whenever no notification of an experiment's jobs is on its way, its lists tell
\* what has become of them, whatever was cancelled, refused or came late and
\* whenever the server crashed: a job is counted as finished exactly if it has
\* ended, none waits that has been started or ended otherwise than by the user,
\* none waits twice, and none that was never given to a worker is forgotten
\* (JobObserver.update, Experiment.loadJobs).
ListsMatchJobs ==
    \A e \in Experiments : Settled(e) =>
        /\ finished[e] = {j \in JobsOf(e) : IsFinal(jobState[j])}
        /\ {j \in JobsOf(e) : jobState[j] = "NEW" /\ storedWorker[j] = None} \subseteq ToSet(unstarted[e])
        /\ \A j \in ToSet(unstarted[e]) : jobState[j] \in {"NEW", "CANCELLED"}
        /\ IsInjective(unstarted[e])

\* As long as the user cancels no experiment and the server does not crash, a
\* finished experiment's state is what its counters are compared for, in whatever
\* order its jobs ended and were announced and however late: all have ended, no
\* success without a successful job or with a failed one, a partial one with both,
\* and cancelled if the user cancelled every job (JobObserver.update).
OutcomeMatchesJobs ==
    \A e \in Experiments :
        LET results == {jobState[j] : j \in JobsOf(e)}
        IN  /\ expState[e] \in FinishStates => results \subseteq FinalStates
            /\ expState[e] = "cancelled" => results = {"CANCELLED"}
            /\ expState[e] = "success" => "SUCCESS" \in results /\ "FAILED" \notin results
            /\ expState[e] = "failed" => "SUCCESS" \notin results
            /\ expState[e] = "partial success" => {"SUCCESS", "FAILED"} \subseteq results

\* An experiment to which workers are assigned runs its jobs on them only, also
\* when another experiment waits for the same worker (Experiment.assignedWorkers).
AssignedWorkersOnly ==
    \A e \in Experiments : assigned[e] # {} =>
        \A j \in JobsOf(e) : jobWorker[j] # None => jobWorker[j] \in assigned[e]

\* As long as every experiment may use every worker, of the active experiments only
\* the first has unstarted jobs: schedule, which looks at the first only, forgets
\* none, in whatever order jobs end and experiments are added (Scheduler.schedule).
OnlyTheFirstIsOpen ==
    (\A e \in Experiments : assigned[e] = {}) =>
        \A k \in 2 .. Len(active) : active[k] = Head(active) \/ unstarted[active[k]] = <<>>

\* What the comment on Scheduler.activeExperiments promises, of the experiments it
\* matters for: one with open jobs that may run anywhere stands behind its like
\* only.  It fails when a worker that is waited for finds no job left while the
\* first experiment still has some: another experiment is started in front of it.
OpenExperimentsFirst ==
    \A i, k \in 1 .. Len(active) :
        i < k /\ assigned[active[k]] = {} /\ unstarted[active[k]] # <<>>
            => assigned[active[i]] = {} /\ unstarted[active[i]] # <<>>

\* An experiment that has finished stays as it is.
FinishedStays ==
    [][\A e \in Experiments : expState[e] \in FinishStates => expState'[e] = expState[e]]_vars

\* No job is handed out twice, whenever the server crashes and whatever it finds
\* in the database (CSJob.setWorker, Experiment.loadJobs).
NoJobRunsTwice ==
    [][\A j \in Jobs, w \in Workers :
          storedWorker[j] # None /\ wdJob'[w] = j => wdJob[w] = j]_vars

\* A job's result survives a crash once setState has returned, and nobody changes
\* it afterwards (CSJob.writeStateToDB, Experiment.loadJobs).
ResultsSurvive ==
    [][\A j \in Jobs : IsFinal(jobState[j]) /\ pending[j] = None => jobState'[j] = jobState[j]]_vars

=============================================================================
