# MONET in TLA+

MONET runs optimisation experiments on a cluster.  A *control server* keeps
experiments, each a list of *jobs*, hands the jobs to *workers* over TCP and
collects their results; users steer it through a web GUI.  This directory holds
TLA+ modules of the parts of the program whose correctness depends on the order
in which things happen, TLC configurations that check them on small instances,
and proofs that TLAPS checks for every instance.

    tlc -workers 2 -config Protocol_cancel.cfg MCJobProtocol.tla
    tlapm JobProtocolProofs.tla

Paths below: `CS/` is `src/controlserver/src/main/java/com/github/monet/controlserver/`,
`W/` is `src/worker/src/main/java/com/github/monet/worker/`, `C/` is
`src/worker/src/main/java/com/github/monet/common/`.

## 1. The system

### Components, their state and operations

| Component | Source | State | Operations |
|---|---|---|---|
| Job states | `W/Job.java`, `W/JobState.java` | the state of a job | `setState`, `isStateTransitionAllowed`, `isFinal` |
| ControlServer | `CS/ControlServer.java` | `workerMap` (a reader thread per connected worker) | `run` (schedule, attach, `sendJob`, accept), `handleMessages`, `handleConnection`, `handleConnectionLoss`, `checkAttendance`, `killJob`, `update` |
| WorkerClientThread | `CS/WorkerClientThread.java` | the lines collected, the gate `wasSignalled` | `run`, `sendMessage`, `sendEndingMessage`, `doWait`, `doNotify` |
| WorkerDescriptor | `CS/WorkerDescriptor.java` | state, job, attendance | `setState`, `setJob`, `loadWorkersFromDB` |
| CSJob | `CS/CSJob.java` | state, worker, observers | `setState`, `cancel` |
| Scheduler | `CS/Scheduler.java` | `queue`, `activeExperiments`, `waitingForWorkers`, `unemployedWorkers` | `schedule`, `addExperiment`, the two observers, registration of workers |
| Experiment | `CS/Experiment.java` | state, `unstartedJobs`, `runningJobs`, `finishedJobs`, counters, `assignedWorkers` | `JobObserver.update`, `start`, `cancel`, `removeJob`, `assignWorker`, creation, repetition, loading |
| Communicator | `W/Communicator.java` | its thread, the gate `wasSignalled`, the connection | `run`, `connect`, `handleMessages`, `update`, `sendEndingMessage` |
| Experimentor, JobThread | `W/Experimentor.java`, `W/JobThread.java` | `actualJob`, `actualThread`, the job's state | `startJob`, `killJob`, `experimentFinished`, `run` |
| Service directory | `W/ServiceDirectory.java` | `cachedBundles`, `installedBundles`, `activeBundles`; the bundles in the OSGi framework | `getService`, `startBundle`, `activateService`, `stopAllBundles`, `validateCachedBundles` |
| Database | written by `CSJob`, `Experiment`, read when the server starts | states and workers of jobs, states and assigned workers of experiments | `writeStateToDB`, `setWorker`, the loading constructors, `loadJobs` |
| Bundle store | `CS/BundleManager.java`, `C/DependencyManager.java` and others | in the database: bundle files, the table of exporters | `upload`, `updateExporter`, `resolveDependencies` with `resolve` and `orderDependencies` |
| Versions | `C/BundleVersion.java`, `C/VersionedPackage.java` | none | parse, compare, merge ranges |
| Measurement | `MongoMeter`, `MongoBuilder`, `MeasuredData` | a tree of measured values | insert, find |
| Pareto front metric | `C/ParetoPoint.java` | none | `calculateSMetric` |
| Parameters | `Parameter` and iterators | parameter lists | enumerate combinations |
| Web GUI | `CS/webgui/` | pages | links that start, cancel, remove, assign |

### How they interact

* One *main thread* on the server loops: `Scheduler.schedule` picks a job and a
  worker, `run` attaches the server as the job's observer, `sendJob` writes
  NEWJOB, `accept` waits up to five seconds for a new connection, then
  `checkAttendance` looks for silent workers.
* One *reader thread* per connection calls `handleMessages`, which changes the
  state of the job that the connection's descriptor holds *at that moment*: no
  message names its job.
* Changes of state call observers synchronously: CSJob calls ControlServer
  (frees the worker) and the experiment's JobObserver (lists, outcome), which
  changes the Experiment, which calls the Scheduler's observer; WorkerDescriptor
  calls the Scheduler's other observer.  `CSJob.setState` is synchronized;
  `WorkerDescriptor.setState` and `setJob`, `handleConnection` and
  `handleConnectionLoss` are not, and whoever calls them holds some other lock or
  none.
* *GUI threads* call into all of these.
* Every change of state is written to the database after the observers have been
  called.  When the server starts again, experiments and jobs are what the
  database holds; the workers do not notice and go on with their jobs.
* On the worker the *Communicator's thread* reads messages and starts a
  *JobThread*, whose changes of state the Communicator, as an observer, sends to
  the server on the JobThread.
* A JobThread asks the *service directory* for the bundles of its algorithm, its
  parser and other services.  The directory takes them from its cache or from
  the control server, installs and starts them in the OSGi framework.  When the
  job ends, the same thread stops and uninstalls all bundles, of whichever job,
  after `actualJob` was cleared.

### What is hard

Messages are attributed by time, not by name; JOBFINISHED is sent after the
worker is free again; a job's thread starts before it is observed; `Thread.stop`
raises an exception wherever the JobThread is, also between starting a bundle
and recording that it is started; workers crash and reconnect; the server
crashes between a change of state and its being written;
threads share one `PrintWriter` behind a hand-made gate, which a stopped thread
does not open again; a worker's descriptor is written by several threads with no
lock in common; the outcome of an
experiment is computed from results that arrive in any order; each list of the
Scheduler is kept by several callers.  `PROJECT.json` lists each such place
with its line.

### What makes each component correct

* *Job protocol*: a job is handed out at most once; a worker executes one job at
  a time; a result stays; a job reported as cancelled is not executing; server
  and worker agree when nothing is under way; every job ends.  (That the server's
  three records of a worker agree is wished for too, but holds only while nobody
  interrupts the methods that write them, section 5.)
* *Experiments and Scheduler*: the lists match the jobs' states; the outcome is
  what the jobs have come to; no open experiment is forgotten; assigned workers are
  respected; a finished experiment stays; no job is handed out again after a
  crash, and a recorded result survives it.
* *Service directory*: a job begins with no bundle of the job before; its bundles
  stay active while it runs; it fails only for want of a bundle; its end is
  reported; nothing that it installed runs that is older than what the server had
  when the worker started.
* *Gate*: it is lost only with a thread that leaves while it holds it; whoever
  waits gets to write.
* *Bundle store*: a bundle's dependencies can be loaded in the order in which they
  are returned, and none is loaded twice; what is stored is found; the search
  ends.
* *Metric*: the measure of the dominated region, however the points are ordered.
* *Versions*: a merged range is the intersection.  *Measurement*: what was inserted
  is found.

## 2. The modules

### JobState

The eleven states of `Job.State` and one representative of the custom states an
algorithm may enter (which differ by their name alone).
`IsStateTransitionAllowed` is the method of that name, `SetStateAccepts` what
`Job.setState` does not throw at: entering the state one is in is a no-op, even
if it is final.

### JobProtocol

One experiment's jobs between the server and its workers.

| Variables | Code |
|---|---|
| `csState`, `observed`, `jobWorker` | CSJob: its state, whether the ControlServer observes it, its worker |
| `wdState`, `wdJob` | WorkerDescriptor |
| `registered`, `unemployed`, `next` | Scheduler: workers observed, `unemployedWorkers`; Experiment: the first unstarted job |
| `main` | where `ControlServer.run` is between two calls of `schedule` |
| `todo` | what a thread of the server has yet to do of the methods it is in |
| `connected`, `linked`, `reading` | `workerMap`; its entries whose socket is open; the reader threads alive |
| `toWorker`, `toServer` | the two directions of a connection, FIFO |
| `actualJob`, `actualThread`, `comm` | Experimentor; where the Communicator's thread is |
| `wkState`, `wkObserved`, `host`, `thread`, `outcome`, `stopping` | WorkerJob and its JobThread |

Every point at which another thread may come in between is a step of its own:
`Schedule`, `Check`, `Attach`, `SendJob` on the main thread; `HandleNewJob`,
`StartThread` and `ObserveJob`, and `HandleCancelJob`, `KillThread` and `StopThread`
on the Communicator's thread; `ClearJob`, `ClearThread`, `ReportOutcome`,
`NotifyFinished` in `experimentFinished`.  What
runs under one lock is one step: `setState` of a CSJob with everything its
observers do, but for what they leave to the descriptor.  `RaiseKill` may happen
in any phase of the JobThread, since
`Thread.stop` is asynchronous.  An exception that ends a thread ends it in the
model (`comm = "died"`, `w \notin reading`, `thread = "died"`).

The methods of the server that no lock protects are sequences of steps, kept in
`todo` for each thread of the server (main, GUI, a reader per worker, one that has
left its loop per worker):

| Step | Code |
|---|---|
| `WriteJob`, `SetState`, `WriteState`, `Notify` | `WorkerDescriptor.setJob`, the test of `setState`, its assignment, its notification |
| `Update`, `Register`, `Unregister` | the Scheduler's `WorkerObserver.update`, `registerWorker`, `unregisterWorker`, which wait for the Scheduler's lock (`SchedulerIsFree`) |
| `StartReader`, `PutThread` | `addThread`, which starts the thread before it enters it into the map |
| `Leave`, `Drop`, `FailJob` | a reader leaves its loop; `handleConnectionLoss` removes whatever thread the map holds for the worker by then and fails whatever job the descriptor holds by then |

`Connect` is not guarded by the server's belief that the worker is gone: the
worker may come back before its old reader has left, whose `handleConnectionLoss`
then tears down the new connection.

Faults: `LoseConnection`, where messages in flight are lost and the job goes on;
`CrashWorker`; `AttendanceTimeout`, the only thing that ends a connection one
of whose two readers has died.  `MaxFaults` bounds the first two.  They close the
sockets; what the server does about it is left to its threads.

`Timely` is an assumption, not code: the server, which schedules every five
seconds, and the user act only when nothing takes no waiting is under way
(`Quiet`), a job runs for longer than the Communicator needs to call
`addObserver`, and a thread of the server that is in a method without a lock comes
to its end before anybody acts, so that these methods are one step each
(`FreeWorker`, `EmployWorker`, `Connect`, `Disconnect`; `todo` stays empty).  Most
days this is so.  Properties that only hold then are
checked with `Timely = TRUE` and are said to need it.

### JobLife

What the server promises of an experiment's jobs, with no message, thread or
connection: a job is `waiting`, is handed to one worker in the order of the list,
and ends once, with one result.  JobProtocol implements it under the mapping

| JobLife | JobProtocol |
|---|---|
| `life` | `lifeOfJobs`: ended when `csState` is final, else handed when the job has a worker |
| `owner` | `jobWorker` |
| `result` | `resultOfJobs`: `csState` once it is final |

`Exclusive` distinguishes two promises.  Without it, JobProtocol keeps the
promise under every interleaving, fault and cancellation (`ImplementsLife`,
proved).  With it, a worker is handed a job only when the one before has ended;
that, with the fairness of JobLife (a waiting job is handed out, a handed one
ends), holds when nothing fails and the pauses are long enough
(`ImplementsTimelyLife`, model-checked; its safety part is proved).

### ExperimentScheduler

Several experiments, their three lists and outcome, and the Scheduler's choice
of a job and a worker.  What a worker reports is any sequence of the states in
`Reported` that the job the server takes it to have accepts, whichever job the
worker means; it may refuse a job, and tell that one has finished as late as it
likes.  So the channels of JobProtocol are not needed.

| Variables | Code |
|---|---|
| `expState`, `assigned`, `unstarted`, `running`, `finished`, `begun` | Experiment (`begun`: `scheduled_count` or `initialized_count` is not 0) |
| `known`, `queue`, `active`, `waitingFor`, `unemployed` | Scheduler |
| `scheduling` | `schedule` has called itself again and still holds its lock |
| `jobState`, `jobWorker`, `wdJob` | CSJob, WorkerDescriptor |
| `pending` | what `CSJob.setState` has yet to do after it changed the state: call the JobObserver, or write the state |
| `observed` | the jobs the ControlServer observes |
| `stored`, `storedWorker`, `storedAssigned` | the database: state and worker of a job, assigned workers of an experiment (an experiment's state is written when it is set, so `expState` stands for both) |
| `uncounted` | the jobs that were loaded as finished, which the counters of the outcome do not know |
| `busy` | the workers from which the JOBFINISHED of a job that is not theirs any more may still come, and which may still execute it |

Actions: `HandOut`, `ScheduleThrows`, `StartNext` and `GiveUp` are the ways in
which a call of `schedule` proceeds; `WorkerReports`, `Announce` and `Write` are
the three parts of a job's change of state.  A worker whose job has ended is `busy`
until its JOBFINISHED has come (`JobFinished`): until then it may refuse the job it
was given since (`WorkerRefuses`), and when it comes the server takes the worker
to be free of whatever job that is.  More than one may be under way, so that
`JobFinished` may leave the worker `busy`.  A custom state between two RUNNING
enters a job into `running` once more; `MaxListed` bounds how often.
`AddExperiment`, `CancelJob`, `RemoveJob`,
`CancelExperiment`, `Reassign` are the links of the GUI, each allowed by
`UserMay`; the link that unassigns a worker is there in any state of the
experiment, the form that assigns one is not.  `CancelExperiment` is one step,
although `Experiment.cancel` calls
`killJob` for one job after the other: it holds the experiment's lock, and the
jobs of other experiments that it may hit (`Told`) belong to active experiments,
whose notification leaves their state as it is.

`Restart` is a crash of the server between any two steps (but within `HandOut`
and `CancelExperiment`, which are one step each) and the loading that follows.
`Experiment` loads when the class is first used, which may be before the workers
are known; `knownWorkers`, any set, are those that are.  The workers that had a
job are `busy` with it.  When `MaxRestarts` is 0 the database is not kept up
and `Write` is not a step, as nothing reads it.

### ServiceDirectory

One worker's directory of bundles, the JobThreads that use it, `Thread.stop`
between any two calls, uploads on the server, and restarts of the worker.

| Variables | Code |
|---|---|
| `cache`, `installed`, `active` | `cachedBundles` with the contents of the files, the keys of `installedBundles` and `activeBundles` |
| `framework`, `content` | the OSGi framework: the state and the content of each bundle |
| `inherited` | history: the bundles that are in the framework since before the worker started |
| `actual`, `stopping` | `Experimentor.actualJob`; the jobs whose thread was stopped and has not noticed |
| `pc`, `need`, `todo`, `iter`, `error` | a JobThread: where it is, which service it asks for, the rest of the loop in `startBundle`, the loop in `stopAllBundles`, the exception the job failed with |
| `server`, `uploading`, `uploads` | the bundle files on the control server |
| `development` | `Config.getDevelopmentMode` |
| `reported`, `orderly`, `baseline`, `restarts` | what the server knows of a job's end; history the properties refer to |

A bundle's content is a number that grows with every upload.  `Get` is
`getService` up to `startBundle`; `Resolve`, `Install`, `RecordInstalled`,
`StartBundle`, `RecordActive` are `startBundle`, divided at every call after
which a kill leaves the maps and the framework in disagreement; `Activate` is
`activateService`.  `ClearJob`, `Stop`, `ClearActive`, `Uninstall`,
`ClearInstalled`, `ReportEnd` are `experimentFinished` with `stopAllBundles`; an
iterator whose map has changed meanwhile may throw, as a HashMap's does.
`RaiseKill` leads from anywhere in the try block to the finally block, and out
of the thread from there.  `StartJob` is guarded as `Experimentor.startJob` is,
by `actualJob` alone: the thread of the job before may still be cleaning up.
`orderly` records that this has never happened: it does not while the server
sends a job only when it has heard of the end of the one before.

`Restart(FALSE)` is an exit in order, whose shutdown hook deletes `felix-cache`,
`Restart(TRUE)` a crash of the process.  `WorkerMain.start` asks for the storage to
be cleaned with the value `"true"`, while Felix cleans for `onFirstInit` only, so what
was installed is still there afterwards, and `installBundle` returns it.

### SMetric

`ParetoPoint.calculateSMetric`, with integers for doubles.
`getMaximizationSMetricByHSO` calls itself with one objective less, so a call is
known by its number of objectives, and its recursion is a stack that needs no
more than a place for each.

| Variables | Code |
|---|---|
| `front`, `minimization` | the parameters of `calculateSMetric` |
| `values` | what `getObjectiveValues` returns of each point |
| `level` | `k` of the call that runs |
| `inds`, `volume`, `curDistance` | these locals of `getMaximizationSMetricByHSO`, for every `k` |
| `nonDominated`, `rest`, `individual`, `place` | the list of `getNondominatedSolutions`, the points its outer loop has not come to, its `individual`, its `j` |
| `pc` | the loop it is in |

`StartFilter`, `Consider`, `Displace`, `Reject`, `Pass`, `EndOfCompetitors` are the
two loops of `getNondominatedSolutions`, which remove from the list they run over.
`MeasureLine` is the rest of a round if `k <= 2`; otherwise `Call` and, when the
inner call has no points left, `Return`; both cut the slice (`CutSlice`).  The
filters, extreme values and the inversion for minimization are operators.  Points
are sets where the code's lists are taken in order only by `getNondominatedSolutions`,
which here takes them in any.  The properties compare with the number of unit
cubes the points dominate.

### SendGate

The gate by which threads share a `PrintWriter`.  The code of WorkerClientThread
and of Communicator is the same, so one module stands for both; `end` says whose
threads they are.  A thread is
idle, in the wait set, woken (notified, not yet back from `wait`), writing, or
between the end line and `doNotify`.  The other end collects lines and handles
them at the end line by the first of them alone.  At the server `Impatient` threads
send without `doWait`, as `ControlServer.update` does for CANCELJOB.  At the worker
`Thread.stop` may strike a `Stoppable` thread wherever it is (`Stop`), and a
`Connecting` one may return from `connect` when it could write (`ReturnEarly`);
neither calls `doNotify` then, and `strayed` records it until somebody does.

### BundleStore

What bundles the database holds and who exports which package, and a worker's
search for the bundles that one bundle needs.  The two run on different
machines and share nothing but the database, which has no transactions, so each
access is a step of its own.

| Variables | Code |
|---|---|
| `files`, `table` | the GridFS collection of bundle files with the imports and exports in them; the collection of exporters |
| `uploading`, `manifest`, `saved`, `exporting`, `removed` | locals of `uncheckedUpload`, `updateExporter`, `createUpdatedProviderEntry` |
| `root`, `toResolve`, `resolved`, `needed`, `ordered`, `at`, `provider`, `abort`, `modified` | locals of `resolveDependencies`, `resolve`, `orderDependencies` |
| `pc` | the question that is asked next |
| `library` | an input: with which manifests a bundle is uploaded |

An upload is `BeginUpload` (the old file is removed), `SaveFile`, then per
package `AlreadyProvided`, `InsertEntry`, or `RemoveEntry` and `ReinsertEntry`,
and `FinishUpload`.  A search is `RootImports` and `RootExports`; per round of
`resolve` `FirstProvider` (or `NoProvider`), `ProviderExports`,
`ProviderImports` until `EndOfLoop`, whose recursion starts the next round; then
`OrderImports` and `OrderExports` until `EndOfOrder`.  `ProviderImports` includes
the exception of a TreeSet's iterator after the set has grown.

Names are numbers in the order of the TreeSets, which compare names alone: two
versions of a bundle are one element of a set of providers, and the version of
a package is never looked at.  `removeBundleFromDatabase` is left out, since
nothing calls it.

### MC modules

`MCJobProtocol` adds the symmetry of the workers' names, sound in the safety
runs and used in them only (`Protocol_cancel`, `Protocol_any`).
`MCExperimentScheduler` gives the experiments their priorities and the sets of
initial assignments, and the same symmetry, of which `Exp_any` makes use; `MCSendGate` the length of
messages.  `MCBundleStore` has four libraries: a line of imports, a circle, two
exporters of one package one of which has two versions, and a bundle whose
exports change when it is uploaded again or in a new version.
`MCServiceDirectory` has an algorithm that depends on a library and a parser that
does not; the second job also asks for the library as a service, which it does
not offer.  `MCSMetric` lists the fronts, each in one order only: the points are taken in
any.

## 3. The runs

A passing run explores every reachable state of its instance.

| Run | Instance | Shows |
|---|---|---|
| `Protocol_timely` | 2 workers, 3 jobs, no cancellation, no fault, Timely, fairness | `AgreementWhenQuiet`, `EmployedWhenBusy`, `StateChangesLegal`, `EndedBeforeFinished`, `ImplementsTimelyLife` |
| `Protocol_cancel` | 2 workers, 2 jobs, both cancellable, 1 fault, Timely | `TypeOK`, `HandedOutOnce`, `OneJobPerWorker`, `CancelledIsStopped`, `ResultStays`, `ImplementsLife` |
| `Protocol_any` | 1 worker, 1 job that may be cancelled, 1 fault, every interleaving | `TypeOK`, `HandedOutOnce`, `ResultStays`, `ImplementsLife` |
| `Exp_any` | 2 experiments of 2 jobs, 2 workers, none or one of them assigned to one experiment, no cancellation | `TypeOK`, `OutcomeMatchesJobs`, `OnlyTheFirstIsOpen`, `AssignedWorkersOnly`, `FinishedStays` |
| `Exp_user` | 1 experiment of 2 jobs, 2 workers, one of them assigned at first, custom states, everything a user may do, 1 crash of the server | `ListsMatchJobs`, `NoJobRunsTwice`, `ResultsSurvive` |
| `Services_any` | 3 bundles, 2 jobs, 1 upload, 1 restart after a crash or in order, kills at any time, with and without development mode, any of the bundles cached or absent at first | `TypeOK`, `CleanStart`, `JobKeepsServices`, `BlamelessFailure`, `EndIsReported`, `FreshSinceStart` |
| `Store_any` | 4 libraries of 3 to 4 bundles and 3 packages, any number of uploads, one search after the other, fairness | `TypeOK`, `ResultLoads`, `NoBundleTwice`, `ExportsAreFound`, `EverySearchEnds` |
| `Metric_any` | all fronts of up to 3 points with 1 to 3 objectives of 3 values or 4 objectives of 2 values, and of 4 points with 2 objectives of 2 values, each minimized and maximized | `MetricIsHypervolume`, `SlicesMeasureWhatTheyPassed`, `NondominatedAreKept` |
| `Gate_any` | the server with 3 threads, one of them impatient, and the worker with 3, one of which may be stopped and one may return early; 2 messages each, of 2 and 1 lines, fairness | `TypeOK`, `GateNotLost`, `NobodyWaitsForever` |
| `V_success` | 1 worker, 3 jobs | a result is recorded for another job |
| `V_torn` | 2 threads, both patient | two messages are written into each other |
| `V_forgotten` | 3 experiments of 1 job, 2 workers, one of them assigned to the first | an experiment with an open job stays behind one without |

### Bounds, and why they are enough

* *Two jobs on two workers* give every hazard of a message that is attributed to
  the wrong job: the late message of the first job, the second job on the same
  worker, and another worker to compare with.  A third job adds, in
  `Protocol_timely`, a worker that is used twice while the other one is busy.
* *One fault* is enough for the reconnection of a worker whose job goes on, with
  the second job to be misplaced on it.  A second fault repeats the first.
* *Any interleaving.*  Without `Timely` five threads of the server and two of the
  worker run through each other, and one worker with one job is what TLC can do.
  That has the reconnection before the old reader has left, two threads in the
  descriptor's methods at once, and cancellation between any two steps.  Two jobs
  on one worker it has not, so `OneJobPerWorker` would say nothing there and is
  checked in `Protocol_cancel` and proved for every instance, as are the other
  three.
* *Two experiments* compete for a worker, displace each other in
  `waitingForWorkers` and at the front of `activeExperiments`; either may be behind
  the other when a late JOBFINISHED or a refusal comes.
* *One experiment* in `Exp_user`: its lists and its jobs are its own, and what a user
  does to it reaches another only through the worker they share, of which two jobs
  on two workers show as much.  One crash, between any two steps, is followed by
  everything a worker may still report; what a crash means for the worker's next job
  of another experiment is left to the proofs, which have no bounds.
* *Two jobs, one upload, one restart* in `Services_any`: the second job meets what
  the first one left behind, with the cache older than the server, and again
  with everything validated.
* *Fronts*: three points can dominate, equal or miss each other in all ways, and
  `getNondominatedSolutions` can remove the competitor, the point itself, or
  one after the other; four objectives are two recursions deep.
* *Three threads, two messages each*: one writes, one waits, one barges in, and
  every one comes back.  One that is stopped loses the gate, and two are left to
  wait.  Two lines let a message be torn.
* *Three packages* give a chain of two imports and a provider of two packages,
  which is asked about twice when its file disappears in between; uploads and
  searches have no bound at all.
* `MaxMessages`, `MaxFaults`, `MaxListed` and `MaxRestarts` bound counters of the
  model that the program does not have.  No channel has a bound: what is in it is bounded by the jobs.

The theorems below do without any of these bounds.

### Fairness, and why the code justifies it

`JobProtocol`: weak fairness of each thread (main, reader, Communicator,
JobThread, and whatever a thread of the server has yet to do), of a worker's
attempt to connect, which `Communicator.run` repeats,
and of the attendance check, which `run` calls in every round.  A thread is
scheduled by the JVM; nothing the model has as one step waits for another step
inside it.  That an algorithm throws, a user cancels or a connection breaks is
never owed.  An algorithm that never returns is excluded: `JobThread(j)` in
phase `running` is owed, which is what the fairness of JobLife, part of
`ImplementsTimelyLife`, needs of it.

`ExperimentScheduler` assumes none and states no liveness: `schedule` takes the
Scheduler's lock and then the experiment's, `JobObserver.update` the experiment's and
then the Scheduler's, so the two may wait for each other for ever, and nothing in
the code guarantees that `Schedule` or `Announce` goes on.

`SendGate`: a thread that has begun a message goes on with it.  Which of several
waiting threads `notify` picks is left open: `NobodyWaitsForever` holds whatever
it picks because each thread sends `MaxMessages` messages at most; without that
bound a JVM that always picked the same thread would starve the others.  `Stop` and
`ReturnEarly` are owed nothing, and the property is about behaviours in which the
gate does not stay where they left it (`<>[](strayed = {})`).

`BundleStore`: a search that has begun asks its next question.  Uploads are
owed nothing: a file that was removed may never come back, and the search ends
all the same.

### Deadlock

`CHECK_DEADLOCK FALSE` in every configuration: when every job has ended, or all
messages are sent, there is nothing left to do but for the user.  That nothing
stops before is what the liveness properties say.

## 4. The proofs

`JobProtocolProofs` proves for any number of workers, jobs and faults, timely or
not:

* `TypeCorrect`: `TypeOK`.  Not inductive alone: while the main thread is between
  `schedule` and `sendJob` there is a job it is about (`MainHasJob`), or `Attach`
  would look up the worker of no job; an observed job has a worker, which is to be
  freed when it ends (`ObservedHaveWorkers`); and no thread has yet to do anything
  about a job that still waits (`StepsAreKnown`).
* `ResultsStay`: `ResultStays`, from the transition relation, for each place that
  writes `csState`.
* `OneJobAtATime`: `OneJobPerWorker`, from `ExecutesActual`: a job that executes
  is the `actualJob` of its worker.  A worker accepts NEWJOB only if it has none.
* `NeverHandedOutTwice`: `HandedOutOnce`, from `HandInv`: a job on its way to a
  worker is there once only and has not begun (`SentOnce`), nor has one not chosen
  yet (`UnchosenIsNotBegun`), and the job between `schedule` and `sendJob` is in no
  channel (`ScheduledIsUnsent`).  `Begun` is all a worker may have of a job: its
  thread, a kill, `actualJob`, `actualThread`.  The lemma `HandKept` reduces each
  step that neither sends nor begins a job to how far it moves the channels.
* `ProtocolImplementsLife`: `ImplementsLife`, the refinement of JobLife.  The
  initial states map to the initial one, and every step under an invariant
  (`LifeInv`: the jobs before `next`, and no others, have a worker; the job of a
  descriptor is one of them) maps to `Give`, to `End`, or to a stutter.  Only
  `Schedule` writes `jobWorker`; of what the threads have to do in the methods
  without a lock only `FailJob` ends a job (`GoesOnEffect`); each place that writes
  `csState` ends a job, changes the state of an open one, or throws.

`JobProtocolTimelyProofs` proves for any number of workers and jobs, when the pauses
are long enough, nobody cancels and nothing breaks (`Undisturbed`), what is false
otherwise, as the findings show:

* `ServerAndWorkerAgree`, `EmployedAreBusy`, `ReportsAreLegal`, `EndsComeFirst`:
  `AgreementWhenQuiet`, `EmployedWhenBusy`, `StateChangesLegal` and
  `EndedBeforeFinished`, all from `TimelyInv`.  As the methods without a lock are
  one step each then, the server's three records of a worker agree (`RecordsInv`),
  which is a lemma here and no property: otherwise they need not.  The core of
  `TimelyInv` is `Leads`: what a worker
  has written about a job and the server has not read yet takes the server's
  state of the job to the worker's, one legal transition per message, and
  JOBFINISHED is the last (`HasStarted`).  `BusyWorker` and `IdleWorker` say of every
  worker that its descriptor's job is the one those messages are about, which is
  what a message without a job's name depends on; `Over` that a job which no
  descriptor holds has the same result at both ends.  The lemmas `LeadsAppend` and
  `LeadsTail` carry `Leads` over a worker's writing and the server's reading.
* `ProtocolImplementsExclusiveLife`: the safety part of `ImplementsTimelyLife`, that
  a worker is given a job only after the one before has ended at the server.

`JobProtocolCancelProofs` proves for any number of workers, jobs and faults and any
cancellations, when the pauses are long enough:

* `CancelledHasStopped`: `CancelledIsStopped`.  Between the state of the server's job
  and the worker's thread lies the whole exchange, so `CancelInv` says of each leg
  what cannot be under way at the same time.  A job is where the Scheduler sent it
  (`HoldersInv`); only the one scheduled last is on its way to a worker, or
  refused, and only while the server pauses (`OrdersInv`, `RefusalsInv`); while a
  kill is under way anywhere, from `cancel` to the message that confirms it, no job
  is on its way (`KillsInv`); and the confirmation is sent by a worker that has
  stopped executing (`ConfirmedInv`).  So a job that is CANCELLED, or NEW again, is
  neither executing nor going to (`WithdrawnInv`): the two have to be shown
  together, since a refused job is NEW and can be cancelled.

`SendGateProofs` proves for any threads, lengths and numbers of messages:

* `TypeCorrect`: `TypeOK`.
* `GateIsLostByLeavingOnly`: `GateNotLost`, which is inductive together with
  `TypeOK`: a closed gate is in the hands of a thread that owes a `doNotify`, or one
  has left with it (`strayed`); `doNotify` either wakes somebody, who then has it, or
  leaves it open with nobody waiting.

`BundleStoreProofs` proves for any library, any names and any number of uploads
and searches:

* `TypesAlways`: `TypeOK`.  It needs to know at which places a variable is not
  null, and that the place in `neededBundles` is one of the list (`NotNull`).
* `ResultLoadsAlways`: `ResultLoads`, from `SearchInv`.  What is stored are
  manifests of the library (`FilesOfLibrary`).  While packages are resolved,
  whatever the root imports is in `toResolve` or in `resolved`, and whatever is
  resolved is exported by the root or a bundle found so far (`RootIsCovered`);
  while bundles are ordered, whatever is resolved is exported by a bundle that is
  already ordered, which the set that `orderDependencies` starts anew makes true,
  and whatever is ordered finds its imports before it (`OrderLoads`).  The lemma
  `ShortenedList` about `RemoveAt` carries both over `neededBundles.remove`.
* `NoBundleTwiceAlways`: `NoBundleTwice`, from `OnceEach`.  A bundle is added to
  `neededBundles` only if it is not in it, and moves from there to the ordered
  list, so that no list has it twice and the two have none in common.
* `ExportsAreFoundAlways`: `ExportsAreFound`, under the hypotheses of that property
  on the library (`Stable`, `SameExports`), from `ExporterInv`.  The loop of
  `updateExporter` stops at the first package that has a provider of the bundle's
  name; that nothing is missing then is because a name that is in the table at
  all has been entered for everything it exports (`InTable`, `BeingEntered`),
  unless it is the one being entered.

`ServiceDirectoryProofs` proves for any bundles, dependencies, needs, numbers of
jobs, uploads, kills and restarts:

* `TypesAlways`: `TypeOK`, together with where a thread has bundles left to
  install (`Pending`) and what the jobs not begun look like (`Waiting`).
* `OnlyInheritedIsStale`: `FreshSinceStart`, from `Fresh`: the cache too holds
  nothing older than `baseline`, and the server's files only get newer; what is in
  the framework is as new, unless it is there since before a crash (`inherited`).
* `BeginsClean`, `ServicesAreKept`, `NoBlame`, `EndsAreReported`: `CleanStart`,
  `JobKeepsServices`, `BlamelessFailure`, `EndIsReported`, all from one
  invariant of orderly runs.  `Alone`: the jobs start in order and only a job
  that has ended is reported (`Order`), so that at most one thread is on its
  way.  `JobInv(j)` says what that thread owns: while it asks for services, that
  the maps and the framework differ by no more than the one call it is between
  (`MapsMatch`), that the services it was given are active and that the
  dependencies of what it starts are installed (`TryInv`); while it ends, that
  what is left in the loop is what the framework still has (`CleanupInv`); and
  what its error tells (`ErrorInv`).  When all ends are reported the worker is
  clean (`OrderlyInv`), which is what the next job begins with.

`ExperimentSchedulerProofs` proves for any experiments, priorities, numbers of jobs
and workers:

* `TypesAlways`, `NoJobRunsTwiceAlways`, `ResultsSurviveAlways` and
  `ListsMatchJobsAlways`, whatever the user does, however workers answer and
  however often the server crashes.  The first needs that the
  lists stay lists of the experiment's jobs (lemmas `RemoveFirstKeeps` and
  `InOrderLists`).  The second: a job that waits to be started is listed once
  and no worker has it (`UnstartedInv`), and the waiting jobs of an experiment
  that has been started were never given to a worker (`FreshInv`): a refused job
  is in no list, and after a crash, when it is in one again, its experiment is
  neither new nor ready.  The third: what setState has returned from is what is
  stored (`StoredInv`), and an observed job has not ended (`HeldInv`), which is why
  a late JOBFINISHED does no harm to a result.  The fourth: the
  finished jobs are those whose end has been announced (`FinishedInv`), and a new
  job that no worker ever had still waits (`WaitingInv`).
* `AssignedWorkersOnlyAlways`, if the server does not crash and nobody assigns
  workers anew: a worker is waited for by an experiment to which it is assigned
  (`AwaitedInv`), and `schedule` looks elsewhere for an experiment without any.
* `OutcomeMatchesJobsAlways`, if the server does not crash and no experiment is
  cancelled as a whole: when the number of finished jobs is the number of jobs, all
  have ended (`FinishedInv`), the four counters add up to it (`CountersAddUp`),
  and which of them are 0 decides (`OutcomeSays`); afterwards none of these jobs
  changes any more (`OutcomeStays`).
* `FinishedStaysAlways`, if the user only starts experiments, also over crashes: no
  job of a finished experiment can be announced again (`EndedInv`), since all were
  given away (`GivenInv`) and what a worker still has of them has ended.
* `NoneIsForgotten`: `OpenExperimentsFirst` where every experiment may use every
  worker (`OnlyTheFirstIsOpen`), if the user only starts experiments, also after
  crashes.  `TurnInv`: an experiment among the active ones has begun, so that what
  its jobs report does not put it there a second time, in front of another.
  `V_forgotten` shows that the restriction is needed.

`SMetricProofs` proves for fronts of any number of points with any number of
objectives, minimized or maximized:

* `MetricIsRight`: `MetricIsHypervolume`, for every number of objectives but one.  What a recursive function computes could
  be shown by induction over data only, which these provers cannot do; as the calls
  are steps, the invariant of the open calls takes its place.  `CallInv` says of
  each: the points left are in front of the last slice, they stand for all others
  there (`StandFor`), and `volume` is the measure of what is behind.  A new call
  begins with the points that are not dominated, which stand for all
  (`ListStandsForAll`); a slice adds its measure, the part in the objectives
  before times the thickness (`SliceMeasure`, a bijection of unit cubes with a
  product; `SlicesAddUp`); a call that has no points left has measured all
  (`CallEnds`), and that is the part its caller waits for.  `InvertedMeasure` maps
  the region up to the worst values to the one of the inverted values.
* `SlicesAreRight`: `SlicesMeasureWhatTheyPassed`, from `CallInv` of every open call.
* `NondominatedAlways`: `NondominatedAreKept`.  Between two points the list has no
  point that another dominates, and every point seen and not in it is dominated
  by one that is (`ListInv`).  While a point is compared, the first holds of the
  others (`CompareInv`); if it has been removed it cannot displace any, because
  what dominates it would dominate that competitor too, so that it does no harm
  that the loop goes on with a point no longer in the list (`ListDisplace`).
* `SlicesAlwaysMoveOn`: `SlicesMoveOn`, which is stated with the proofs: "newDistance is
  always larger than curDistance" (`C/ParetoPoint.java:617`), and each slice leaves fewer
  points, so that no round of the loop repeats itself.

All proofs rest on the named assumptions of their modules on the constants only,
which TLC evaluates in the runs.

Each property is proved under the restriction (on `Timely`, `UserMay`,
`MaxRestarts`, ...) under which it is checked, or a weaker one.

*Only model-checked*: liveness (`NobodyWaitsForever`, `EverySearchEnds`, the fairness
in `ImplementsTimelyLife`), which is out of reach of this prover.  Every safety
property that a passing run checks is proved.  What the proofs do not cover are the
counterexamples of the findings, which are TLC's.

## 5. Findings

Three are runs that TLC ends with a counterexample, and `PROJECT.json` quotes the
lines they disagree with.

* `V_success`: JOBFINISHED is sent after `actualJob` is cleared, and names no
  job.  Handled late it detaches the *next* job, and what that one reports is
  recorded for yet another.
* `V_torn`: `doWait` tests `wasSignalled` with `if`, not `while`; a thread that
  comes between `notify` and the return of the notified thread writes with it.
* `V_forgotten`: "The first elements in the list are Experiments that might have
  jobs still open, while the other elements do not" (`CS/Scheduler.java:53`).  Yet
  `schedule` starts the next experiment whenever the first active one has no
  unstarted job for an idle worker, and puts it in front of those that have.
  Nothing but the first is looked at for jobs, so that those behind it wait for
  it to end.

These contradict a comment too, and no run is kept for them; where a restriction
is named, they show as soon as it is lifted, and otherwise the modules show them.

* A worker that reconnects while its job goes on is set to UNEMPLOYED
  (`CS/ControlServer.java:509`) and registered among the workers "that are not
  executing any job" (`CS/Scheduler.java:73`): `EmployedWhenBusy` with a fault.
* A job that was cancelled while NEW stays in `unstartedJobs`; `schedule`, which
  "returns null" if nothing is to be done (`CS/Scheduler.java:248`), throws
  (`ScheduleThrows`) whenever it comes to it, and no other experiment behind it
  is looked at.
* `Experiment.cancel` "cancels" also jobs that have ended, through the worker they
  ran on, whatever experiment that worker's job now belongs to
  (`Told` in ExperimentScheduler).
* "If this list is not empty, the scheduler must only use workers within this
  list" (`CS/Experiment.java:70`): an assigned worker that is not known when the
  experiments are loaded (`CS/Experiment.java:335`) is dropped, which may leave
  an empty list, and that means any worker.  `AssignedWorkersOnly` with a crash.
* "The Experiment has been cancelled. None of the jobs of this Experiment is
  running" (`CS/Experiment.java:206`), and CANCELLED "is only reached when all jobs
  of this Experiment have been cancelled" (`CS/Experiment.java:937`): `cancel` sets
  CANCELLED at the end of its loop, while the jobs it has told to stop go on; the
  JobObserver then sets ACTIVE again and, when they end, the outcome.  Hence
  `OutcomeMatchesJobs` and `FinishedStays` are checked without `cancelExperiment`.
* "it is considered a failure if all jobs have been cancelled or aborted"
  (`CS/Experiment.java:227`): if all were cancelled the outcome is CANCELLED.
* `runningJobs` and `unstartedJobs` are those whose state is neither final nor NEW,
  and those that are NEW (`CS/Experiment.java:100-107`).  A job is entered into
  `runningJobs` with RUNNING only, so that one that is SCHEDULED, INITIALIZING or
  PARSING is in neither; it is entered again when it comes back to RUNNING from a
  custom state, and its end removes it once; a refused job is NEW and in neither; one
  cancelled while NEW stays in `unstartedJobs`.  `ListsMatchJobs` states what is left:
  `finishedJobs`, and the jobs that were never given to a worker.
* `getMaximizationSMetricByHSO` "calculates the dominated hypervolume"
  (`C/ParetoPoint.java:563`), for `k == 1` "just the maximum"
  (`C/ParetoPoint.java:599`).  That holds of the calls it makes itself; called with
  one objective it returns the square of the maximum, as `k <= 2` multiplies the
  slice's thickness by the first objective, which is the same one.
  `MetricIsHypervolume` is stated for more objectives.
* Development mode "forces the worker to download all bundles every time they are
  requested" (`C/Config.java:474`): `startBundle` takes dependencies from the cache
  in either mode (`W/ServiceDirectory.java:306`), so that only what `getService`
  names is downloaded.

Seen while modelling, as variations of these or because no line of the
repository says otherwise:

* The records of a registered worker may disagree: `WorkerDescriptor.setJob` writes
  the job, tests the state and then calls `setState`, which writes and notifies, and
  its callers hold the Scheduler's lock, a job's or none.  A late JOBFINISHED handled
  between the two halves of `run`'s `setJob` (`CS/ControlServer.java:181`) leaves the
  worker employed, without a job and not among the unemployed.  No property states that they
  agree; with `Timely` it is a lemma (`RecordsInv`).
* `handleConnectionLoss` asks nobody whether the connection it cleans up after is
  still the worker's: if the worker has come back before its old reader has left,
  the new reader's entry is removed, its job failed and the worker unregistered.
* `schedule` takes the Scheduler's lock and then the experiment's
  (`getNextJob`, `CS/Experiment.java:615`), the JobObserver the experiment's
  (`CS/Experiment.java:996`) and, when the experiment's state changes, the
  Scheduler's (`CS/Scheduler.java:355`).  If both are under way, both wait for ever,
  and with them the server.  So nothing is said of experiments to end.
* A job that is cancelled between `schedule` and `addObserver`
  (`CS/ControlServer.java:175-180`) becomes CANCELLING while nobody observes it: no
  CANCELJOB is written, and NEWJOB is.
* After a crash of a worker its bundles are still installed: `"true"`
  (`W/WorkerMain.java:106`) is no value of the framework's property.
  `installBundle` (`W/ServiceDirectory.java:322`) then returns the old bundle, which
  may be older than what the server had at the start, and so than the one in the cache.
  `FreshSinceStart` exempts what is `inherited`.
* A JobThread that is stopped (`W/Experimentor.java:82`) while it writes never calls
  `doNotify`, so that every other thread of the worker that sends waits for ever,
  the Communicator's included; so does `connect` when it returns early
  (`W/Communicator.java:330`) after `doWait`.  `GateNotLost` says that nothing else
  loses the gate.
* `startJob` starts the job's thread before `addObserver` (`W/Communicator.java:395`).
  If the job ends in between, the server hears JOBFINISHED and no STATECHANGE,
  and the job stays INITIALIZING forever: `EndedBeforeFinished` fails unless
  `Timely`.
* CANCELLING does not accept SUCCESS, so a job that returns while it
  is being cancelled ends its thread with an exception and no JOBFINISHED.
* A refused job goes back to NEW and into no list from which it would be
  scheduled again, although `Job.State` has the transition for it.
* A worker that was unregistered stays in `unemployedWorkers`, so a job may be
  given to a worker that is not connected; `sendJob` then throws and the job
  stays SCHEDULED.
* `waitingForWorkers` holds one experiment per worker: if two ask for the same
  one, the second displaces the first, which may never be scheduled.  The map is not
  updated when a worker is unassigned either, hence `AssignedWorkersOnly` is
  checked without reassignment.
* An experiment is ACTIVE as soon as one of its jobs was ever scheduled, whether
  or not any is running.
* When all jobs of an experiment that is READY are cancelled one by one, it ends
  but stays in the queue, and `schedule` makes it ACTIVE again:
  `FinishedStays` is checked and proved for users who only start experiments.
* The link that removes a job cancels it first, which leaves the state in which
  jobs may be removed, so that `removeJob` throws.
* CANCELJOB is written without `doWait` and followed by `doNotify`, which opens
  the gate for others while a message is half written.
* The table of exporters is only ever added to.  `updateExporter` stops at the
  first package that has a provider of the bundle's name, so that a new version
  is not recorded although its comment says that an entry is overwritten, and a
  package that only the new version exports gets no entry (`ExportsAreFound`
  needs `SameExports`); a second bundle that exports a package is not recorded
  either, since `createUpdatedProviderEntry` looks for the bundle's name in the
  entry; and a package that a bundle no longer exports keeps leading to it, on
  which `resolve` calls itself until the stack overflows (`EverySearchEnds` needs
  `Stable`), which ends the worker with exit code 12.
* A bundle that imports a package it exports itself can never be resolved: the
  package is skipped, stays in `toResolve`, and "Nothing changed in this step".
* `getProviders` promises "all bundles exporting the given package" and returns
  one per name; `testGetProviders`, which expects two of `aLeaf`, has no `@Test`.
* A kill between `installBundle` and `installedBundles.put` leaves a bundle
  installed that `stopAllBundles` does not know, although "after this has been
  called all bundles are uninstalled" (`W/ServiceDirectory.java:348`); `CleanStart`
  asks only that none is active.  A kill while `stopAllBundles` runs leaves bundles
  in the maps that the framework has uninstalled: a later job fails with
  IllegalStateException, and so does its end.  `orderly` excludes this as the
  first job's end was then never reported; the server sends another job only when
  the worker has come back after a lost connection.
* After a crash, an experiment that was READY is new again, one that was ACTIVE is
  loaded with its jobs and never scheduled; the counters start at 0, so that the
  outcome of an experiment some of whose jobs were loaded as finished depends on
  the others alone: `OutcomeMatchesJobs` is checked without crashes.
* With minimization the reference point is the worst of the front itself, so that
  adding a dominated point to a front may enlarge its metric.

## 6. What is not modelled

*Inside the modules.*  Descriptors are identified by name.  JobProtocol has
whole messages and no PING, PONG, LOGGING, TERMINATION, RESET or JOBFAILED (a
job that cannot be parsed), no upload and no `killWorker`; a failing
`meter.send` is left out, a failing `stopAllBundles` is in ServiceDirectory only.  What runs under one lock is one step, so that the
order in which locks are taken, and who waits for whom, is not visible.  The threads
of one worker that have left their loop do what they have to do one after the
other; what the first `BufferedReader` of a new connection has read beyond the
greeting, and so keeps from the reader's, is not lost; `killJob` of the server
reads the job's state, its worker and that worker's job in one step.  In
ExperimentScheduler `HandOut` and `CancelExperiment` are one step each, without a
crash in between, and experiments are not paused: no code calls it.  Spurious
wake-ups of `wait` are left out of SendGate.  BundleStore has one search and one
upload at a time, a search that a cancellation of the job ends is not shown, and a
bundle that exports a package in no or more than one version, at which
`exportedBy` throws (`C/DependencyManager.java:161`), is not uploaded; no
property depends on it.  ServiceDirectory abstracts what a job does with its services, failures
of the file system and of the framework itself.  SMetric has no rounding; the
contributions of points (`calcSMetricContrib`) and other static methods of
ParetoPoint are called by no code of the program.

*Components.*  Measurement, versions and parameters run on one thread and keep
nothing; they are planned (below).  Logging is a message like any other.
Configuration, start-up, the pages of the GUI and the example bundles hold no
state of the program's own.

*JavaScript.*  The program is written in Java.  Nearly all JavaScript in the
repository is `canvasExpress` with Ext and helpers, a plotting library the pages
include.  The program's own is `enhancements.js`, 149 lines that hide a feedback
panel after a while, scroll to a heading, and filter the rows of a table: state of
the page shown, which no part of the program depends on.

## 7. The plan

Done, in this order: JobState, JobProtocol, its proofs, ExperimentScheduler,
SendGate, its proofs, BundleStore, its proofs, JobLife with the proof of the
refinement, ServiceDirectory, crashes of the server in ExperimentScheduler,
SMetric, the proofs of ServiceDirectory and of ExperimentScheduler, the proofs of
JobProtocol that need `Timely`, the rest of those of BundleStore, the proofs of
SMetric.  Next, most important first:

1. `Monitors`: the locks of Scheduler, Experiment, CSJob and WorkerDescriptor and
   the order in which `schedule`, `JobObserver.update`, `cancel` and
   `handleMessages` take them; which pairs of threads are free from deadlock, and
   what that leaves of the promise that every experiment ends.
2. `Attendance`: PING, PONG, responsive flags, `loadWorkersFromDB` and
   descriptors of one name; the framing of messages.
3. Creation and repetition of experiments, which share lists.
4. `Versions`: parse, compare and merge of `C/BundleVersion.java` against sets of
   versions; `Measure` (`MongoBuilder.insert`, `find`) and `Parameters`
   (enumeration is complete and without repetition) against a reference.
5. Proofs: every safety property the passing runs check is proved; new ones come
   with the modules above.
