--------------------------- MODULE ServiceDirectory ---------------------------
(***************************************************************************)
(* How a worker gets the bundles its jobs need: the ServiceDirectory with  *)
(* its cache and its maps of installed and active bundles, the JobThreads  *)
(* that ask it for services and clean it up when they end, and Thread.stop, *)
(* which may interrupt them between any two calls.  The OSGi framework and *)
(* the bundle files on the control server are modelled as the directory    *)
(* uses them.  A bundle's content is a number that grows with every upload; *)
(* 0 stands for no file.  What a job does with its services is left out.   *)
(***************************************************************************)
EXTENDS Naturals, Sequences

CONSTANTS
    JobCount,     \* the number of jobs the worker is given
    Bundles,      \* the bundles' descriptors
    NoBundle,     \* null, where a bundle is expected
    Deps,         \* what resolveDependencies returns for a bundle, in order
    Needs,        \* the bundles a job asks for: algorithm, parser, others
    Providers,    \* the bundles that register the service they are asked for
    Present,      \* the bundles that are on the server at first, others may be
    Modes,        \* whether the worker may run in development mode
    MaxUploads,   \* how many bundles are uploaded anew, at most
    MaxRestarts   \* how often the worker's process is restarted, at most

Jobs == 1 .. JobCount
NoJob == 0
Contents == 0 .. MaxUploads + 1

ASSUME ServiceDirectoryAssumption ==
    /\ JobCount \in Nat /\ MaxUploads \in Nat /\ MaxRestarts \in Nat
    /\ NoBundle \notin Bundles
    /\ Deps \in [Bundles -> Seq(Bundles)]
    /\ Needs \in [Jobs -> Seq(Bundles) \ {<<>>}]
    /\ Providers \subseteq Bundles /\ Present \subseteq Bundles
    /\ Modes \subseteq BOOLEAN

VARIABLES
    server,       \* the content of the bundle files on the control server
    uploading,    \* the bundle whose file is being replaced there
    uploads,      \* the number of uploads so far
    development,  \* Config.getDevelopmentMode
    cache,        \* ServiceDirectory.cachedBundles, with the files' contents
    installed,    \* the keys of ServiceDirectory.installedBundles
    active,       \* the keys of ServiceDirectory.activeBundles
    framework,    \* the state of every bundle in the OSGi framework
    content,      \* the content of every bundle in the framework
    inherited,    \* history: the bundles it has had since before the worker started
    actual,       \* Experimentor.actualJob
    pc,           \* where the job's JobThread is
    need,         \* which of its services the job asks for
    todo,         \* the bundles startBundle has yet to install
    iter,         \* the loop of stopAllBundles: the map it runs over, what is left
    error,        \* the exception the job failed with
    stopping,     \* the jobs whose thread was stopped by killJob, not raised yet
    reported,     \* the jobs whose end the control server knows of
    restarts,     \* the number of restarts so far
    orderly,      \* history: the worker began with an empty framework, and no job was
                  \* sent before the one before was reported
    baseline      \* history: the server's contents when the worker started

serverVars == <<server, uploading, uploads>>
mapVars == <<cache, installed, active>>
osgiVars == <<framework, content, inherited>>
threadVars == <<pc, need, todo, iter, error>>
endVars == <<actual, stopping, reported>>
historyVars == <<development, restarts, orderly, baseline>>
vars == <<serverVars, mapVars, osgiVars, threadVars, endVars, historyVars>>

TryPhases == {"get", "resolve", "install", "record", "start", "started", "activate", "run"}
FinallyPhases == {"finally", "stop", "uninstall", "finish"}
Phases == {"none", "ended", "killed", "thrown", "lost"} \cup TryPhases \cup FinallyPhases

NoLoop == [map |-> {}, left |-> {}]

TypeOK ==
    /\ server \in [Bundles -> Contents] /\ uploading \in Bundles \cup {NoBundle}
    /\ uploads \in 0 .. MaxUploads /\ restarts \in 0 .. MaxRestarts
    /\ development \in Modes
    /\ cache \in [Bundles -> Contents] /\ installed \subseteq Bundles /\ active \subseteq Bundles
    /\ framework \in [Bundles -> {"uninstalled", "installed", "active"}]
    /\ content \in [Bundles -> Contents] /\ inherited \subseteq Bundles
    /\ actual \in Jobs \cup {NoJob}
    /\ pc \in [Jobs -> Phases]
    /\ need \in [Jobs -> Nat]
    /\ \A j \in Jobs : /\ need[j] \in 1 .. Len(Needs[j]) + 1
                       /\ need[j] > Len(Needs[j]) => pc[j] \notin TryPhases \ {"run"}
    /\ todo \in [Jobs -> Seq(Bundles)]
    /\ iter \in [Jobs -> [map : SUBSET Bundles, left : SUBSET Bundles]]
    /\ error \in [Jobs -> {"", "notfound", "noservice", "illegal"}]
    /\ stopping \subseteq Jobs /\ reported \subseteq Jobs
    /\ orderly \in BOOLEAN
    /\ baseline \in [Bundles -> Contents]

\* The worker has just started: what its cache holds has been validated.
Init ==
    /\ server \in [Bundles -> {0, 1}] /\ \A b \in Present : server[b] = 1
    /\ cache \in {c \in [Bundles -> {0, 1}] : \A b \in Bundles : c[b] <= server[b]}
    /\ development \in Modes
    /\ uploading = NoBundle /\ uploads = 0 /\ restarts = 0
    /\ installed = {} /\ active = {}
    /\ framework = [b \in Bundles |-> "uninstalled"]
    /\ content = [b \in Bundles |-> 0] /\ inherited = {}
    /\ actual = NoJob
    /\ pc = [j \in Jobs |-> "none"]
    /\ need = [j \in Jobs |-> 1]
    /\ todo = [j \in Jobs |-> <<>>]
    /\ iter = [j \in Jobs |-> NoLoop]
    /\ error = [j \in Jobs |-> ""]
    /\ stopping = {} /\ reported = {}
    /\ orderly = TRUE
    /\ baseline = server

-----------------------------------------------------------------------------
(* The control server.                                                     *)

\* BundleManager.upload of a descriptor that may exist: the old file is removed
\* before the new one is written.
BeginUpload(b) ==
    /\ uploading = NoBundle
    /\ uploads < MaxUploads
    /\ uploads' = uploads + 1
    /\ uploading' = b
    /\ server' = [server EXCEPT ![b] = 0]
    /\ UNCHANGED <<mapVars, osgiVars, threadVars, endVars, historyVars>>

FinishUpload ==
    /\ uploading # NoBundle
    /\ server' = [server EXCEPT ![uploading] = uploads + 1]
    /\ uploading' = NoBundle
    /\ UNCHANGED <<uploads, mapVars, osgiVars, threadVars, endVars, historyVars>>

-----------------------------------------------------------------------------
(* JobThread.run: the services.  A step of job j's thread that leaves the  *)
(* try block early goes on with the finally block.                         *)

Wanted(j) == Needs[j][need[j]]

GoTo(j, p) == pc' = [pc EXCEPT ![j] = p]

Fail(j, e) ==
    /\ GoTo(j, "finally")
    /\ error' = [error EXCEPT ![j] = e]

AtTry(j, p) ==
    /\ pc[j] = p
    /\ j \notin stopping
    /\ UNCHANGED <<serverVars, iter, endVars, historyVars>>

\* Experimentor.startJob, called for a NEWJOB if the worker is not busy.  The
\* server sends one when it knows that the worker's last job has ended, or when
\* the worker has lost its connection and come back.
StartJob(j) ==
    /\ actual = NoJob
    /\ pc[j] = "none"
    /\ \A i \in 1 .. j - 1 : pc[i] # "none"
    /\ actual' = j
    /\ GoTo(j, "get")
    /\ orderly' = (orderly /\ \A i \in 1 .. j - 1 : i \in reported)
    /\ UNCHANGED <<serverVars, mapVars, osgiVars, need, todo, iter, error, stopping, reported,
                   development, restarts, baseline>>

\* retrieveBundleFromControlServer(b), and on to phase p.
Retrieve(j, b, p) ==
    IF server[b] = 0
    THEN Fail(j, "notfound") /\ UNCHANGED cache
    ELSE GoTo(j, p) /\ cache' = [cache EXCEPT ![b] = server[b]] /\ UNCHANGED error

\* getService: an active or installed bundle is used as it is.  The cached one
\* is, unless in development mode: the descriptor built from a string names no
\* file, so downloadBundleAndCompareChecksum returns false whatever is cached.
Get(j) ==
    LET b == Wanted(j)
    IN  /\ AtTry(j, "get")
        /\ IF b \in active \/ b \in installed \/ (~ development /\ cache[b] # 0)
           THEN GoTo(j, IF b \in active THEN "activate" ELSE "resolve") /\ UNCHANGED <<cache, error>>
           ELSE Retrieve(j, b, "resolve")
        /\ UNCHANGED <<installed, active, osgiVars, need, todo>>

\* startBundle: resolveDependencies reads the entries of the bundle and of its
\* dependencies on the server.  The bundle itself is installed last.
Resolve(j) ==
    LET all == Append(Deps[Wanted(j)], Wanted(j))
    IN  /\ AtTry(j, "resolve")
        /\ IF \A i \in 1 .. Len(all) : server[all[i]] # 0
           THEN GoTo(j, "install") /\ todo' = [todo EXCEPT ![j] = all] /\ UNCHANGED error
           ELSE Fail(j, "notfound") /\ UNCHANGED todo
        /\ UNCHANGED <<mapVars, osgiVars, need>>

\* The next bundle of todo is dealt with.
NextBundle(j) ==
    /\ todo' = [todo EXCEPT ![j] = Tail(@)]
    /\ GoTo(j, IF Len(todo[j]) = 1 THEN "start" ELSE "install")

\* installBundle returns the bundle the framework has for the file, if any.
Install(j) ==
    LET b == Head(todo[j])
    IN  /\ AtTry(j, "install")
        /\ \/ /\ b \in installed
              /\ NextBundle(j)
              /\ UNCHANGED <<cache, osgiVars, error>>
           \/ /\ b \notin installed /\ cache[b] = 0
              /\ Retrieve(j, b, "install")
              /\ UNCHANGED <<osgiVars, todo>>
           \/ /\ b \notin installed /\ cache[b] # 0
              /\ GoTo(j, "record")
              /\ IF framework[b] = "uninstalled"
                 THEN /\ framework' = [framework EXCEPT ![b] = "installed"]
                      /\ content' = [content EXCEPT ![b] = cache[b]]
                      /\ UNCHANGED inherited
                 ELSE UNCHANGED osgiVars
              /\ UNCHANGED <<cache, todo, error>>
        /\ UNCHANGED <<installed, active, need>>

\* installedBundles.put.
RecordInstalled(j) ==
    /\ AtTry(j, "record")
    /\ installed' = installed \cup {Head(todo[j])}
    /\ NextBundle(j)
    /\ UNCHANGED <<cache, active, osgiVars, need, error>>

\* Bundle.start: the bundle and what it depends on must be there.
StartBundle(j) ==
    LET b == Wanted(j)
        there == /\ b \in installed /\ framework[b] # "uninstalled"
                 /\ \A i \in 1 .. Len(Deps[b]) : framework[Deps[b][i]] # "uninstalled"
    IN  /\ AtTry(j, "start")
        /\ IF b \in active
           THEN GoTo(j, "activate") /\ UNCHANGED <<framework, error>>
           ELSE IF there
                THEN /\ GoTo(j, "started")
                     /\ framework' = [framework EXCEPT ![b] = "active"]
                     /\ UNCHANGED error
                ELSE Fail(j, "illegal") /\ UNCHANGED framework
        /\ UNCHANGED <<mapVars, content, inherited, need, todo>>

\* activeBundles.put.
RecordActive(j) ==
    /\ AtTry(j, "started")
    /\ active' = active \cup {Wanted(j)}
    /\ GoTo(j, "activate")
    /\ UNCHANGED <<cache, installed, osgiVars, need, todo, error>>

\* Mutant of Activate: the last service is not told from the others.
ActivateAll(j) ==
    /\ AtTry(j, "activate")
    /\ GoTo(j, "get")
    /\ need' = [need EXCEPT ![j] = @ + 1]
    /\ UNCHANGED <<mapVars, osgiVars, todo, error>>

\* activateService; then the next service, or the algorithm runs.
Activate(j) ==
    LET b == Wanted(j)
    IN  /\ AtTry(j, "activate")
        /\ IF b \in active /\ framework[b] = "active" /\ b \in Providers
           THEN /\ GoTo(j, IF need[j] = Len(Needs[j]) THEN "run" ELSE "get")
                /\ need' = [need EXCEPT ![j] = @ + 1]
                /\ UNCHANGED error
           ELSE /\ Fail(j, IF b \notin active \/ framework[b] = "uninstalled"
                           THEN "illegal" ELSE "noservice")
                /\ UNCHANGED need
        /\ UNCHANGED <<mapVars, osgiVars, todo>>

\* The algorithm returns or throws.
EndRun(j) ==
    /\ AtTry(j, "run")
    /\ GoTo(j, "finally")
    /\ UNCHANGED <<mapVars, osgiVars, need, todo, error>>

-----------------------------------------------------------------------------
(* Experimentor.experimentFinished, called in the finally block.  What is  *)
(* thrown here leaves run: the job's final state is never set.             *)

AtFinally(j, p) ==
    /\ pc[j] = p
    /\ j \notin stopping
    /\ UNCHANGED <<serverVars, cache, need, todo, error, stopping, historyVars>>

\* Mutant of ClearJob: the job's end is reported before the bundles are stopped.
ClearJobReported(j) ==
    /\ AtFinally(j, "finally")
    /\ actual' = NoJob
    /\ reported' = reported \cup {j}
    /\ GoTo(j, "stop")
    /\ iter' = [iter EXCEPT ![j] = [map |-> active, left |-> active]]
    /\ UNCHANGED <<installed, active, osgiVars>>

\* The worker is free; stopAllBundles begins with the active bundles.
ClearJob(j) ==
    /\ AtFinally(j, "finally")
    /\ actual' = NoJob
    /\ GoTo(j, "stop")
    /\ iter' = [iter EXCEPT ![j] = [map |-> active, left |-> active]]
    /\ UNCHANGED <<installed, active, osgiVars, reported>>

\* The loop over map m meets bundle b: an uninstalled bundle throws, and so may
\* the iterator if another thread has changed the map since the loop began.
Visit(j, b, m, done) ==
    /\ b \in iter[j].left
    /\ \/ /\ framework[b] = "uninstalled" \/ m # iter[j].map
          /\ GoTo(j, "thrown")
          /\ UNCHANGED <<osgiVars, iter>>
       \/ /\ framework[b] # "uninstalled"
          /\ framework' = [framework EXCEPT ![b] = done]
          /\ content' = [content EXCEPT ![b] = IF done = "uninstalled" THEN 0 ELSE @]
          /\ inherited' = IF done = "uninstalled" THEN inherited \ {b} ELSE inherited
          /\ iter' = [iter EXCEPT ![j].left = @ \ {b}]
          /\ UNCHANGED pc
    /\ UNCHANGED <<installed, active, actual, reported>>

Stop(j) ==
    /\ AtFinally(j, "stop")
    /\ \E b \in Bundles : Visit(j, b, active, "installed")

\* Mutant of ClearActive: the map of active bundles is not cleared.
ClearActiveForgotten(j) ==
    /\ AtFinally(j, "stop")
    /\ iter[j].left = {}
    /\ GoTo(j, "uninstall")
    /\ iter' = [iter EXCEPT ![j] = [map |-> installed, left |-> installed]]
    /\ UNCHANGED <<active, installed, osgiVars, actual, reported>>

\* activeBundles.clear(), and on to the installed bundles.
ClearActive(j) ==
    /\ AtFinally(j, "stop")
    /\ iter[j].left = {}
    /\ active' = {}
    /\ GoTo(j, "uninstall")
    /\ iter' = [iter EXCEPT ![j] = [map |-> installed, left |-> installed]]
    /\ UNCHANGED <<installed, osgiVars, actual, reported>>

Uninstall(j) ==
    /\ AtFinally(j, "uninstall")
    /\ \E b \in Bundles : Visit(j, b, installed, "uninstalled")

\* Mutant of ClearInstalled: the map of installed bundles is not cleared.
ClearInstalledForgotten(j) ==
    /\ AtFinally(j, "uninstall")
    /\ iter[j].left = {}
    /\ GoTo(j, "finish")
    /\ UNCHANGED <<installed, active, osgiVars, iter, actual, reported>>

\* installedBundles.clear().
ClearInstalled(j) ==
    /\ AtFinally(j, "uninstall")
    /\ iter[j].left = {}
    /\ installed' = {}
    /\ iter' = [iter EXCEPT ![j] = NoLoop]
    /\ GoTo(j, "finish")
    /\ UNCHANGED <<active, osgiVars, actual, reported>>

\* The final state and JOB_FINISHED.
ReportEnd(j) ==
    /\ AtFinally(j, "finish")
    /\ reported' = reported \cup {j}
    /\ GoTo(j, "ended")
    /\ UNCHANGED <<installed, active, osgiVars, iter, actual>>

-----------------------------------------------------------------------------
(* Kills and restarts.                                                     *)

\* Experimentor.killJob: Thread.stop of the thread of the actual job.
KillJob(j) ==
    /\ actual = j
    /\ stopping' = stopping \cup {j}
    /\ UNCHANGED <<serverVars, mapVars, osgiVars, threadVars, actual, reported, historyVars>>

\* The KillJobException is raised, between any two steps; only the try block
\* catches it.
RaiseKill(j) ==
    /\ j \in stopping
    /\ pc[j] \in TryPhases \cup FinallyPhases
    /\ stopping' = stopping \ {j}
    /\ GoTo(j, IF pc[j] \in TryPhases THEN "finally" ELSE "killed")
    /\ UNCHANGED <<serverVars, mapVars, osgiVars, need, todo, iter, error, actual, reported, historyVars>>

\* Mutant of Validate: the constructor keeps every file it finds.
ValidateNothing(b) == cache[b]

\* validateCachedBundles, for one bundle of the cache.
Validate(b) == IF cache[b] = server[b] THEN cache[b] ELSE 0

\* The worker's process ends and is started again: the constructor of
\* ServiceDirectory finds the files in the cache, and the server counts the jobs as
\* failed.  The framework's storage is gone if WorkerMain.shutdownApplication has
\* removed it.  After a crash, or if it could not, the framework is as it was: it
\* would clean its storage itself only for the value "onFirstInit", where start
\* passes "true", and it starts again the bundles that were active.
Restart(kept) ==
    /\ restarts < MaxRestarts
    /\ restarts' = restarts + 1
    /\ cache' = [b \in Bundles |-> Validate(b)]
    /\ installed' = {} /\ active' = {}
    /\ IF kept
       THEN /\ inherited' = {b \in Bundles : framework[b] # "uninstalled"}
            /\ UNCHANGED <<framework, content>>
       ELSE /\ inherited' = {}
            /\ framework' = [b \in Bundles |-> "uninstalled"]
            /\ content' = [b \in Bundles |-> 0]
    /\ actual' = NoJob
    /\ stopping' = {}
    /\ pc' = [j \in Jobs |-> IF pc[j] = "none" THEN "none" ELSE "lost"]
    /\ need' = [j \in Jobs |-> 1]
    /\ todo' = [j \in Jobs |-> <<>>]
    /\ iter' = [j \in Jobs |-> NoLoop]
    /\ error' = [j \in Jobs |-> ""]
    /\ reported' = {j \in Jobs : pc[j] # "none"}
    /\ orderly' = (inherited' = {})
    /\ baseline' = server
    /\ UNCHANGED <<serverVars, development>>

-----------------------------------------------------------------------------
JobThread(j) ==
    \/ Get(j) \/ Resolve(j) \/ Install(j) \/ RecordInstalled(j) \/ StartBundle(j)
    \/ RecordActive(j) \/ Activate(j) \/ EndRun(j)
    \/ ClearJob(j) \/ Stop(j) \/ ClearActive(j) \/ Uninstall(j) \/ ClearInstalled(j) \/ ReportEnd(j)
    \/ RaiseKill(j)

Next ==
    \/ \E b \in Bundles : BeginUpload(b)
    \/ FinishUpload
    \/ \E j \in Jobs : StartJob(j) \/ JobThread(j) \/ KillJob(j)
    \/ \E kept \in BOOLEAN : Restart(kept)

Spec == Init /\ [][Next]_vars

-----------------------------------------------------------------------------
(* Properties.  The first four are about orderly runs, in which the worker *)
(* begins with an empty framework and the server sends a job when it knows *)
(* that the one before has ended, with kills at every moment.              *)

\* "A clear working environment" (stopAllBundles): when a job begins the maps
\* are empty and no bundle of the job before is active, however it ended.
CleanStart ==
    orderly => \A j \in Jobs : pc[j] = "get" /\ need[j] = 1 =>
                   /\ active = {} /\ installed = {}
                   /\ \A b \in Bundles : framework[b] # "active"

\* The bundles whose services a job was given stay active while it runs: no
\* other job's end stops them.
JobKeepsServices ==
    orderly => \A j \in Jobs : pc[j] \in TryPhases =>
                   \A i \in 1 .. need[j] - 1 : framework[Needs[j][i]] = "active"

\* A job fails for want of a service only if the server misses a bundle or the
\* bundle registers no such service, never for what the job before left behind
\* (getService, activateService).
BlamelessFailure ==
    orderly => \A j \in Jobs : /\ error[j] # "illegal"
                               /\ error[j] = "noservice" => Wanted(j) \notin Providers

\* A job's end is always reported, unless it is killed while it ends: cleaning
\* up throws nothing itself (experimentFinished).
EndIsReported == orderly => \A j \in Jobs : pc[j] # "thrown"

\* A bundle that is older than the server's was when the worker started is in the
\* framework only if a process that crashed has left it there: the cache is
\* validated (validateCachedBundles) and grows only by what the server has, but
\* installBundle returns what the framework has.  This holds whatever is cached,
\* killed or overlaps, and as soon as an inherited bundle has been uninstalled.
FreshSinceStart ==
    \A b \in Bundles : framework[b] # "uninstalled" /\ b \notin inherited =>
                           content[b] >= baseline[b]

=============================================================================
