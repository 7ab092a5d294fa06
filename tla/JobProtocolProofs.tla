-------------------------- MODULE JobProtocolProofs --------------------------
(***************************************************************************)
(* Proofs about JobProtocol for any number of workers, jobs and faults,    *)
(* under every interleaving (Timely or not).                               *)
(***************************************************************************)
EXTENDS JobProtocol, TLAPS

-----------------------------------------------------------------------------
(* Type correctness.                                                       *)

\* schedule has returned a job, and given it a worker, wherever run uses it.
MainHasJob == main # "schedule" => next > 1 /\ jobWorker[Scheduled] \in Workers

\* A job that the server observes has been given a worker.
ObservedHaveWorkers == \A j \in observed : jobWorker[j] \in Workers

\* What a thread has yet to do is about no job that still waits.
KnownSteps == {s \in Step : s.job < next}
StepsAreKnown == todo \in [ServerThreads -> Seq(KnownSteps)]

\* The types, inductive together with what the threads of the server are about.
TypeInv == TypeOK /\ MainHasJob /\ ObservedHaveWorkers /\ StepsAreKnown

\* Final states are states, and the messages the two ends build are messages.
LEMMA JobStatesClosed ==
    /\ FinalStates \subseteq JobStates
    /\ \A k \in Kinds : Msg(k) \in Message
    /\ \A j \in Jobs \cup {NoJob} : NewJob(j) \in Message
    /\ \A s \in JobStates : StateChange(s) \in Message
  BY DEF FinalStates, JobStates, PredefinedStates, Custom, Kinds, Msg, NewJob, StateChange, Message

\* The job schedule has returned is one of those before next.
LEMMA ScheduledType ==
  ASSUME TypeInv, main # "schedule"
  PROVE  /\ Scheduled \in Jobs /\ Scheduled < next /\ next \in Nat
         /\ jobWorker[Scheduled] \in Workers
  <1>1. next \in 1 .. JobCount + 1 /\ JobCount \in Nat /\ next > 1
    BY JobProtocolAssumption DEF TypeInv, TypeOK, MainHasJob
  <1> QED BY <1>1 DEF TypeInv, MainHasJob, Scheduled, Jobs

\* The threads of the server have the names GoesOn and its callers use.
LEMMA ThreadsNamed ==
    /\ MainThread \in ServerThreads /\ GuiThread \in ServerThreads
    /\ \A w \in Workers : Reader(w) \in ServerThreads /\ Closer(w) \in ServerThreads
  BY DEF ServerThreads, MainThread, GuiThread, Reader, Closer

\* The steps that the methods are taken apart into are steps.
LEMMA StepsTyped ==
  ASSUME TypeOK
  PROVE  /\ KnownSteps \subseteq Step /\ next \in Nat /\ 0 < next
         /\ \A k \in Steps, w \in Workers : Do(k, w) \in KnownSteps
         /\ \A w \in Workers : WithJob(w, NoJob) \in KnownSteps
         /\ \A k \in Steps, w \in Workers, s \in WorkerStates : WithState(k, w, s) \in KnownSteps
  <1>1. next \in Nat /\ 0 < next
    BY JobProtocolAssumption DEF TypeOK
  <1> QED BY <1>1 DEF KnownSteps, Step, Steps, Do, WithJob, WithState, WorkerStates, NoJob

\* Sequences of known steps are put together to such sequences.
LEMMA SeqsOfSteps ==
  ASSUME NEW S
  PROVE  /\ <<>> \in Seq(S)
         /\ \A a \in S : <<a>> \in Seq(S)
         /\ \A a \in S, b \in S : <<a, b>> \in Seq(S)
         /\ \A a \in S, b \in S, c \in S : <<a, b, c>> \in Seq(S)
         /\ \A a \in S, b \in S, c \in S, d \in S : <<a, b, c, d>> \in Seq(S)
         /\ \A p \in Seq(S), q \in Seq(S) : p \o q \in Seq(S)
         /\ \A p \in Seq(S) : p # <<>> => Head(p) \in S /\ Tail(p) \in Seq(S)
  OBVIOUS

\* setJob(null) and what a closed socket leaves to do are known steps.
LEMMA PartsTyped ==
  ASSUME TypeOK, NEW w \in Workers
  PROVE  /\ SetJob(w, NoJob) \in Seq(KnownSteps)
         /\ LeaveLoop(w) \in Seq(KnownSteps)
  <1>1. SetJob(w, NoJob) \in Seq(KnownSteps)
    BY StepsTyped, SeqsOfSteps DEF SetJob, Steps, WorkerStates
  <1>2. LeaveLoop(w) \in Seq(KnownSteps)
    BY StepsTyped, SeqsOfSteps DEF LeaveLoop, Steps
  <1> QED BY <1>1, <1>2

\* If Timely no thread has anything left to do, so none goes on.
LEMMA NobodyGoesOn ==
  ASSUME TypeOK, Timely, NEW t \in ServerThreads
  PROVE  ~ GoesOn(t)
  BY DEF TypeOK, GoesOn, At, WriteJob, SetState, WriteState, Notify, Update, Register, Unregister,
         StartReader, PutThread, Leave, Drop, FailJob

\* Nobody is left with steps to do, and whoever loses a worker is done with it.
LEMMA TimelyNext ==
  ASSUME Timely, TypeInv, [Next]_vars
  PROVE  \/ Main \/ UNCHANGED vars
         \/ \E w \in Workers : ReaderThread(w) \/ Communicator(w) \/ Connect(w)
         \/ \E w \in Workers : /\ LoseConnection(w) \/ CrashWorker(w) \/ AttendanceTimeout(w)
                               /\ Disconnect(w)
         \/ \E j \in Jobs : JobThread(j) \/ Throw(j) \/ Cancel(j)
  <1>1. \A t \in ServerThreads : ~ GoesOn(t)
    BY NobodyGoesOn DEF TypeInv
  <1> QED BY <1>1 DEF Next, LoseConnection, CrashWorker, AttendanceTimeout

\* A message of the worker keeps the type of the channels to the server.
LEMMA SendType ==
  ASSUME TypeOK, NEW w \in Workers \cup {NoWorker}, NEW m \in Message, Send(w, m)
  PROVE  toServer' \in [Workers -> Seq(Message)]
  BY DEF TypeOK, Send

\* What the pieces of the server's handlers keep.
RecordsTyped ==
    /\ wdState \in [Workers -> WorkerStates]
    /\ wdJob \in [Workers -> Jobs \cup {NoJob}]
    /\ unemployed \subseteq Workers
NothingToDo == Timely => \A t \in ServerThreads : todo[t] = <<>>

\* A worker that becomes unemployed keeps the types of its three records.
LEMMA FreeWorkerType ==
  ASSUME TypeInv, NEW t \in ServerThreads, NEW w \in Workers, NEW rest \in Seq(KnownSteps),
         FreeWorker(t, w, rest)
  PROVE  RecordsTyped' /\ NothingToDo' /\ todo' \in [ServerThreads -> Seq(KnownSteps)]
  <1>1. CASE Timely
    <2>1. RecordsTyped'
      <3>1. "unemployed" \in WorkerStates
        BY DEF WorkerStates
      <3>2. wdState' \in [Workers -> WorkerStates]
        BY <1>1, <3>1 DEF TypeInv, TypeOK, FreeWorker
      <3>3. wdJob' \in [Workers -> Jobs \cup {NoJob}] /\ unemployed' \subseteq Workers
        BY <1>1 DEF TypeInv, TypeOK, FreeWorker
      <3> QED BY <3>2, <3>3 DEF RecordsTyped
    <2>2. UNCHANGED todo
      BY <1>1 DEF FreeWorker
    <2> QED BY <2>1, <2>2 DEF TypeInv, TypeOK, StepsAreKnown, NothingToDo
  <1>2. CASE ~ Timely
    <2> DEFINE q == SetJob(w, NoJob) \o <<WithState("setState", w, "unemployed")>> \o rest
    <2>1. <<WithState("setState", w, "unemployed")>> \in Seq(KnownSteps)
      BY StepsTyped, SeqsOfSteps DEF TypeInv, Steps, WorkerStates
    <2>2. q \in Seq(KnownSteps)
      BY <2>1, PartsTyped, SeqsOfSteps DEF TypeInv
    <2>3. todo' = [todo EXCEPT ![t] = q] /\ UNCHANGED <<wdJob, wdState, unemployed>>
      BY <1>2 DEF FreeWorker
    <2> HIDE DEF q
    <2> QED BY <1>2, <2>2, <2>3 DEF TypeInv, TypeOK, StepsAreKnown, RecordsTyped, NothingToDo
  <1> QED BY <1>1, <1>2

\* So does one that is given a job that does not wait any more.
LEMMA EmployWorkerType ==
  ASSUME TypeInv, NEW t \in ServerThreads, NEW w \in Workers, NEW j \in Jobs, EmployWorker(t, w, j),
         KnownSteps \subseteq KnownSteps', WithJob(w, j) \in KnownSteps'
  PROVE  RecordsTyped' /\ NothingToDo' /\ todo' \in [ServerThreads -> Seq(KnownSteps')]
  <1>1. todo \in [ServerThreads -> Seq(KnownSteps')]
    <2>1. \A q \in Seq(KnownSteps) : q \in Seq(KnownSteps')
      OBVIOUS
    <2> QED BY <2>1 DEF TypeInv, StepsAreKnown
  <1>2. CASE Timely
    <2>1. RecordsTyped'
      BY <1>2 DEF TypeInv, TypeOK, EmployWorker, RecordsTyped, WorkerStates
    <2>2. UNCHANGED todo
      BY <1>2 DEF EmployWorker
    <2> QED BY <1>1, <2>1, <2>2 DEF TypeInv, TypeOK, NothingToDo
  <1>3. CASE ~ Timely
    <2>1. WithState("setState", w, IF j = NoJob THEN "unemployed" ELSE "employed") \in KnownSteps'
      BY StepsTyped DEF TypeInv, Steps, WorkerStates
    <2>2. SetJob(w, j) \in Seq(KnownSteps')
      BY <2>1, SeqsOfSteps DEF SetJob
    <2>3. todo' = [todo EXCEPT ![t] = SetJob(w, j)] /\ UNCHANGED <<wdJob, wdState, unemployed>>
      BY <1>3 DEF EmployWorker
    <2> QED BY <1>1, <1>3, <2>2, <2>3 DEF TypeInv, TypeOK, RecordsTyped, NothingToDo
  <1> QED BY <1>2, <1>3

\* A job's change of state, with what its observers do, keeps the types.
LEMMA SetJobStateType ==
  ASSUME TypeInv, NEW t \in ServerThreads, NEW j \in Jobs, NEW s \in JobStates,
         NEW rest \in Seq(KnownSteps), Timely => rest = <<>>, SetJobState(t, j, s, rest)
  PROVE  /\ csState' \in [Jobs -> JobStates]
         /\ observed' \subseteq observed
         /\ RecordsTyped' /\ NothingToDo' /\ todo' \in [ServerThreads -> Seq(KnownSteps)]
         /\ toWorker' \in [Workers -> Seq(Message)]
  <1>1. csState' \in [Jobs -> JobStates]
    BY DEF TypeInv, TypeOK, SetJobState
  <1>2. /\ observed' \subseteq observed
        /\ RecordsTyped' /\ NothingToDo' /\ todo' \in [ServerThreads -> Seq(KnownSteps)]
    <2>1. CASE csState[j] # s /\ j \in observed /\ IsFinal(s)
      <3>1. FreeWorker(t, jobWorker[j], rest) /\ observed' = observed \ {j} /\ jobWorker[j] \in Workers
        BY <2>1 DEF SetJobState, TypeInv, ObservedHaveWorkers
      <3> QED BY <3>1, FreeWorkerType
    <2>2. CASE ~ (csState[j] # s /\ j \in observed /\ IsFinal(s))
      <3>1. todo' = [todo EXCEPT ![t] = rest] /\ UNCHANGED <<wdJob, wdState, unemployed, observed>>
        BY <2>2 DEF SetJobState
      <3> QED BY <3>1 DEF TypeInv, TypeOK, StepsAreKnown, RecordsTyped, NothingToDo
    <2> QED BY <2>1, <2>2
  <1>3. toWorker' \in [Workers -> Seq(Message)]
    <2>1. Msg("CANCELJOB") \in Message
      BY JobStatesClosed DEF Kinds
    <2>2. \A q \in Seq(Message) : Append(q, Msg("CANCELJOB")) \in Seq(Message)
      BY <2>1
    <2> QED BY <2>2 DEF TypeInv, TypeOK, SetJobState
  <1> QED BY <1>1, <1>2, <1>3

\* Reading a message and writing one keep the channels' types.
LEMMA ReceiveType ==
  ASSUME TypeOK, NEW w \in Workers, NEW k, Receive(w, k)
  PROVE  /\ toServer' \in [Workers -> Seq(Message)]
         /\ Head(toServer[w]) \in Message
  BY DEF TypeOK, Receive

\* Reading from the channel keeps its type and yields a message.
LEMMA TakeType ==
  ASSUME TypeOK, NEW w \in Workers, NEW k, Take(w, k)
  PROVE  /\ toWorker' \in [Workers -> Seq(Message)]
         /\ Head(toWorker[w]) \in Message
  BY DEF TypeOK, Take

\* A state that the worker's job reports keeps the channels' type.
LEMMA ReportType ==
  ASSUME TypeOK, NEW w \in Workers \cup {NoWorker}, NEW j \in Jobs, NEW s \in JobStates, Report(w, j, s)
  PROVE  toServer' \in [Workers -> Seq(Message)]
  BY SendType, JobStatesClosed DEF TypeOK, Report

\* What a step of a worker's changes.
WorkersTyped ==
    /\ toWorker \in [Workers -> Seq(Message)]
    /\ toServer \in [Workers -> Seq(Message)]
    /\ actualJob \in [Workers -> Jobs \cup {NoJob}]
    /\ actualThread \in [Workers -> Jobs \cup {NoJob}]
    /\ comm \in [Workers -> {"read", "start", "observe", "busy", "stop", "died"}]
    /\ wkState \in [Jobs -> JobStates]
    /\ wkObserved \subseteq Jobs
    /\ host \in [Jobs -> Workers \cup {NoWorker}]
    /\ thread \in [Jobs -> Phases]
    /\ outcome \in [Jobs -> FinalStates]
    /\ stopping \subseteq Jobs

\* A worker's step keeps the types if it keeps those.
LEMMA WorkerType ==
  ASSUME TypeInv, UNCHANGED <<csVars, schedVars, linkVars>>, WorkersTyped'
  PROVE  TypeInv'
  <1>1. TypeOK'
    BY DEF TypeInv, TypeOK, WorkersTyped, csVars, schedVars, linkVars
  <1>2. MainHasJob' /\ ObservedHaveWorkers' /\ StepsAreKnown'
    BY DEF TypeInv, MainHasJob, Scheduled, ObservedHaveWorkers, StepsAreKnown, KnownSteps, csVars, schedVars
  <1> QED BY <1>1, <1>2 DEF TypeInv

\* What a step of the server's changes, if not a job's worker or the workers.
ServerTyped ==
    /\ csState \in [Jobs -> JobStates]
    /\ RecordsTyped
    /\ registered \subseteq Workers
    /\ connected \subseteq Workers
    /\ linked \subseteq connected
    /\ reading \subseteq Workers
    /\ Timely => linked = connected /\ reading \subseteq connected
    /\ NothingToDo
    /\ toWorker \in [Workers -> Seq(Message)]
    /\ toServer \in [Workers -> Seq(Message)]
    /\ faults \in 0 .. MaxFaults

\* A step of the server's, or one that breaks a connection, keeps the types if
\* it keeps those, and leaves the threads known steps.
LEMMA ServerType ==
  ASSUME TypeInv, UNCHANGED <<jobWorker, next>>, main' = main \/ main' = "schedule", ServerTyped',
         observed' \subseteq observed, todo' \in [ServerThreads -> Seq(KnownSteps)],
         /\ actualJob' \in [Workers -> Jobs \cup {NoJob}]
         /\ actualThread' \in [Workers -> Jobs \cup {NoJob}]
         /\ comm' \in [Workers -> {"read", "start", "observe", "busy", "stop", "died"}]
         /\ wkState' \in [Jobs -> JobStates]
         /\ wkObserved' \subseteq Jobs
         /\ host' \in [Jobs -> Workers \cup {NoWorker}]
         /\ thread' \in [Jobs -> Phases]
         /\ outcome' \in [Jobs -> FinalStates]
         /\ stopping' \subseteq Jobs
  PROVE  TypeInv'
  <1>1. todo' \in [ServerThreads -> Seq(Step)]
    <2>1. \A q \in Seq(KnownSteps) : q \in Seq(Step)
      BY DEF KnownSteps
    <2> QED BY <2>1
  <1>2. main' \in {"schedule", "check", "attach", "send"} /\ observed' \subseteq Jobs
    BY DEF TypeInv, TypeOK
  <1>3. jobWorker' \in [Jobs -> Workers \cup {NoWorker}] /\ next' \in 1 .. JobCount + 1
    BY DEF TypeInv, TypeOK
  <1>4. TypeOK'
    BY <1>1, <1>2, <1>3 DEF TypeOK, ServerTyped, RecordsTyped, NothingToDo
  <1>5. MainHasJob' /\ ObservedHaveWorkers'
    BY DEF TypeInv, MainHasJob, Scheduled, ObservedHaveWorkers
  <1>6. StepsAreKnown'
    BY DEF StepsAreKnown, KnownSteps
  <1> QED BY <1>4, <1>5, <1>6 DEF TypeInv

\* It keeps them if it also leaves the workers alone.
LEMMA ServerTypeAlone ==
  ASSUME TypeInv, UNCHANGED <<jobWorker, next, workerVars>>, main' = main \/ main' = "schedule", ServerTyped',
         observed' \subseteq observed, todo' \in [ServerThreads -> Seq(KnownSteps)]
  PROVE  TypeInv'
  <1>1. UNCHANGED <<actualJob, actualThread, comm, wkState, wkObserved, host, thread, outcome, stopping>>
    BY DEF workerVars, threadVars
  <1> QED BY <1>1, ServerType DEF TypeInv, TypeOK

\* The types a step of the server's begins with.
LEMMA ServerTypedNow ==
  ASSUME TypeInv
  PROVE  ServerTyped
  BY DEF TypeInv, TypeOK, ServerTyped, RecordsTyped, NothingToDo

\* The end of a connection keeps the types of everything the server records.
LEMMA DisconnectType ==
  ASSUME TypeInv, NEW w \in Workers, Disconnect(w), Timely, faults' \in 0 .. MaxFaults
  PROVE  /\ ServerTyped'
         /\ observed' \subseteq observed
         /\ todo' \in [ServerThreads -> Seq(KnownSteps)]
         /\ UNCHANGED <<jobWorker, next, main>>
  <1>1. "FAILED" \in JobStates
    BY JobStatesClosed DEF FinalStates
  <1>2. <<>> \in Seq(Message)
    OBVIOUS
  <1>3. wdJob' \in [Workers -> Jobs \cup {NoJob}]
    BY DEF TypeInv, TypeOK, Disconnect
  <1>4. wdState' \in [Workers -> WorkerStates]
    BY DEF TypeInv, TypeOK, Disconnect, WorkerStates
  <1>5. csState' \in [Jobs -> JobStates] /\ observed' \subseteq observed
    BY <1>1 DEF TypeInv, TypeOK, Disconnect
  <1>6. /\ toWorker' \in [Workers -> Seq(Message)]
        /\ toServer' \in [Workers -> Seq(Message)]
    BY <1>2 DEF TypeInv, TypeOK, Disconnect
  <1>7. /\ registered' \subseteq Workers /\ connected' \subseteq Workers /\ linked' = connected'
        /\ reading' \subseteq connected'
        /\ UNCHANGED <<jobWorker, unemployed, next, main, todo>>
    BY DEF TypeInv, TypeOK, Disconnect
  <1>8. RecordsTyped' /\ NothingToDo' /\ todo' \in [ServerThreads -> Seq(KnownSteps)]
    BY <1>3, <1>4, <1>7 DEF TypeInv, TypeOK, StepsAreKnown, RecordsTyped, NothingToDo
  <1>9. connected \subseteq Workers /\ reading' \subseteq Workers
    BY <1>7 DEF TypeInv, TypeOK
  <1> QED BY <1>5, <1>6, <1>7, <1>8, <1>9 DEF ServerTyped

\* A socket that is closed keeps the types of the connections.
LEMMA CloseType ==
  ASSUME TypeInv, NEW w \in Workers, Close(w)
  PROVE  /\ linked' \subseteq linked /\ reading' \subseteq Workers
         /\ toWorker' \in [Workers -> Seq(Message)]
         /\ toServer' \in [Workers -> Seq(Message)]
  <1>1. <<>> \in Seq(Message)
    OBVIOUS
  <1> QED BY <1>1 DEF Close, TypeInv, TypeOK

\* A connection that breaks keeps the types of everything the server records.
LEMMA BreakType ==
  ASSUME TypeInv, NEW w \in Workers, Break(w), ~ Timely, faults' \in 0 .. MaxFaults
  PROVE  /\ ServerTyped'
         /\ observed' \subseteq observed
         /\ todo' \in [ServerThreads -> Seq(KnownSteps)]
         /\ UNCHANGED <<jobWorker, next, main>>
  <1>1. /\ Close(w) /\ todo' = [todo EXCEPT ![Closer(w)] = @ \o LeaveLoop(w)]
        /\ UNCHANGED <<csState, observed, jobWorker, wdState, wdJob, schedVars, connected>>
    BY DEF Break
  <1>2. todo' \in [ServerThreads -> Seq(KnownSteps)]
    <2>1. todo[Closer(w)] \o LeaveLoop(w) \in Seq(KnownSteps)
      BY ThreadsNamed, PartsTyped, SeqsOfSteps DEF TypeInv, StepsAreKnown
    <2> QED BY <1>1, <2>1 DEF TypeInv, StepsAreKnown
  <1>3. ServerTyped'
    BY <1>1, CloseType, ServerTypedNow DEF ServerTyped, RecordsTyped, NothingToDo, schedVars
  <1> QED BY <1>1, <1>2, <1>3 DEF schedVars

\* A thread that goes on to another phase keeps the types.
LEMMA AdvanceType ==
  ASSUME TypeInv, NEW j \in Jobs, NEW p, NEW s \in JobStates, NEW q \in Phases, Advance(j, p, s, q)
  PROVE  TypeInv'
  <1>1. toServer' \in [Workers -> Seq(Message)]
    BY ReportType DEF TypeInv, TypeOK, Advance
  <1>2. /\ wkState' \in [Jobs -> JobStates]
        /\ thread' \in [Jobs -> Phases]
        /\ outcome' \in [Jobs -> FinalStates]
    BY DEF TypeInv, TypeOK, Advance, EndTry, Phases, TryPhases, FinallyPhases, FinalStates
  <1>3. UNCHANGED <<actualJob, actualThread, stopping, csVars, schedVars, linkVars, toWorker, comm, wkObserved,
                    host>>
    BY DEF Advance, ThreadUnchanged
  <1>4. WorkersTyped'
    BY <1>1, <1>2, <1>3 DEF TypeInv, TypeOK, WorkersTyped
  <1> QED BY <1>3, <1>4, WorkerType

\* The rest of what a thread has to do is known, and so is what it adds.
LEMMA GoOnType ==
  ASSUME TypeInv, NEW t \in ServerThreads, NEW k, At(t, k)
  PROVE  /\ ~ Timely
         /\ Target(t) \in Workers /\ Head(todo[t]) \in KnownSteps /\ Head(todo[t]) \in Step
         /\ Tail(todo[t]) \in Seq(KnownSteps)
         /\ \A more \in Seq(KnownSteps) : GoOn(t, more) => todo' \in [ServerThreads -> Seq(KnownSteps)]
  <1>1. ~ Timely /\ todo[t] \in Seq(KnownSteps) /\ todo[t] # <<>>
    BY DEF At, TypeInv, TypeOK, StepsAreKnown
  <1>2. Head(todo[t]) \in KnownSteps /\ Tail(todo[t]) \in Seq(KnownSteps)
    BY <1>1, SeqsOfSteps
  <1>3. ASSUME NEW more \in Seq(KnownSteps), GoOn(t, more) PROVE todo' \in [ServerThreads -> Seq(KnownSteps)]
    <2>1. more \o Tail(todo[t]) \in Seq(KnownSteps)
      BY <1>2, SeqsOfSteps
    <2> QED BY <1>3, <2>1 DEF GoOn, TypeInv, StepsAreKnown
  <1> QED BY <1>1, <1>2, <1>3 DEF KnownSteps, Step, Target

\* Every step of the methods that take no lock keeps the types: one case per kind.
LEMMA GoesOnType ==
  ASSUME TypeInv, NEW t \in ServerThreads, GoesOn(t)
  PROVE  TypeInv'
  <1> DEFINE w == Target(t)
  <1>0. ServerTyped /\ TypeOK
    BY ServerTypedNow DEF TypeInv
  <1>a. <<>> \in Seq(KnownSteps)
    BY SeqsOfSteps
  <1>1. CASE WriteJob(t)
    <2>1. At(t, "setJob") /\ Head(todo[t]).job \in Jobs \cup {NoJob} /\ GoOn(t, <<>>)
      BY <1>1, GoOnType DEF WriteJob, Step
    <2>2. ~ Timely /\ w \in Workers /\ todo' \in [ServerThreads -> Seq(KnownSteps)]
      BY <1>a, <2>1, GoOnType
    <2>3. wdJob' \in [Workers -> Jobs \cup {NoJob}]
      BY <1>0, <1>1, <2>1 DEF WriteJob, TypeOK
    <2>4. UNCHANGED <<csState, observed, jobWorker, wdState, schedVars, linkVars, chanVars, workerVars>>
      BY <1>1 DEF WriteJob
    <2>5. ServerTyped'
      BY <1>0, <2>2, <2>3, <2>4 DEF ServerTyped, RecordsTyped, NothingToDo, schedVars, linkVars, chanVars
    <2> QED BY <2>2, <2>4, <2>5, ServerTypeAlone DEF schedVars
  <1>2. CASE SetState(t)
    <2> DEFINE s == Head(todo[t]).state
               more == IF wdState[w] = s THEN <<>>
                       ELSE (IF s = "unemployed" THEN <<WithJob(w, NoJob)>> ELSE <<>>)
                                \o <<WithState("writeState", w, s), Do("notify", w)>>
    <2>1. At(t, "setState") /\ GoOn(t, more)
      BY <1>2 DEF SetState
    <2>2. w \in Workers /\ s \in WorkerStates
      BY <2>1, GoOnType DEF Step
    <2>3. more \in Seq(KnownSteps)
      <3> HIDE DEF s, w
      <3>1. <<WithState("writeState", w, s), Do("notify", w)>> \in Seq(KnownSteps)
        BY <1>0, <2>2, StepsTyped, SeqsOfSteps DEF Steps
      <3>2. (IF s = "unemployed" THEN <<WithJob(w, NoJob)>> ELSE <<>>) \in Seq(KnownSteps)
        BY <1>0, <2>2, StepsTyped, SeqsOfSteps
      <3>3. (IF s = "unemployed" THEN <<WithJob(w, NoJob)>> ELSE <<>>)
                \o <<WithState("writeState", w, s), Do("notify", w)>> \in Seq(KnownSteps)
        BY <3>1, <3>2, SeqsOfSteps
      <3> QED BY <1>a, <3>3
    <2> HIDE DEF more
    <2>4. ~ Timely /\ todo' \in [ServerThreads -> Seq(KnownSteps)]
      BY <2>1, <2>3, GoOnType
    <2>5. UNCHANGED <<csState, observed, jobWorker, wdState, wdJob, schedVars, linkVars, chanVars, workerVars>>
      BY <1>2 DEF SetState
    <2>6. ServerTyped'
      BY <1>0, <2>4, <2>5 DEF ServerTyped, RecordsTyped, NothingToDo, schedVars, linkVars, chanVars
    <2> QED BY <2>4, <2>5, <2>6, ServerTypeAlone DEF schedVars
  <1>3. CASE WriteState(t)
    <2>1. At(t, "writeState") /\ Head(todo[t]).state \in WorkerStates /\ GoOn(t, <<>>)
      BY <1>3, GoOnType DEF WriteState, Step
    <2>2. ~ Timely /\ w \in Workers /\ todo' \in [ServerThreads -> Seq(KnownSteps)]
      BY <1>a, <2>1, GoOnType
    <2>3. wdState' \in [Workers -> WorkerStates]
      BY <1>0, <1>3, <2>1 DEF WriteState, TypeOK
    <2>4. UNCHANGED <<csState, observed, jobWorker, wdJob, schedVars, linkVars, chanVars, workerVars>>
      BY <1>3 DEF WriteState
    <2>5. ServerTyped'
      BY <1>0, <2>2, <2>3, <2>4 DEF ServerTyped, RecordsTyped, NothingToDo, schedVars, linkVars, chanVars
    <2> QED BY <2>2, <2>4, <2>5, ServerTypeAlone DEF schedVars
  <1>4. CASE Notify(t)
    <2> DEFINE more == IF w \in registered THEN <<Do("update", w)>> ELSE <<>>
    <2>1. At(t, "notify") /\ GoOn(t, more)
      BY <1>4 DEF Notify
    <2>2. more \in Seq(KnownSteps)
      <3>1. w \in Workers
        BY <2>1, GoOnType
      <3> QED BY <1>0, <1>a, <3>1, StepsTyped, SeqsOfSteps DEF Steps
    <2> HIDE DEF more
    <2>3. ~ Timely /\ todo' \in [ServerThreads -> Seq(KnownSteps)]
      BY <2>1, <2>2, GoOnType
    <2>4. UNCHANGED <<csState, observed, jobWorker, wdState, wdJob, schedVars, linkVars, chanVars, workerVars>>
      BY <1>4 DEF Notify
    <2>5. ServerTyped'
      BY <1>0, <2>3, <2>4 DEF ServerTyped, RecordsTyped, NothingToDo, schedVars, linkVars, chanVars
    <2> QED BY <2>3, <2>4, <2>5, ServerTypeAlone DEF schedVars
  <1>5. CASE Update(t) \/ Register(t) \/ Unregister(t)
    <2>1. (\E k : At(t, k)) /\ GoOn(t, <<>>)
      BY <1>5 DEF Update, Register, Unregister
    <2>2. ~ Timely /\ w \in Workers /\ todo' \in [ServerThreads -> Seq(KnownSteps)]
      BY <1>a, <2>1, GoOnType
    <2>3. registered' \subseteq Workers /\ unemployed' \subseteq Workers
      BY <1>0, <1>5, <2>2 DEF Update, Register, Unregister, TypeOK
    <2>4. UNCHANGED <<csState, observed, jobWorker, wdState, wdJob, next, main, linkVars, chanVars, workerVars>>
      BY <1>5 DEF Update, Register, Unregister
    <2>5. ServerTyped'
      BY <1>0, <2>2, <2>3, <2>4 DEF ServerTyped, RecordsTyped, NothingToDo, linkVars, chanVars
    <2> QED BY <2>2, <2>4, <2>5, ServerTypeAlone
  <1>6. CASE StartReader(t) \/ Leave(t)
    <2>1. (\E k : At(t, k)) /\ GoOn(t, <<>>)
      BY <1>6 DEF StartReader, Leave
    <2>2. ~ Timely /\ todo' \in [ServerThreads -> Seq(KnownSteps)]
      BY <1>a, <2>1, GoOnType
    <2>3. UNCHANGED <<csState, observed, jobWorker, wdState, wdJob, schedVars, linkVars, chanVars, workerVars>>
      BY <1>6 DEF StartReader, Leave
    <2>4. ServerTyped'
      BY <1>0, <2>2, <2>3 DEF ServerTyped, RecordsTyped, NothingToDo, schedVars, linkVars, chanVars
    <2> QED BY <2>2, <2>3, <2>4, ServerTypeAlone DEF schedVars
  <1>7. CASE PutThread(t)
    <2>1. At(t, "put") /\ GoOn(t, <<>>)
      BY <1>7 DEF PutThread
    <2>2. ~ Timely /\ w \in Workers /\ todo' \in [ServerThreads -> Seq(KnownSteps)]
      BY <1>a, <2>1, GoOnType
    <2>3. connected' \subseteq Workers /\ linked' \subseteq connected'
      BY <1>0, <1>7, <2>2 DEF PutThread, TypeOK
    <2>4. UNCHANGED <<csState, observed, jobWorker, wdState, wdJob, schedVars, reading, faults, chanVars,
                      workerVars>>
      BY <1>7 DEF PutThread
    <2>5. ServerTyped'
      BY <1>0, <2>2, <2>3, <2>4 DEF ServerTyped, RecordsTyped, NothingToDo, schedVars, chanVars
    <2> QED BY <2>2, <2>4, <2>5, ServerTypeAlone DEF schedVars
  <1>8. CASE Drop(t)
    <2> DEFINE unavailable == WithState("setState", w, "unavailable")
               more == <<Do("unregister", w), Do("fail", w), unavailable>>
    <2>1. At(t, "drop")
      BY <1>8 DEF Drop
    <2>2. ~ Timely /\ w \in Workers /\ Tail(todo[t]) \in Seq(KnownSteps)
      BY <2>1, GoOnType
    <2>3. more \in Seq(KnownSteps) /\ <<unavailable>> \in Seq(KnownSteps) /\ LeaveLoop(w) \in Seq(KnownSteps)
      BY <1>0, <2>2, StepsTyped, SeqsOfSteps, PartsTyped DEF Steps, WorkerStates
    <2>4. /\ \/ todo' = [todo EXCEPT ![t] = more \o Tail(@) \o LeaveLoop(w)]
             \/ GoOn(t, more) \/ GoOn(t, <<unavailable>>)
          /\ Close(w) \/ UNCHANGED <<linked, reading, chanVars>>
          /\ connected' = connected \ {w} \/ connected' = connected
          /\ w \in linked => Close(w) \/ connected' = connected
          /\ connected' # connected => w \notin linked'
          /\ UNCHANGED <<csState, observed, jobWorker, wdState, wdJob, schedVars, faults, workerVars>>
      BY <1>8 DEF Drop, Close
    <2> HIDE DEF more, unavailable
    <2>5. todo' \in [ServerThreads -> Seq(KnownSteps)]
      <3>1. CASE todo' = [todo EXCEPT ![t] = more \o Tail(@) \o LeaveLoop(w)]
        <4>1. more \o Tail(todo[t]) \o LeaveLoop(w) \in Seq(KnownSteps)
          BY <2>2, <2>3, SeqsOfSteps
        <4> QED BY <3>1, <4>1 DEF TypeInv, StepsAreKnown
      <3> QED BY <2>1, <2>3, <2>4, <3>1, GoOnType
    <2>6. /\ linked' \subseteq linked /\ reading' \subseteq Workers
          /\ toWorker' \in [Workers -> Seq(Message)]
          /\ toServer' \in [Workers -> Seq(Message)]
      BY <1>0, <2>2, <2>4, CloseType DEF TypeOK, chanVars
    <2>7. connected' \subseteq Workers /\ linked' \subseteq connected'
      BY <1>0, <2>4, <2>6 DEF TypeOK
    <2>8. ServerTyped'
      BY <1>0, <2>2, <2>4, <2>6, <2>7 DEF ServerTyped, RecordsTyped, NothingToDo, schedVars
    <2> QED BY <2>4, <2>5, <2>8, ServerTypeAlone DEF schedVars
  <1>9. CASE FailJob(t)
    <2> DEFINE j == wdJob[w]
    <2>1. /\ At(t, "fail")
          /\ UNCHANGED <<jobWorker, registered, next, main, linkVars, toServer, workerVars>>
      BY <1>9 DEF FailJob
    <2>2. ~ Timely /\ w \in Workers /\ Tail(todo[t]) \in Seq(KnownSteps)
      BY <2>1, GoOnType
    <2>3. CASE j # NoJob /\ SetStateAccepts(csState[j], "FAILED")
      <3>1. j \in Jobs /\ SetJobState(t, j, "FAILED", Tail(todo[t]))
        BY <1>0, <1>9, <2>2, <2>3 DEF FailJob, TypeOK
      <3>2. "FAILED" \in JobStates
        BY JobStatesClosed DEF FinalStates
      <3> HIDE DEF j
      <3>3. /\ csState' \in [Jobs -> JobStates]
            /\ observed' \subseteq observed
            /\ RecordsTyped' /\ NothingToDo' /\ todo' \in [ServerThreads -> Seq(KnownSteps)]
            /\ toWorker' \in [Workers -> Seq(Message)]
        BY <2>2, <3>1, <3>2, SetJobStateType
      <3>4. ServerTyped'
        BY <1>0, <2>1, <3>3 DEF ServerTyped, linkVars
      <3> QED BY <2>1, <3>3, <3>4, ServerTypeAlone
    <2>4. CASE ~ (j # NoJob /\ SetStateAccepts(csState[j], "FAILED"))
      <3>1. GoOn(t, <<>>) /\ UNCHANGED <<csState, observed, wdState, wdJob, unemployed, toWorker>>
        BY <1>9, <2>4 DEF FailJob
      <3>2. todo' \in [ServerThreads -> Seq(KnownSteps)]
        BY <1>a, <2>1, <3>1, GoOnType
      <3>3. ServerTyped'
        BY <1>0, <2>1, <2>2, <3>1 DEF ServerTyped, RecordsTyped, NothingToDo, linkVars
      <3> QED BY <2>1, <3>1, <3>2, <3>3, ServerTypeAlone
    <2> QED BY <2>3, <2>4
  <1> QED
    BY <1>1, <1>2, <1>3, <1>4, <1>5, <1>6, <1>7, <1>8, <1>9 DEF GoesOn

\* Every step keeps the types: one case per action.
LEMMA TypeStep == TypeInv /\ [Next]_vars => TypeInv'
  <1> SUFFICES ASSUME TypeInv, [Next]_vars
               PROVE  TypeInv'
    OBVIOUS
  <1>0. TypeOK /\ ServerTyped
    BY ServerTypedNow DEF TypeInv
  <1>a. <<>> \in Seq(KnownSteps)
    BY SeqsOfSteps
  <1>1. ASSUME NEW w \in Workers, Schedule(w) PROVE TypeInv'
    <2>1. EmployWorker(MainThread, w, next) /\ next \in Jobs /\ next' = next + 1 /\ next \in Nat
      BY <1>0, <1>1, StepsTyped DEF Schedule
    <2>2. "SCHEDULED" \in JobStates
      BY DEF JobStates, PredefinedStates
    <2>3. next' \in 1 .. JobCount + 1 /\ next' > 1
      BY <2>1, JobProtocolAssumption DEF Jobs
    <2>4. csState' \in [Jobs -> JobStates] /\ jobWorker' = [jobWorker EXCEPT ![next] = w]
      BY <1>0, <1>1, <2>2 DEF TypeOK, Schedule
    <2>5. UNCHANGED <<observed, registered, linkVars, chanVars, workerVars>> /\ main' = "check"
      BY <1>1 DEF Schedule
    <2>6. KnownSteps \subseteq KnownSteps'
      <3>1. \A s \in Step : s.job \in Nat
        BY DEF Step, Jobs, NoJob
      <3>2. \A s \in Step : s.job < next => s.job < next'
        BY <2>1, <3>1
      <3> QED BY <3>2 DEF KnownSteps
    <2>7. WithJob(w, next) \in KnownSteps'
      BY <2>1 DEF WithJob, KnownSteps, Step, Steps, WorkerStates
    <2>8. RecordsTyped' /\ NothingToDo' /\ todo' \in [ServerThreads -> Seq(KnownSteps')]
      BY <2>1, <2>6, <2>7, ThreadsNamed, EmployWorkerType
    <2>9. todo' \in [ServerThreads -> Seq(Step)]
      <3>1. \A q \in Seq(KnownSteps') : q \in Seq(Step)
        BY DEF KnownSteps
      <3> QED BY <2>8, <3>1
    <2>10. jobWorker' \in [Jobs -> Workers \cup {NoWorker}]
      BY <1>0, <2>4 DEF TypeOK
    <2>11. TypeOK'
      BY <1>0, <2>3, <2>4, <2>5, <2>8, <2>9, <2>10
         DEF TypeOK, RecordsTyped, NothingToDo, linkVars, chanVars, workerVars, threadVars
    <2>12. MainHasJob'
      BY <1>0, <2>1, <2>3, <2>4 DEF TypeOK, MainHasJob, Scheduled
    <2>13. ObservedHaveWorkers'
      BY <1>0, <2>4, <2>5 DEF TypeInv, TypeOK, ObservedHaveWorkers
    <2> QED BY <2>8, <2>11, <2>12, <2>13 DEF TypeInv, StepsAreKnown
  <1>2. CASE Check
    <2>1. UNCHANGED <<csVars, registered, unemployed, next, linkVars, chanVars, workerVars>>
          /\ main = "check" /\ main' \in {"schedule", "attach"}
      BY <1>2 DEF Check
    <2>2. TypeOK'
      BY <1>0, <2>1 DEF TypeOK, csVars, linkVars, chanVars, workerVars, threadVars
    <2> QED BY <2>1, <2>2
            DEF TypeInv, MainHasJob, Scheduled, ObservedHaveWorkers, StepsAreKnown, KnownSteps, csVars
  <1>3. CASE Attach
    <2>1. /\ main # "schedule" /\ main' = "send"
          /\ observed' = observed \cup {Scheduled}
          /\ EmployWorker(MainThread, jobWorker[Scheduled], Scheduled)
          /\ UNCHANGED <<csState, jobWorker, registered, next, linkVars, chanVars, workerVars>>
      BY <1>3 DEF Attach
    <2>2. Scheduled \in Jobs /\ jobWorker[Scheduled] \in Workers /\ Scheduled < next
      BY <2>1, ScheduledType
    <2>3. KnownSteps' = KnownSteps /\ WithJob(jobWorker[Scheduled], Scheduled) \in KnownSteps
      BY <2>1, <2>2 DEF KnownSteps, Step, Steps, WithJob, WorkerStates
    <2>4. RecordsTyped' /\ NothingToDo' /\ todo' \in [ServerThreads -> Seq(KnownSteps)]
      BY <2>1, <2>2, <2>3, ThreadsNamed, EmployWorkerType
    <2>5. todo' \in [ServerThreads -> Seq(Step)]
      <3>1. \A q \in Seq(KnownSteps) : q \in Seq(Step)
        BY DEF KnownSteps
      <3> QED BY <2>4, <3>1
    <2>6. TypeOK'
      BY <1>0, <2>1, <2>2, <2>4, <2>5
         DEF TypeOK, RecordsTyped, NothingToDo, linkVars, chanVars, workerVars, threadVars
    <2>7. MainHasJob' /\ ObservedHaveWorkers'
      BY <2>1, <2>2 DEF TypeInv, MainHasJob, ObservedHaveWorkers, Scheduled
    <2> QED BY <2>3, <2>4, <2>6, <2>7 DEF TypeInv, StepsAreKnown
  <1>4. CASE SendJob
    <2>1. Scheduled \in Jobs
      BY <1>4, ScheduledType DEF SendJob
    <2>2. NewJob(Scheduled) \in Message
      BY <2>1, JobStatesClosed
    <2>3. toWorker' \in [Workers -> Seq(Message)]
      BY <1>0, <1>4, <2>2 DEF SendJob, TypeOK
    <2>4. UNCHANGED <<csVars, registered, unemployed, next, linkVars, toServer, workerVars>> /\ main' = "schedule"
      BY <1>4 DEF SendJob
    <2>5. ServerTyped' /\ todo' \in [ServerThreads -> Seq(KnownSteps)]
      BY <1>0, <2>3, <2>4 DEF TypeInv, StepsAreKnown, ServerTyped, RecordsTyped, NothingToDo, csVars, linkVars
    <2> QED BY <2>4, <2>5, ServerTypeAlone DEF csVars
  <1>5. ASSUME NEW w \in Workers, HandleJobFinished(w) PROVE TypeInv'
    <2>1. /\ Receive(w, "JOBFINISHED")
          /\ observed' \subseteq observed
          /\ UNCHANGED <<csState, reading, toWorker>>
          /\ \/ FreeWorker(Reader(w), w, <<>>)
             \/ /\ ~ Timely
                /\ todo' = [todo EXCEPT ![Reader(w)] = <<WithState("setState", w, "unemployed")>>]
                /\ UNCHANGED <<wdJob, wdState, unemployed>>
      BY <1>5 DEF HandleJobFinished
    <2>2. RecordsTyped' /\ NothingToDo' /\ todo' \in [ServerThreads -> Seq(KnownSteps)]
      <3>1. CASE FreeWorker(Reader(w), w, <<>>)
        BY <1>a, <3>1, ThreadsNamed, FreeWorkerType
      <3>2. CASE /\ ~ Timely
                 /\ todo' = [todo EXCEPT ![Reader(w)] = <<WithState("setState", w, "unemployed")>>]
                 /\ UNCHANGED <<wdJob, wdState, unemployed>>
        <4>1. <<WithState("setState", w, "unemployed")>> \in Seq(KnownSteps)
          BY <1>0, StepsTyped, SeqsOfSteps DEF Steps, WorkerStates
        <4>2. todo' \in [ServerThreads -> Seq(KnownSteps)]
          BY <3>2, <4>1 DEF TypeInv, StepsAreKnown
        <4> QED BY <1>0, <3>2, <4>2 DEF ServerTyped, RecordsTyped, NothingToDo
      <3> QED BY <2>1, <3>1, <3>2
    <2>3. toServer' \in [Workers -> Seq(Message)]
      BY <1>0, <2>1, ReceiveType
    <2>4. ServerTyped' /\ UNCHANGED <<jobWorker, next, workerVars, main>>
      BY <1>0, <2>1, <2>2, <2>3 DEF ServerTyped, Receive
    <2> QED BY <2>1, <2>2, <2>4, ServerTypeAlone
  <1>6. ASSUME NEW w \in Workers, NEW j \in Jobs, NEW s \in JobStates, NEW k,
               Receive(w, k), SetJobState(Reader(w), j, s, <<>>), UNCHANGED reading
        PROVE  TypeInv'
    <2>1. /\ csState' \in [Jobs -> JobStates]
          /\ observed' \subseteq observed
          /\ RecordsTyped' /\ NothingToDo' /\ todo' \in [ServerThreads -> Seq(KnownSteps)]
          /\ toWorker' \in [Workers -> Seq(Message)]
      BY <1>a, <1>6, ThreadsNamed, SetJobStateType
    <2>2. toServer' \in [Workers -> Seq(Message)]
      BY <1>0, <1>6, ReceiveType
    <2>3. ServerTyped' /\ UNCHANGED <<jobWorker, next, workerVars, main>>
      BY <1>0, <1>6, <2>1, <2>2 DEF ServerTyped, Receive
    <2> QED BY <2>1, <2>3, ServerTypeAlone
  <1>b. ASSUME NEW w \in Workers, NEW k, Receive(w, k), UnchangedJobs, reading' \subseteq reading
        PROVE  TypeInv'
    <2>1. toServer' \in [Workers -> Seq(Message)]
      BY <1>0, <1>b, ReceiveType
    <2>2. UNCHANGED <<csState, observed, wdState, wdJob, unemployed, toWorker, todo, jobWorker, registered, next,
                      main, connected, linked, faults, workerVars>>
      BY <1>b DEF Receive, UnchangedJobs
    <2>3. ServerTyped' /\ todo' \in [ServerThreads -> Seq(KnownSteps)]
      BY <1>0, <1>b, <2>1, <2>2 DEF TypeInv, StepsAreKnown, ServerTyped, RecordsTyped, NothingToDo
    <2> QED BY <2>2, <2>3, ServerTypeAlone
  <1>7. ASSUME NEW w \in Workers, HandleStateChange(w) PROVE TypeInv'
    <2> DEFINE j == wdJob[w]
               s == Head(toServer[w]).state
    <2>1. Receive(w, "STATECHANGE") /\ UNCHANGED reading
      BY <1>7 DEF HandleStateChange
    <2>2. s \in JobStates /\ j \in Jobs \cup {NoJob}
      BY <1>0, <2>1, ReceiveType DEF Message, TypeOK
    <2>3. UnchangedJobs \/ (j # NoJob /\ SetJobState(Reader(w), j, s, <<>>))
      BY <1>7 DEF HandleStateChange
    <2> HIDE DEF j, s
    <2> QED BY <1>6, <1>b, <2>1, <2>2, <2>3
  <1>8. ASSUME NEW w \in Workers, HandleJobAccepted(w) \/ HandleJobRefused(w) PROVE TypeInv'
    <2>1. {"INITIALIZING", "NEW"} \subseteq JobStates
      BY DEF JobStates, PredefinedStates
    <2>2. PICK k \in {"JOBACCEPTED", "JOBREFUSED"}, s \in JobStates : HandleReply(w, k, s)
      BY <1>8, <2>1 DEF HandleJobAccepted, HandleJobRefused
    <2> DEFINE j == wdJob[w]
    <2>3. j \in Jobs \cup {NoJob} /\ Receive(w, k)
      BY <1>0, <2>2 DEF TypeOK, HandleReply
    <2>4. \/ UnchangedJobs /\ reading' \subseteq reading
          \/ j # NoJob /\ SetJobState(Reader(w), j, s, <<>>) /\ UNCHANGED reading
      BY <2>2 DEF HandleReply
    <2> HIDE DEF j
    <2> QED BY <1>6, <1>b, <2>3, <2>4
  <1>9. ASSUME NEW j \in Jobs, Cancel(j) PROVE TypeInv'
    <2>1. UNCHANGED <<jobWorker, registered, next, main, linkVars, toServer, workerVars>>
      BY <1>9 DEF Cancel
    <2>2. PICK k \in Jobs, s \in {"CANCELLED", "CANCELLING"} : SetJobState(GuiThread, k, s, <<>>)
      <3>1. CASE csState[j] = "NEW" \/ jobWorker[j] = NoWorker
        BY <1>9, <3>1 DEF Cancel
      <3>2. CASE ~ (csState[j] = "NEW" \/ jobWorker[j] = NoWorker)
        <4>1. jobWorker[j] \in Workers
          BY <1>0, <3>2 DEF TypeOK
        <4> QED BY <1>0, <1>9, <3>2, <4>1 DEF Cancel, TypeOK
      <3> QED BY <3>1, <3>2
    <2>3. s \in JobStates
      BY DEF JobStates, PredefinedStates, FinalStates
    <2>4. /\ csState' \in [Jobs -> JobStates]
          /\ observed' \subseteq observed
          /\ RecordsTyped' /\ NothingToDo' /\ todo' \in [ServerThreads -> Seq(KnownSteps)]
          /\ toWorker' \in [Workers -> Seq(Message)]
      BY <1>a, <2>2, <2>3, ThreadsNamed, SetJobStateType
    <2>5. ServerTyped'
      BY <1>0, <2>1, <2>4 DEF ServerTyped, linkVars
    <2> QED BY <2>1, <2>4, <2>5, ServerTypeAlone
  <1> DEFINE Untouched == UNCHANGED <<csVars, schedVars, linkVars>>
  <1>10. ASSUME NEW w \in Workers, HandleNewJob(w) PROVE TypeInv'
    <2> DEFINE j == Head(toWorker[w]).job
    <2>1. Take(w, "NEWJOB") /\ UNCHANGED <<wkObserved, thread, outcome, stopping>>
      BY <1>10 DEF HandleNewJob
    <2>2. j \in Jobs \cup {NoJob} /\ toWorker' \in [Workers -> Seq(Message)]
      BY <1>0, <2>1, TakeType DEF Message
    <2>3. Msg("JOBACCEPTED") \in Message /\ Msg("JOBREFUSED") \in Message
      BY JobStatesClosed DEF Kinds
    <2>4. toServer' \in [Workers -> Seq(Message)]
      BY <1>0, <1>10, <2>3, SendType DEF HandleNewJob
    <2>5. "INITIALIZING" \in JobStates
      BY DEF JobStates, PredefinedStates
    <2>6. CASE actualJob[w] = NoJob
      <3>1. /\ actualJob' = [actualJob EXCEPT ![w] = j]
            /\ actualThread' = [actualThread EXCEPT ![w] = j]
            /\ host' = [host EXCEPT ![j] = w]
            /\ wkState' = [wkState EXCEPT ![j] = "INITIALIZING"]
            /\ comm' = [comm EXCEPT ![w] = "start"]
        BY <1>10, <2>6 DEF HandleNewJob
      <3> HIDE DEF j
      <3>2. /\ actualJob' \in [Workers -> Jobs \cup {NoJob}]
            /\ actualThread' \in [Workers -> Jobs \cup {NoJob}]
            /\ comm' \in [Workers -> {"read", "start", "observe", "busy", "stop", "died"}]
        BY <1>0, <2>2, <3>1 DEF TypeOK
      <3>3. /\ host' \in [Jobs -> Workers \cup {NoWorker}]
            /\ wkState' \in [Jobs -> JobStates]
        BY <1>0, <2>5, <3>1 DEF TypeOK
      <3>4. WorkersTyped'
        BY <1>0, <2>1, <2>2, <2>4, <3>2, <3>3 DEF WorkersTyped, TypeOK
      <3> QED BY <2>1, <3>4, WorkerType DEF Take
    <2>7. CASE actualJob[w] # NoJob
      <3>1. UNCHANGED <<actualJob, actualThread, host, wkState, comm>>
        BY <1>10, <2>7 DEF HandleNewJob
      <3>2. WorkersTyped'
        BY <1>0, <2>1, <2>2, <2>4, <3>1 DEF WorkersTyped, TypeOK
      <3> QED BY <2>1, <3>2, WorkerType DEF Take
    <2> QED BY <2>6, <2>7
  <1>c. ASSUME NEW w \in Workers, StartThread(w) PROVE TypeInv'
    <2>1. /\ UNCHANGED <<csVars, schedVars, linkVars, chanVars, actualJob, actualThread, wkState,
                         wkObserved, host, outcome, stopping>>
          /\ \E c \in {"read", "observe"} : comm' = [comm EXCEPT ![w] = c]
          /\ UNCHANGED thread \/ thread' = [thread EXCEPT ![actualThread[w]] = "ready"]
      BY <1>c DEF StartThread
    <2>2. WorkersTyped'
      BY <1>0, <2>1 DEF WorkersTyped, TypeOK, chanVars, Phases, TryPhases
    <2> QED BY <2>1, <2>2, WorkerType
  <1>11. ASSUME NEW w \in Workers, NEW j \in Jobs, ObserveJob(w, j) PROVE TypeInv'
    <2>1. WorkersTyped'
      BY <1>0, <1>11 DEF ObserveJob, WorkersTyped, TypeOK, chanVars, threadVars
    <2> QED BY <1>11, <2>1, WorkerType DEF ObserveJob
  <1>12. ASSUME NEW w \in Workers, HandleCancelJob(w) PROVE TypeInv'
    <2>1. /\ Take(w, "CANCELJOB")
          /\ \E c \in {"busy", comm[w]} : comm' = [comm EXCEPT ![w] = c]
          /\ UNCHANGED <<toServer, actualJob, actualThread, wkState, wkObserved, threadVars>>
      BY <1>12 DEF HandleCancelJob
    <2>2. WorkersTyped'
      BY <1>0, <2>1, TakeType DEF WorkersTyped, TypeOK, threadVars
    <2> QED BY <2>1, <2>2, WorkerType DEF Take
  <1>d. ASSUME NEW w \in Workers, KillThread(w) PROVE TypeInv'
    <2> DEFINE j == actualJob[w]
    <2>1. UNCHANGED <<csVars, schedVars, linkVars, toWorker, actualJob, actualThread, wkObserved, threadVars>>
      BY <1>d DEF KillThread
    <2>2. \/ UNCHANGED <<wkState, toServer>>
          \/ /\ j # NoJob
             /\ wkState' = [wkState EXCEPT ![j] = "CANCELLING"]
             /\ Report(w, j, "CANCELLING") \/ UNCHANGED toServer
      BY <1>d DEF KillThread
    <2>3. \E c \in {"read", "died", "stop"} : comm' = [comm EXCEPT ![w] = c]
      BY <1>d DEF KillThread
    <2>4. "CANCELLING" \in JobStates /\ j \in Jobs \cup {NoJob}
      BY <1>0 DEF JobStates, PredefinedStates, TypeOK
    <2> HIDE DEF j
    <2>5. toServer' \in [Workers -> Seq(Message)]
      BY <1>0, <2>2, <2>4, ReportType DEF TypeOK
    <2>6. wkState' \in [Jobs -> JobStates]
      BY <1>0, <2>2, <2>4 DEF TypeOK
    <2>7. WorkersTyped'
      BY <1>0, <2>1, <2>3, <2>5, <2>6 DEF WorkersTyped, TypeOK, threadVars
    <2> QED BY <2>1, <2>7, WorkerType
  <1>13. ASSUME NEW w \in Workers, StopThread(w) PROVE TypeInv'
    <2>1. \/ stopping' = stopping
          \/ actualThread[w] # NoJob /\ stopping' = stopping \cup {actualThread[w]}
      BY <1>13 DEF StopThread
    <2>2. stopping' \subseteq Jobs
      BY <1>0, <2>1 DEF TypeOK
    <2>3. \E c \in {"read", "died"} : comm' = [comm EXCEPT ![w] = c]
      BY <1>13 DEF StopThread
    <2>4. UNCHANGED <<csVars, schedVars, linkVars, chanVars, actualJob, actualThread, wkState,
                      wkObserved, host, thread, outcome>>
      BY <1>13 DEF StopThread
    <2>5. WorkersTyped'
      BY <1>0, <2>2, <2>3, <2>4 DEF WorkersTyped, TypeOK, chanVars
    <2> QED BY <2>4, <2>5, WorkerType
  <1>14. ASSUME NEW j \in Jobs, StartParsing(j) \/ StartRunning(j) \/ StartMetrics(j) PROVE TypeInv'
    <2>1. {"PARSING", "RUNNING", "CALCULATING_METRICS"} \subseteq JobStates
      BY DEF JobStates, PredefinedStates
    <2>2. {"parsing", "running", "metrics"} \subseteq Phases
      BY DEF Phases, TryPhases
    <2> QED BY <1>14, <2>1, <2>2, AdvanceType DEF StartParsing, StartRunning, StartMetrics
  <1>15. ASSUME NEW j \in Jobs, Succeed(j) \/ Throw(j) \/ RaiseKill(j) PROVE TypeInv'
    <2>1. /\ thread' \in [Jobs -> Phases]
          /\ outcome' \in [Jobs -> FinalStates]
          /\ stopping' \subseteq Jobs
      BY <1>0, <1>15 DEF Succeed, Throw, RaiseKill, EndTry, TypeOK, Phases, FinallyPhases, FinalStates
    <2>2. UNCHANGED <<actualJob, actualThread, wkState, toServer>> /\ ThreadUnchanged
      BY <1>15 DEF Succeed, Throw, RaiseKill
    <2>3. WorkersTyped'
      BY <1>0, <2>1, <2>2 DEF WorkersTyped, TypeOK, ThreadUnchanged
    <2> QED BY <2>2, <2>3, WorkerType DEF ThreadUnchanged
  <1>17. ASSUME NEW j \in Jobs, ClearJob(j) \/ ClearThread(j) PROVE TypeInv'
    <2>1. /\ thread' \in [Jobs -> Phases]
          /\ actualJob' \in [Workers -> Jobs \cup {NoJob}]
          /\ actualThread' \in [Workers -> Jobs \cup {NoJob}]
      BY <1>0, <1>17 DEF ClearJob, ClearThread, TypeOK, Phases, FinallyPhases
    <2>2. UNCHANGED <<wkState, outcome, stopping, toServer>> /\ ThreadUnchanged
      BY <1>17 DEF ClearJob, ClearThread
    <2>3. WorkersTyped'
      BY <1>0, <2>1, <2>2 DEF WorkersTyped, TypeOK, ThreadUnchanged
    <2> QED BY <2>2, <2>3, WorkerType DEF ThreadUnchanged
  <1>18. ASSUME NEW j \in Jobs, ReportOutcome(j) PROVE TypeInv'
    <2>1. outcome[j] \in JobStates
      BY <1>0, JobStatesClosed DEF TypeOK
    <2>2. /\ thread' \in [Jobs -> Phases]
          /\ wkState' \in [Jobs -> JobStates]
      BY <1>0, <1>18, <2>1 DEF ReportOutcome, TypeOK, Phases, FinallyPhases
    <2>3. toServer' \in [Workers -> Seq(Message)]
      BY <1>0, <1>18, <2>1, ReportType DEF ReportOutcome, TypeOK
    <2>4. UNCHANGED <<actualJob, actualThread, outcome, stopping>> /\ ThreadUnchanged
      BY <1>18 DEF ReportOutcome
    <2>5. WorkersTyped'
      BY <1>0, <2>2, <2>3, <2>4 DEF WorkersTyped, TypeOK, ThreadUnchanged
    <2> QED BY <2>4, <2>5, WorkerType DEF ThreadUnchanged
  <1>19. ASSUME NEW j \in Jobs, NotifyFinished(j) PROVE TypeInv'
    <2>1. Msg("JOBFINISHED") \in Message
      BY JobStatesClosed DEF Kinds
    <2>2. toServer' \in [Workers -> Seq(Message)]
      BY <1>0, <1>19, <2>1, SendType DEF NotifyFinished, TypeOK
    <2>3. thread' \in [Jobs -> Phases]
      BY <1>0, <1>19 DEF NotifyFinished, TypeOK, Phases
    <2>4. UNCHANGED <<actualJob, actualThread, wkState, outcome, stopping>> /\ ThreadUnchanged
      BY <1>19 DEF NotifyFinished
    <2>5. WorkersTyped'
      BY <1>0, <2>2, <2>3, <2>4 DEF WorkersTyped, TypeOK, ThreadUnchanged
    <2> QED BY <2>4, <2>5, WorkerType DEF ThreadUnchanged
  <1>20. ASSUME NEW w \in Workers, Connect(w) PROVE TypeInv'
    <2>1. UNCHANGED <<csState, observed, jobWorker, next, main, faults, chanVars, workerVars>>
          /\ reading' = reading \cup {w}
      BY <1>20 DEF Connect
    <2>2. CASE Timely
      <3>1. /\ wdState' = [wdState EXCEPT ![w] = "unemployed"]
            /\ wdJob' = wdJob \/ wdJob' = [wdJob EXCEPT ![w] = NoJob]
            /\ registered' = registered \cup {w} /\ unemployed' = unemployed \cup {w}
            /\ connected' = connected \cup {w} /\ linked' = linked \cup {w}
            /\ UNCHANGED todo
        BY <1>20, <2>2 DEF Connect
      <3>2. RecordsTyped'
        BY <1>0, <3>1 DEF RecordsTyped, TypeOK, WorkerStates
      <3>3. ServerTyped' /\ todo' \in [ServerThreads -> Seq(KnownSteps)]
        BY <1>0, <2>1, <3>1, <3>2 DEF TypeInv, StepsAreKnown, ServerTyped, NothingToDo, chanVars
      <3> QED BY <2>1, <3>3, ServerTypeAlone
    <2>3. CASE ~ Timely
      <3> DEFINE q == <<WithState("setState", w, "unemployed"), Do("register", w),
                        Do("start", w), Do("put", w)>>
      <3>1. todo' = [todo EXCEPT ![MainThread] = q]
            /\ UNCHANGED <<wdState, wdJob, registered, unemployed, connected, linked>>
        BY <1>20, <2>3 DEF Connect
      <3>2. q \in Seq(KnownSteps)
        BY <1>0, StepsTyped, SeqsOfSteps DEF Steps, WorkerStates
      <3> HIDE DEF q
      <3>3. ServerTyped' /\ todo' \in [ServerThreads -> Seq(KnownSteps)]
        BY <1>0, <2>1, <2>3, <3>1, <3>2
           DEF TypeInv, StepsAreKnown, ServerTyped, RecordsTyped, NothingToDo, chanVars
      <3> QED BY <2>1, <3>3, ServerTypeAlone
    <2> QED BY <2>2, <2>3
  <1>e. ASSUME NEW w \in Workers, LoseConnection(w) \/ CrashWorker(w)
        PROVE  /\ ServerTyped' /\ observed' \subseteq observed /\ todo' \in [ServerThreads -> Seq(KnownSteps)]
               /\ UNCHANGED <<jobWorker, next, main>>
    <2>1. faults' \in 0 .. MaxFaults
      BY <1>0, <1>e, JobProtocolAssumption DEF LoseConnection, CrashWorker, TypeOK
    <2>2. IF Timely THEN Disconnect(w) ELSE Break(w)
      BY <1>e DEF LoseConnection, CrashWorker
    <2> QED BY <2>1, <2>2, DisconnectType, BreakType
  <1>21. ASSUME NEW w \in Workers, LoseConnection(w) PROVE TypeInv'
    BY <1>e, <1>21, ServerTypeAlone DEF LoseConnection
  <1>f. ASSUME NEW w \in Workers, AttendanceTimeout(w) PROVE TypeInv'
    <2>1. UNCHANGED <<faults, workerVars>>
      BY <1>f DEF AttendanceTimeout
    <2>2. CASE Timely
      <3>1. Disconnect(w) /\ faults' \in 0 .. MaxFaults
        BY <1>0, <1>f, <2>1, <2>2 DEF AttendanceTimeout, TypeOK
      <3> QED BY <2>1, <2>2, <3>1, DisconnectType, ServerTypeAlone
    <2>3. CASE ~ Timely
      <3>1. /\ Close(w) /\ connected' = connected \ {w}
            /\ todo' = [todo EXCEPT ![MainThread] = <<Do("unregister", w), Do("fail", w)>>,
                                    ![Closer(w)] = @ \o LeaveLoop(w)]
            /\ UNCHANGED <<csState, observed, jobWorker, wdState, wdJob, registered, unemployed, next, main>>
        BY <1>f, <2>3 DEF AttendanceTimeout
      <3>2. todo' \in [ServerThreads -> Seq(KnownSteps)]
        <4>1. todo[Closer(w)] \o LeaveLoop(w) \in Seq(KnownSteps)
          BY <1>0, ThreadsNamed, PartsTyped, SeqsOfSteps DEF TypeInv, StepsAreKnown
        <4>2. <<Do("unregister", w), Do("fail", w)>> \in Seq(KnownSteps)
          BY <1>0, StepsTyped, SeqsOfSteps DEF Steps
        <4>3. MainThread # Closer(w)
          BY DEF MainThread, Closer
        <4> QED BY <3>1, <4>1, <4>2, <4>3 DEF TypeInv, StepsAreKnown
      <3>3. linked' \subseteq connected' /\ connected' \subseteq Workers
        BY <1>0, <3>1 DEF Close, TypeOK
      <3>4. ServerTyped'
        BY <1>0, <2>1, <2>3, <3>1, <3>3, CloseType DEF ServerTyped, RecordsTyped, NothingToDo
      <3> QED BY <2>1, <3>1, <3>2, <3>4, ServerTypeAlone
    <2> QED BY <2>2, <2>3
  <1>22. ASSUME NEW w \in Workers, CrashWorker(w) PROVE TypeInv'
    <2>1. UNCHANGED <<wkState, wkObserved, outcome>>
      BY <1>22 DEF CrashWorker
    <2>2. /\ actualJob' \in [Workers -> Jobs \cup {NoJob}]
          /\ actualThread' \in [Workers -> Jobs \cup {NoJob}]
          /\ comm' \in [Workers -> {"read", "start", "observe", "busy", "stop", "died"}]
          /\ thread' \in [Jobs -> Phases]
          /\ stopping' \subseteq Jobs
          /\ host' \in [Jobs -> Workers \cup {NoWorker}]
      BY <1>0, <1>22 DEF CrashWorker, TypeOK, Phases
    <2> QED BY <1>0, <1>e, <1>22, <2>1, <2>2, ServerType DEF TypeOK
  <1>23. CASE UNCHANGED vars
    <2>1. UNCHANGED <<csVars, schedVars, linkVars>> /\ WorkersTyped'
      BY <1>0, <1>23 DEF vars, WorkersTyped, TypeOK, chanVars, workerVars, threadVars
    <2> QED BY <2>1, WorkerType
  <1> QED
    BY <1>1, <1>2, <1>3, <1>4, <1>5, <1>7, <1>8, <1>9, <1>10, <1>c, <1>11, <1>12, <1>d, <1>13, <1>14, <1>15,
       <1>17, <1>18, <1>19, <1>20, <1>21, <1>f, <1>22, <1>23, GoesOnType
    DEF Next, Main, ReaderThread, Communicator, JobThread

\* The initial state has the types.
LEMMA TypeInit == Init => TypeInv
  <1> SUFFICES ASSUME Init PROVE TypeInv
    OBVIOUS
  <1>1. todo \in [ServerThreads -> Seq(Step)] /\ StepsAreKnown
    BY SeqsOfSteps DEF Init, StepsAreKnown
  <1>2. TypeOK
    BY <1>1, JobProtocolAssumption
    DEF Init, TypeOK, JobStates, PredefinedStates, FinalStates, Phases, Message, WorkerStates
  <1> QED BY <1>1, <1>2 DEF Init, TypeInv, MainHasJob, ObservedHaveWorkers

\* The state is well typed in every reachable state: no handler writes a job,
\* a worker, a message, a phase or a step that is not one, the faults are
\* bounded, and a thread's next steps are never about a job that still waits.
THEOREM TypeCorrect == Spec => []TypeOK
  <1>1. Spec => []TypeInv
    BY TypeInit, TypeStep, PTL DEF Spec
  <1>2. TypeInv => TypeOK
    BY DEF TypeInv
  <1> QED BY <1>1, <1>2, PTL

-----------------------------------------------------------------------------
(* What the methods that take no lock do to what the proofs below speak of.  *)

\* A thread that goes on leaves the workers and the main thread where they are;
\* it fails a lost worker's job, or changes no state of a job and clears, at
\* most, the channel to a worker.
LEMMA GoesOnEffect ==
  ASSUME TypeInv, NEW t \in ServerThreads, GoesOn(t)
  PROVE  /\ UNCHANGED <<jobWorker, next, main, workerVars>>
         /\ \/ /\ UNCHANGED csState
               /\ toWorker' = toWorker \/ \E w \in Workers : toWorker' = [toWorker EXCEPT ![w] = <<>>]
               /\ \/ UNCHANGED wdJob
                  \/ \E w \in Workers : \E j : j < next /\ wdJob' = [wdJob EXCEPT ![w] = j]
            \/ \E j \in Jobs : /\ \E w \in Workers : wdJob[w] = j
                               /\ SetStateAccepts(csState[j], "FAILED")
                               /\ SetJobState(t, j, "FAILED", Tail(todo[t]))
  <1>1. CASE WriteJob(t)
    <2>1. At(t, "setJob")
      BY <1>1 DEF WriteJob
    <2>2. Target(t) \in Workers /\ Head(todo[t]).job < next
      BY <2>1, GoOnType DEF KnownSteps
    <2> QED BY <1>1, <2>2 DEF WriteJob, schedVars, chanVars
  <1>2. CASE SetState(t) \/ WriteState(t) \/ Notify(t) \/ StartReader(t) \/ Leave(t)
    BY <1>2 DEF SetState, WriteState, Notify, StartReader, Leave, schedVars, chanVars
  <1>3. CASE Update(t) \/ Register(t) \/ Unregister(t) \/ PutThread(t)
    BY <1>3 DEF Update, Register, Unregister, PutThread, schedVars, chanVars
  <1>4. CASE Drop(t)
    <2>1. At(t, "drop")
      BY <1>4 DEF Drop
    <2>2. Target(t) \in Workers
      BY <2>1, GoOnType
    <2>3. toWorker' = toWorker \/ toWorker' = [toWorker EXCEPT ![Target(t)] = <<>>]
      BY <1>4 DEF Drop, Close, chanVars
    <2> QED BY <1>4, <2>2, <2>3 DEF Drop, schedVars
  <1>5. CASE FailJob(t)
    <2>1. At(t, "fail")
      BY <1>5 DEF FailJob
    <2>2. Target(t) \in Workers /\ wdJob[Target(t)] \in Jobs \cup {NoJob}
      BY <2>1, GoOnType DEF TypeInv, TypeOK
    <2> QED BY <1>5, <2>2 DEF FailJob
  <1> QED BY <1>1, <1>2, <1>3, <1>4, <1>5 DEF GoesOn

\* What a connection that breaks leaves alone.
LEMMA ConnectionEnds ==
  ASSUME TypeInv, NEW w \in Workers, LoseConnection(w) \/ CrashWorker(w) \/ AttendanceTimeout(w)
  PROVE  /\ UNCHANGED <<jobWorker, next, main>>
         /\ toWorker' = [toWorker EXCEPT ![w] = <<>>]
         /\ \/ Timely /\ Disconnect(w)
            \/ ~ Timely /\ UNCHANGED <<csState, observed, wdJob>>
  BY DEF LoseConnection, CrashWorker, AttendanceTimeout, Disconnect, Break, Close, schedVars

-----------------------------------------------------------------------------
(* A result is never overwritten.                                          *)

\* setState lets a final state only be entered again.
LEMMA FinalIsAbsorbing ==
  ASSUME NEW s, NEW t, IsFinal(s), SetStateAccepts(s, t)
  PROVE  s = t
  BY DEF SetStateAccepts, IsStateTransitionAllowed

\* A change of one job's state leaves every job that has ended as it is.
LEMMA SetJobStateKeepsResults ==
  ASSUME TypeOK, NEW t, NEW j \in Jobs, NEW s, NEW rest, SetJobState(t, j, s, rest),
         SetStateAccepts(csState[j], s), NEW k \in Jobs, IsFinal(csState[k])
  PROVE  csState'[k] = csState[k]
  BY FinalIsAbsorbing DEF TypeOK, SetJobState

\* No step changes the state of a job that has ended: one case per action.
LEMMA ResultStep ==
  ASSUME TypeInv, [Next]_vars, NEW k \in Jobs, IsFinal(csState[k])
  PROVE  csState'[k] = csState[k]
  <1>0. TypeOK
    BY DEF TypeInv
  <1>1. ASSUME NEW w \in Workers, Schedule(w) PROVE csState'[k] = csState[k]
    BY <1>0, <1>1, FinalIsAbsorbing DEF Schedule, TypeOK
  <1>2. ASSUME NEW w \in Workers, ReaderThread(w) PROVE csState'[k] = csState[k]
    <2>1. CASE HandleJobFinished(w)
      BY <2>1 DEF HandleJobFinished
    <2>2. CASE HandleStateChange(w)
      BY <1>0, <2>2, SetJobStateKeepsResults DEF HandleStateChange, UnchangedJobs, TypeOK
    <2>3. ASSUME NEW m, NEW s, HandleReply(w, m, s) PROVE csState'[k] = csState[k]
      BY <1>0, <2>3, SetJobStateKeepsResults DEF HandleReply, UnchangedJobs, TypeOK
    <2> QED BY <1>2, <2>1, <2>2, <2>3 DEF ReaderThread, HandleJobAccepted, HandleJobRefused
  <1>3. ASSUME NEW j \in Jobs, Cancel(j) PROVE csState'[k] = csState[k]
    <2>1. CASE csState[j] = "NEW" \/ jobWorker[j] = NoWorker
      <3>1. SetJobState(GuiThread, j, "CANCELLED", <<>>) /\ ~ IsFinal(csState[j])
        BY <1>3, <2>1 DEF Cancel
      <3> QED BY <1>0, <3>1 DEF SetJobState, TypeOK
    <2>2. CASE ~ (csState[j] = "NEW" \/ jobWorker[j] = NoWorker)
      <3>1. /\ wdJob[jobWorker[j]] \in Jobs
            /\ SetStateAccepts(csState[wdJob[jobWorker[j]]], "CANCELLING")
            /\ SetJobState(GuiThread, wdJob[jobWorker[j]], "CANCELLING", <<>>)
        BY <1>0, <1>3, <2>2 DEF Cancel, TypeOK, SetStateAccepts
      <3> QED BY <1>0, <3>1, SetJobStateKeepsResults
    <2> QED BY <2>1, <2>2
  <1>4. ASSUME NEW w \in Workers, LoseConnection(w) \/ CrashWorker(w) \/ AttendanceTimeout(w)
        PROVE  csState'[k] = csState[k]
    BY <1>0, <1>4, ConnectionEnds DEF Disconnect, IsStateTransitionAllowed, TypeOK
  <1>5. CASE Check \/ Attach \/ SendJob
    BY <1>5 DEF Check, Attach, SendJob, csVars
  <1>6. ASSUME NEW w \in Workers, Communicator(w) \/ Connect(w) PROVE csState'[k] = csState[k]
    BY <1>6 DEF Communicator, HandleNewJob, StartThread, ObserveJob, HandleCancelJob, KillThread, StopThread,
                Take, Connect, csVars
  <1>7. ASSUME NEW j \in Jobs, JobThread(j) \/ Throw(j) PROVE csState'[k] = csState[k]
    BY <1>7 DEF JobThread, StartParsing, StartRunning, StartMetrics, Advance, Succeed, Throw, RaiseKill,
                ClearJob, ClearThread, ReportOutcome, NotifyFinished, ThreadUnchanged, csVars
  <1>8. ASSUME NEW t \in ServerThreads, GoesOn(t) PROVE csState'[k] = csState[k]
    BY <1>0, <1>8, GoesOnEffect, SetJobStateKeepsResults
  <1>9. CASE UNCHANGED vars
    BY <1>9 DEF vars, csVars
  <1> QED
    BY <1>1, <1>2, <1>3, <1>4, <1>5, <1>6, <1>7, <1>8, <1>9 DEF Next, Main

\* The server never overwrites the result of a job that has ended, whatever
\* message arrives late, is refused or is taken to be about another job.
THEOREM ResultsStay == Spec => ResultStays
  <1>1. TypeInv /\ [Next]_vars => [\A j \in Jobs : IsFinal(csState[j]) => csState'[j] = csState[j]]_vars
    BY ResultStep
  <1>2. Spec => []TypeInv
    BY TypeInit, TypeStep, PTL DEF Spec
  <1> QED BY <1>1, <1>2, PTL DEF Spec, ResultStays

-----------------------------------------------------------------------------
(* A job is handed out at most once.                                       *)

\* Some worker has begun to start the job j: it remembers it, or did once.
Begun(j) ==
    \/ thread[j] # "none"
    \/ j \in stopping
    \/ host[j] # NoWorker
    \/ \E w \in Workers : actualJob[w] = j \/ actualThread[w] = j

\* A job on its way to a worker has not begun, and is on its way once only.
\* (HandedOutOnce says so of its thread only, which starts a step later.)
SentOnce ==
    \A j \in Jobs, w \in Workers : \A i \in 1 .. Len(toWorker[w]) :
        InFlight(j, w, i) =>
            /\ j < next
            /\ ~ Begun(j)
            /\ \A v \in Workers : \A k \in 1 .. Len(toWorker[v]) :
                   InFlight(j, v, k) => v = w /\ k = i

\* No job the Scheduler has not chosen has begun.
UnchosenIsNotBegun == \A j \in Jobs : j >= next => ~ Begun(j)

\* The job run is about to send has not been sent.
ScheduledIsUnsent ==
    main # "schedule" => /\ ~ Begun(Scheduled)
                         /\ \A w \in Workers : \A i \in 1 .. Len(toWorker[w]) : ~ InFlight(Scheduled, w, i)

\* The inductive invariant of handing out.
HandInv == SentOnce /\ UnchosenIsNotBegun /\ ScheduledIsUnsent

\* A step that neither sends a job nor begins one keeps all three: what is in
\* flight after it was in flight before it, d places further down the channel.
LEMMA HandKept ==
  ASSUME TypeInv, TypeInv', HandInv, NEW d \in [Workers -> Nat],
         \A j \in Jobs, w \in Workers, i \in Nat :
             i \in 1 .. Len(toWorker'[w]) /\ InFlight(j, w, i)'
                 => i + d[w] \in 1 .. Len(toWorker[w]) /\ InFlight(j, w, i + d[w]),
         UNCHANGED next,
         main' # "schedule" => main # "schedule",
         \A j \in Jobs : Begun(j)' => Begun(j)
  PROVE  HandInv'
  <1>1. SentOnce'
    <2> SUFFICES ASSUME NEW j \in Jobs, NEW w \in Workers, NEW i \in 1 .. Len(toWorker'[w]), InFlight(j, w, i)'
                 PROVE  /\ j < next'
                        /\ ~ Begun(j)'
                        /\ \A v \in Workers : \A k \in 1 .. Len(toWorker'[v]) :
                               InFlight(j, v, k)' => v = w /\ k = i
      BY DEF SentOnce
    <2>1. i + d[w] \in 1 .. Len(toWorker[w]) /\ InFlight(j, w, i + d[w])
      OBVIOUS
    <2>2. /\ j < next /\ ~ Begun(j)
          /\ \A v \in Workers : \A k \in 1 .. Len(toWorker[v]) :
                 InFlight(j, v, k) => v = w /\ k = i + d[w]
      BY <2>1 DEF HandInv, SentOnce
    <2>3. ASSUME NEW v \in Workers, NEW k \in 1 .. Len(toWorker'[v]), InFlight(j, v, k)'
          PROVE  v = w /\ k = i
      <3>1. k + d[v] \in 1 .. Len(toWorker[v]) /\ InFlight(j, v, k + d[v])
        BY <2>3
      <3>2. v = w /\ k + d[v] = i + d[w]
        BY <2>2, <3>1
      <3>3. d[v] \in Nat /\ d[w] \in Nat /\ i \in Nat /\ k \in Nat
        OBVIOUS
      <3> QED BY <3>2, <3>3
    <2> QED BY <2>2, <2>3
  <1>2. UnchosenIsNotBegun'
    BY DEF HandInv, UnchosenIsNotBegun
  <1>3. ScheduledIsUnsent'
    <2> SUFFICES ASSUME main' # "schedule"
                 PROVE  /\ ~ Begun(Scheduled)'
                        /\ \A w \in Workers : \A i \in 1 .. Len(toWorker'[w]) : ~ InFlight(Scheduled, w, i)'
      BY DEF ScheduledIsUnsent, Scheduled, InFlight, Begun
    <2>1. Scheduled \in Jobs /\ Scheduled' = Scheduled
      BY ScheduledType DEF Scheduled
    <2>2. /\ ~ Begun(Scheduled)
          /\ \A w \in Workers : \A i \in 1 .. Len(toWorker[w]) : ~ InFlight(Scheduled, w, i)
      BY DEF HandInv, ScheduledIsUnsent
    <2>3. ASSUME NEW w \in Workers, NEW i \in 1 .. Len(toWorker'[w]), InFlight(Scheduled, w, i)'
          PROVE  FALSE
      <3>1. i + d[w] \in 1 .. Len(toWorker[w]) /\ InFlight(Scheduled, w, i + d[w])
        BY <2>1, <2>3 DEF Scheduled, InFlight
      <3> QED BY <2>2, <3>1
    <2>4. ~ Begun(Scheduled)'
      BY <2>1, <2>2 DEF Begun, Scheduled
    <2> QED BY <2>3, <2>4
  <1> QED BY <1>1, <1>2, <1>3 DEF HandInv

\* Its three forms: nothing is written to the workers, a message that is no
\* job is, and the channel to one of them is cleared.
LEMMA HandKeptUnsent ==
  ASSUME TypeInv, TypeInv', HandInv, UNCHANGED <<toWorker, next>>,
         main' # "schedule" => main # "schedule",
         \A j \in Jobs : Begun(j)' => Begun(j)
  PROVE  HandInv'
  <1> DEFINE d == [w \in Workers |-> 0]
  <1>1. \A j \in Jobs, w \in Workers, i \in Nat :
            i \in 1 .. Len(toWorker'[w]) /\ InFlight(j, w, i)'
                => i + d[w] \in 1 .. Len(toWorker[w]) /\ InFlight(j, w, i + d[w])
    BY DEF InFlight
  <1>2. d \in [Workers -> Nat]
    OBVIOUS
  <1> HIDE DEF d
  <1> QED BY <1>1, <1>2, HandKept

\* A message other than NEWJOB on a channel keeps it.
LEMMA HandKeptAppend ==
  ASSUME TypeInv, TypeInv', HandInv, NEW v, NEW m, m.kind # "NEWJOB",
         toWorker' = [toWorker EXCEPT ![v] = Append(@, m)],
         UNCHANGED <<next, main, workerVars>>
  PROVE  HandInv'
  <1> DEFINE d == [w \in Workers |-> 0]
  <1>1. ASSUME NEW j \in Jobs, NEW w \in Workers, NEW i \in 1 .. Len(toWorker'[w]), InFlight(j, w, i)'
        PROVE  i + d[w] \in 1 .. Len(toWorker[w]) /\ InFlight(j, w, i + d[w])
    <2>1. toWorker[w] \in Seq(Message) /\ i + d[w] = i
      BY DEF TypeInv, TypeOK
    <2>2. CASE w # v
      BY <1>1, <2>1, <2>2 DEF InFlight, TypeInv, TypeOK
    <2>3. CASE w = v
      <3>1. toWorker'[w] = Append(toWorker[w], m)
        BY <2>3 DEF TypeInv, TypeOK
      <3>2. i # Len(toWorker[w]) + 1
        BY <1>1, <2>1, <3>1 DEF InFlight
      <3> QED BY <1>1, <2>1, <3>1, <3>2 DEF InFlight
    <2> QED BY <2>2, <2>3
  <1>2. d \in [Workers -> Nat]
    OBVIOUS
  <1>3. UNCHANGED <<next, main>> /\ \A j \in Jobs : Begun(j)' => Begun(j)
    BY DEF Begun, workerVars, threadVars
  <1> HIDE DEF d
  <1> QED BY <1>1, <1>2, <1>3, HandKept

\* It is kept when a connection breaks and the channel is cleared.
LEMMA HandKeptCleared ==
  ASSUME TypeInv, TypeInv', HandInv, NEW v \in Workers,
         toWorker' = [toWorker EXCEPT ![v] = <<>>],
         UNCHANGED <<next, main>>,
         \A j \in Jobs : Begun(j)' => Begun(j)
  PROVE  HandInv'
  <1> DEFINE d == [w \in Workers |-> 0]
  <1>1. ASSUME NEW j \in Jobs, NEW w \in Workers, NEW i \in 1 .. Len(toWorker'[w]), InFlight(j, w, i)'
        PROVE  i + d[w] \in 1 .. Len(toWorker[w]) /\ InFlight(j, w, i + d[w])
    BY <1>1 DEF InFlight, TypeInv, TypeOK
  <1>2. d \in [Workers -> Nat]
    OBVIOUS
  <1>3. UNCHANGED next /\ (main' # "schedule" => main # "schedule")
    OBVIOUS
  <1> HIDE DEF d
  <1> QED BY <1>1, <1>2, <1>3, HandKept

\* What Take leaves in the channels was there before, one place further down.
LEMMA TakeShifts ==
  ASSUME TypeOK, NEW w \in Workers, NEW k, Take(w, k),
         NEW j \in Jobs, NEW v \in Workers, NEW i \in 1 .. Len(toWorker'[v]), InFlight(j, v, i)'
  PROVE  LET d == [u \in Workers |-> IF u = w THEN 1 ELSE 0]
         IN  i + d[v] \in 1 .. Len(toWorker[v]) /\ InFlight(j, v, i + d[v])
  <1>1. CASE v # w
    BY <1>1 DEF Take, InFlight, TypeOK
  <1>2. CASE v = w
    <2>1. toWorker[w] \in Seq(Message) /\ toWorker[w] # <<>> /\ toWorker'[w] = Tail(toWorker[w])
      BY DEF Take, TypeOK
    <2>2. /\ Len(toWorker'[w]) = Len(toWorker[w]) - 1
          /\ toWorker'[w][i] = toWorker[w][i + 1]
      BY <1>2, <2>1
    <2>3. i + 1 \in 1 .. Len(toWorker[w])
      BY <1>2, <2>1, <2>2
    <2> QED BY <1>2, <2>2, <2>3 DEF InFlight
  <1> QED BY <1>1, <1>2

\* It is kept when a worker reads a message that starts no job.
LEMMA HandKeptTaken ==
  ASSUME TypeInv, TypeInv', HandInv, NEW v \in Workers, NEW k, Take(v, k),
         UNCHANGED <<actualJob, actualThread, threadVars>>
  PROVE  HandInv'
  <1> DEFINE d == [u \in Workers |-> IF u = v THEN 1 ELSE 0]
  <1>1. \A j \in Jobs, w \in Workers, i \in Nat :
            i \in 1 .. Len(toWorker'[w]) /\ InFlight(j, w, i)'
                => i + d[w] \in 1 .. Len(toWorker[w]) /\ InFlight(j, w, i + d[w])
    BY TakeShifts DEF TypeInv
  <1>2. d \in [Workers -> Nat]
    OBVIOUS
  <1>3. UNCHANGED <<next, main>> /\ \A j \in Jobs : Begun(j)' => Begun(j)
    BY DEF Take, schedVars, Begun, threadVars
  <1> HIDE DEF d
  <1> QED BY <1>1, <1>2, <1>3, HandKept

\* A worker begins to start the job it reads from the channel.
LEMMA HandStart ==
  ASSUME TypeInv, TypeInv', HandInv, NEW w \in Workers, HandleNewJob(w), actualJob[w] = NoJob
  PROVE  HandInv'
  <1> DEFINE j == Head(toWorker[w]).job
             d == [u \in Workers |-> IF u = w THEN 1 ELSE 0]
  <1>0. TypeOK /\ TypeOK'
    BY DEF TypeInv
  <1>1. /\ Take(w, "NEWJOB")
        /\ actualJob' = [actualJob EXCEPT ![w] = j]
        /\ actualThread' = [actualThread EXCEPT ![w] = j]
        /\ host' = [host EXCEPT ![j] = w]
        /\ UNCHANGED <<thread, stopping, next, main>>
    BY DEF HandleNewJob, Take, schedVars
  <1>3. j \in Jobs => 1 \in 1 .. Len(toWorker[w]) /\ InFlight(j, w, 1)
    BY <1>0, <1>1 DEF Take, InFlight, TypeOK
  <1>4. \A k \in Jobs, v \in Workers, i \in Nat :
            i \in 1 .. Len(toWorker'[v]) /\ InFlight(k, v, i)'
                => i + d[v] \in 1 .. Len(toWorker[v]) /\ InFlight(k, v, i + d[v])
    BY <1>0, <1>1, TakeShifts
  <1>2. \A k \in Jobs : k # j /\ Begun(k)' => Begun(k)
    BY <1>0, <1>1 DEF Begun, TypeOK
  <1>5. ASSUME NEW k \in Jobs, NEW v \in Workers, NEW i \in 1 .. Len(toWorker'[v]), InFlight(k, v, i)'
        PROVE  /\ k # j /\ k < next /\ ~ Begun(k)
               /\ i + d[v] \in 1 .. Len(toWorker[v]) /\ InFlight(k, v, i + d[v])
    <2>1. i + d[v] \in 1 .. Len(toWorker[v]) /\ InFlight(k, v, i + d[v])
      BY <1>4, <1>5
    <2>2. k < next /\ ~ Begun(k)
      BY <2>1 DEF HandInv, SentOnce
    <2>3. k = j => v = w /\ i + d[v] = 1
      BY <1>3, <2>1 DEF HandInv, SentOnce
    <2>4. v = w => i + d[v] = i + 1 /\ i \in Nat /\ i >= 1
      OBVIOUS
    <2> QED BY <2>1, <2>2, <2>3, <2>4
  <1>6. SentOnce'
    <2> SUFFICES ASSUME NEW k \in Jobs, NEW v \in Workers, NEW i \in 1 .. Len(toWorker'[v]), InFlight(k, v, i)'
                 PROVE  /\ k < next'
                        /\ ~ Begun(k)'
                        /\ \A u \in Workers : \A n \in 1 .. Len(toWorker'[u]) :
                               InFlight(k, u, n)' => u = v /\ n = i
      BY DEF SentOnce
    <2>1. ASSUME NEW u \in Workers, NEW n \in 1 .. Len(toWorker'[u]), InFlight(k, u, n)'
          PROVE  u = v /\ n = i
      <3>1. n + d[u] \in 1 .. Len(toWorker[u]) /\ InFlight(k, u, n + d[u])
        BY <1>4, <2>1
      <3>2. u = v /\ n + d[u] = i + d[v]
        BY <1>5, <3>1 DEF HandInv, SentOnce
      <3>3. d[v] \in Nat /\ n \in Nat /\ i \in Nat
        OBVIOUS
      <3> QED BY <3>2, <3>3
    <2> QED BY <1>1, <1>2, <1>5, <2>1
  <1>7. UnchosenIsNotBegun'
    <2>1. j \in Jobs => j < next
      BY <1>3 DEF HandInv, SentOnce
    <2>2. next \in Nat /\ \A k \in Jobs : k \in Nat
      BY <1>0, StepsTyped DEF Jobs
    <2> QED BY <1>1, <1>2, <2>1, <2>2 DEF HandInv, UnchosenIsNotBegun
  <1>8. ScheduledIsUnsent'
    <2> SUFFICES ASSUME main' # "schedule"
                 PROVE  /\ ~ Begun(Scheduled)'
                        /\ \A v \in Workers : \A i \in 1 .. Len(toWorker'[v]) : ~ InFlight(Scheduled, v, i)'
      BY <1>1 DEF ScheduledIsUnsent, Scheduled, InFlight, Begun
    <2>1. Scheduled \in Jobs /\ Scheduled' = Scheduled
      BY <1>1, ScheduledType DEF Scheduled
    <2>2. /\ ~ Begun(Scheduled)
          /\ \A v \in Workers : \A i \in 1 .. Len(toWorker[v]) : ~ InFlight(Scheduled, v, i)
      BY <1>1 DEF HandInv, ScheduledIsUnsent
    <2>3. Scheduled # j
      BY <1>3, <2>1, <2>2
    <2>4. ASSUME NEW v \in Workers, NEW i \in 1 .. Len(toWorker'[v]), InFlight(Scheduled, v, i)'
          PROVE  FALSE
      <3>1. PICK k \in Jobs : k = Scheduled
        BY <2>1
      <3>2. InFlight(k, v, i)'
        BY <2>1, <2>4, <3>1 DEF InFlight, Scheduled
      <3>3. i + d[v] \in 1 .. Len(toWorker[v]) /\ InFlight(k, v, i + d[v])
        BY <1>4, <3>2
      <3> QED BY <2>2, <3>1, <3>3
    <2>5. ~ Begun(Scheduled)'
      <3>1. \A k \in Jobs : k = Scheduled => ~ Begun(k)'
        BY <1>2, <2>2, <2>3
      <3> QED BY <2>1, <3>1 DEF Begun, Scheduled
    <2> QED BY <2>4, <2>5
  <1> QED BY <1>6, <1>7, <1>8 DEF HandInv

\* The server chooses the next job, which has not begun.
LEMMA HandSchedule ==
  ASSUME TypeInv, TypeInv', HandInv, NEW w \in Workers, Schedule(w)
  PROVE  HandInv'
  <1>0. TypeOK /\ TypeOK'
    BY DEF TypeInv
  <1>1. /\ next \in Jobs /\ next' = next + 1 /\ main' = "check"
        /\ UNCHANGED <<toWorker, workerVars>>
    BY DEF Schedule, chanVars
  <1>2. next \in Nat /\ Scheduled' = next
    BY <1>0, <1>1, JobProtocolAssumption DEF TypeOK, Scheduled
  <1>a. \A j : Begun(j)' <=> Begun(j)
    BY <1>1 DEF Begun, workerVars, threadVars
  <1>3. SentOnce'
    BY <1>0, <1>1, <1>2, <1>a DEF HandInv, SentOnce, InFlight, Jobs
  <1>4. UnchosenIsNotBegun'
    BY <1>1, <1>2, <1>a DEF HandInv, UnchosenIsNotBegun, Jobs
  <1>5. ScheduledIsUnsent'
    <2>1. ~ Begun(next)
      BY <1>1, <1>2 DEF HandInv, UnchosenIsNotBegun
    <2>2. \A v \in Workers : \A i \in 1 .. Len(toWorker[v]) : ~ InFlight(next, v, i)
      BY <1>1, <1>2 DEF HandInv, SentOnce
    <2>3. \A v \in Workers : \A i \in 1 .. Len(toWorker'[v]) : ~ InFlight(Scheduled, v, i)'
      BY <1>1, <1>2, <2>2 DEF InFlight
    <2>4. ~ Begun(Scheduled)'
      BY <1>1, <1>2, <2>1 DEF Begun, workerVars, threadVars
    <2> QED BY <2>3, <2>4 DEF ScheduledIsUnsent
  <1> QED BY <1>3, <1>4, <1>5 DEF HandInv

\* The server sends the job it has chosen, which no channel or worker has.
LEMMA HandSend ==
  ASSUME TypeInv, TypeInv', HandInv, SendJob
  PROVE  HandInv'
  <1> DEFINE u == jobWorker[Scheduled]
  <1>0. TypeOK /\ TypeOK' /\ Scheduled \in Jobs /\ Scheduled < next /\ u \in Workers
    BY ScheduledType DEF SendJob, TypeInv
  <1>1. main' = "schedule" /\ UNCHANGED <<next, workerVars>>
    BY DEF SendJob
  <1>a. \A j : Begun(j)' <=> Begun(j)
    BY <1>1 DEF Begun, workerVars, threadVars
  <1>2. /\ ~ Begun(Scheduled)
        /\ \A w \in Workers : \A i \in 1 .. Len(toWorker[w]) : ~ InFlight(Scheduled, w, i)
    BY DEF HandInv, ScheduledIsUnsent, SendJob
  <1>3. SentOnce'
    <2>1. CASE UNCHANGED toWorker
      BY <1>1, <1>a, <2>1 DEF HandInv, SentOnce, InFlight
    <2>2. CASE toWorker' = [toWorker EXCEPT ![u] = Append(@, NewJob(Scheduled))]
      <3>2. ASSUME NEW j \in Jobs, NEW w \in Workers, NEW i \in 1 .. Len(toWorker'[w]), InFlight(j, w, i)'
            PROVE  \/ j = Scheduled /\ w = u /\ i = Len(toWorker[u]) + 1
                   \/ j # Scheduled /\ i \in 1 .. Len(toWorker[w]) /\ InFlight(j, w, i)
        <4>1. toWorker[w] \in Seq(Message)
          BY <1>0 DEF TypeOK
        <4>2. CASE w # u
          <5>1. i \in 1 .. Len(toWorker[w]) /\ InFlight(j, w, i)
            BY <1>0, <2>2, <3>2, <4>2 DEF InFlight, TypeOK
          <5> QED BY <1>2, <5>1
        <4>3. CASE w = u /\ i = Len(toWorker[u]) + 1
          BY <1>0, <2>2, <3>2, <4>1, <4>3 DEF InFlight, TypeOK, NewJob
        <4>4. CASE w = u /\ i # Len(toWorker[u]) + 1
          <5>1. toWorker'[u] = Append(toWorker[u], NewJob(Scheduled))
            BY <1>0, <2>2 DEF TypeOK
          <5>2. i \in 1 .. Len(toWorker[w]) /\ InFlight(j, w, i)
            BY <3>2, <4>1, <4>4, <5>1 DEF InFlight
          <5> QED BY <1>2, <5>2
        <4> QED BY <4>2, <4>3, <4>4
      <3> SUFFICES ASSUME NEW j \in Jobs, NEW w \in Workers, NEW i \in 1 .. Len(toWorker'[w]), InFlight(j, w, i)'
                   PROVE  /\ j < next'
                          /\ ~ Begun(j)'
                          /\ \A v \in Workers : \A k \in 1 .. Len(toWorker'[v]) :
                                 InFlight(j, v, k)' => v = w /\ k = i
        BY DEF SentOnce
      <3>3. CASE j = Scheduled
        BY <1>0, <1>1, <1>2, <1>a, <3>2, <3>3
      <3>4. CASE j # Scheduled
        BY <1>1, <1>a, <3>2, <3>4 DEF HandInv, SentOnce
      <3> QED BY <3>3, <3>4
    <2> QED BY <2>1, <2>2 DEF SendJob
  <1>4. UnchosenIsNotBegun' /\ ScheduledIsUnsent'
    BY <1>1, <1>a DEF HandInv, UnchosenIsNotBegun, ScheduledIsUnsent
  <1> QED BY <1>3, <1>4 DEF HandInv

\* Every step keeps the invariant: one case per action.
LEMMA HandStep ==
  ASSUME TypeInv, TypeInv', HandInv, [Next]_vars
  PROVE  HandInv'
  <1>0. TypeOK
    BY DEF TypeInv
  <1>1. ASSUME UNCHANGED <<toWorker, next, workerVars>>,
               main' # "schedule" => main # "schedule"
        PROVE  HandInv'
    <2>1. \A j \in Jobs : Begun(j)' => Begun(j)
      BY <1>1 DEF Begun, workerVars, threadVars
    <2> QED BY <1>1, <2>1, HandKeptUnsent
  <1>2. CASE Check \/ Attach \/ UNCHANGED vars
    BY <1>1, <1>2 DEF Check, Attach, vars, schedVars, chanVars
  <1>3. ASSUME NEW t, NEW j, NEW s, NEW rest, SetJobState(t, j, s, rest), UNCHANGED <<next, main, workerVars>>
        PROVE  HandInv'
    <2>1. CASE UNCHANGED toWorker
      BY <1>1, <1>3, <2>1
    <2>2. CASE toWorker' = [toWorker EXCEPT ![jobWorker[j]] = Append(@, Msg("CANCELJOB"))]
      <3>1. Msg("CANCELJOB").kind # "NEWJOB"
        BY DEF Msg
      <3> QED BY <1>3, <2>2, <3>1, HandKeptAppend
    <2> QED BY <1>3, <2>1, <2>2 DEF SetJobState
  <1>4. ASSUME NEW w \in Workers, ReaderThread(w) PROVE HandInv'
    <2>1. UNCHANGED <<next, main, workerVars>>
      BY <1>4 DEF ReaderThread, HandleJobFinished, HandleStateChange, HandleJobAccepted, HandleJobRefused,
                  HandleReply, Receive
    <2>2. UNCHANGED toWorker \/ \E t, j, s, rest : SetJobState(t, j, s, rest)
      BY <1>4 DEF ReaderThread, HandleJobFinished, HandleStateChange, HandleJobAccepted, HandleJobRefused,
                  HandleReply, UnchangedJobs
    <2> QED BY <1>1, <1>3, <2>1, <2>2
  <1>5. ASSUME NEW j \in Jobs, Cancel(j) PROVE HandInv'
    BY <1>3, <1>5 DEF Cancel
  <1>6. ASSUME NEW w \in Workers, HandleNewJob(w) PROVE HandInv'
    <2>1. CASE actualJob[w] = NoJob
      BY <1>6, <2>1, HandStart
    <2>2. CASE actualJob[w] # NoJob
      BY <1>6, <2>2, HandKeptTaken DEF HandleNewJob, threadVars
    <2> QED BY <2>1, <2>2
  <1>7. ASSUME NEW w \in Workers, StartThread(w) \/ KillThread(w) \/ StopThread(w)
                                  \/ \E j \in Jobs : ObserveJob(w, j)
        PROVE  HandInv'
    <2>1. UNCHANGED <<toWorker, next, main, actualJob, actualThread, host>>
      BY <1>7 DEF StartThread, KillThread, StopThread, ObserveJob, schedVars, chanVars, threadVars
    <2>2. UNCHANGED thread \/ thread' = [thread EXCEPT ![actualThread[w]] = "ready"]
      BY <1>7 DEF StartThread, KillThread, StopThread, ObserveJob, threadVars
    <2>3. stopping' = stopping \/ stopping' = stopping \cup {actualThread[w]}
      BY <1>7 DEF StartThread, KillThread, StopThread, ObserveJob, threadVars
    <2>4. \A j \in Jobs : Begun(j)' => Begun(j)
      BY <1>0, <2>1, <2>2, <2>3 DEF Begun, TypeOK
    <2> QED BY <2>1, <2>4, HandKeptUnsent
  <1>8. ASSUME NEW w \in Workers, HandleCancelJob(w) PROVE HandInv'
    BY <1>8, HandKeptTaken DEF HandleCancelJob
  <1>10. ASSUME NEW j \in Jobs, JobThread(j) \/ Throw(j) PROVE HandInv'
    <2>1. UNCHANGED <<toWorker, next, main, host>> /\ stopping' \subseteq stopping
      BY <1>10 DEF JobThread, StartParsing, StartRunning, StartMetrics, Advance, Succeed, Throw, RaiseKill,
                   ClearJob, ClearThread, ReportOutcome, NotifyFinished, ThreadUnchanged, schedVars
    <2>2. \A w \in Workers : actualJob'[w] \in {actualJob[w], NoJob} /\ actualThread'[w] \in {actualThread[w], NoJob}
      BY <1>0, <1>10 DEF JobThread, StartParsing, StartRunning, StartMetrics, Advance, Succeed, Throw, RaiseKill,
                         ClearJob, ClearThread, ReportOutcome, NotifyFinished, ThreadUnchanged, TypeOK
    <2>3. Begun(j)
      BY <1>10 DEF JobThread, StartParsing, StartRunning, StartMetrics, Advance, Succeed, Throw, RaiseKill,
                   ClearJob, ClearThread, ReportOutcome, NotifyFinished, TryPhases, Begun
    <2>4. PICK p : thread' = [thread EXCEPT ![j] = p]
      BY <1>10 DEF JobThread, StartParsing, StartRunning, StartMetrics, Advance, EndTry, Succeed, Throw,
                   RaiseKill, ClearJob, ClearThread, ReportOutcome, NotifyFinished
    <2>5. NoJob \notin Jobs
      BY DEF Jobs, NoJob
    <2>6. \A k \in Jobs : Begun(k)' => Begun(k)
      BY <1>0, <2>1, <2>2, <2>3, <2>4, <2>5 DEF TypeOK, Begun
    <2> QED BY <2>1, <2>6, HandKeptUnsent
  <1>11. ASSUME NEW w \in Workers, Connect(w) PROVE HandInv'
    BY <1>1, <1>11 DEF Connect, chanVars
  <1>12. ASSUME NEW w \in Workers, LoseConnection(w) \/ AttendanceTimeout(w) PROVE HandInv'
    <2>1. UNCHANGED workerVars
      BY <1>12 DEF LoseConnection, AttendanceTimeout
    <2>2. \A j \in Jobs : Begun(j)' => Begun(j)
      BY <2>1 DEF Begun, workerVars, threadVars
    <2> QED BY <1>12, <2>2, ConnectionEnds, HandKeptCleared
  <1>13. ASSUME NEW w \in Workers, CrashWorker(w) PROVE HandInv'
    <2>1. NoJob \notin Jobs /\ w # NoWorker
      BY JobProtocolAssumption DEF Jobs, NoJob
    <2>2. \A j \in Jobs : Begun(j)' => Begun(j)
      BY <1>0, <1>13, <2>1 DEF CrashWorker, TypeOK, Begun
    <2> QED BY <1>13, <2>2, ConnectionEnds, HandKeptCleared
  <1>14. ASSUME NEW t \in ServerThreads, GoesOn(t) PROVE HandInv'
    <2>1. UNCHANGED <<next, main, workerVars>>
      BY <1>14, GoesOnEffect
    <2>2. \A j \in Jobs : Begun(j)' => Begun(j)
      BY <2>1 DEF Begun, workerVars, threadVars
    <2>3. \/ toWorker' = toWorker
          \/ \E w \in Workers : toWorker' = [toWorker EXCEPT ![w] = <<>>]
          \/ \E j, s, rest : SetJobState(t, j, s, rest)
      BY <1>14, GoesOnEffect
    <2> QED BY <1>1, <1>3, <2>1, <2>2, <2>3, HandKeptCleared
  <1> QED
    BY <1>2, <1>4, <1>5, <1>6, <1>7, <1>8, <1>10, <1>11, <1>12, <1>13, <1>14, HandSchedule, HandSend
    DEF Next, Main, Communicator

\* No job is handed out twice: in every reachable state at most one NEWJOB for
\* it travels, and none once a worker has begun to start it.
THEOREM NeverHandedOutTwice == Spec => []HandedOutOnce
  <1>1. Init => HandInv
    BY JobProtocolAssumption
    DEF Init, HandInv, SentOnce, UnchosenIsNotBegun, ScheduledIsUnsent, InFlight, Begun, Jobs, NoJob
  <1>2. TypeInv /\ TypeInv' /\ HandInv /\ [Next]_vars => HandInv'
    BY HandStep
  <1>3. HandInv => HandedOutOnce
    BY DEF HandInv, SentOnce, HandedOutOnce, Begun
  <1> QED BY <1>1, <1>2, <1>3, TypeInit, TypeStep, PTL DEF Spec

-----------------------------------------------------------------------------
(* A worker executes one job at a time.                                    *)

\* The strengthening: Experimentor.actualJob is the job its host executes, and
\* the job whose thread the Communicator is about to start.
ExecutesActual ==
    /\ \A j \in Jobs : Executing(j) => host[j] \in Workers /\ actualJob[host[j]] = j
    /\ \A w \in Workers : comm[w] = "start" /\ actualThread[w] # NoJob =>
           /\ actualJob[w] = actualThread[w]
           /\ host[actualThread[w]] = w
           /\ ~ Executing(actualThread[w])

\* A job that leaves its worker's actualJob alone, or clears it when it ends,
\* keeps it.
LEMMA ExecutesKept ==
  ASSUME TypeInv, ExecutesActual, NEW j \in Jobs, NEW p, thread' = [thread EXCEPT ![j] = p],
         p \in TryPhases \cup {"finally"} => Executing(j),
         UNCHANGED <<host, comm>>,
         \/ UNCHANGED actualJob
         \/ Executing(j) /\ p \notin TryPhases \cup {"finally"}
            /\ actualJob' = [actualJob EXCEPT ![host[j]] = NoJob],
         \A w \in Workers : actualThread'[w] \in {actualThread[w], NoJob}
  PROVE  ExecutesActual'
  <1>0. TypeOK /\ NoJob \notin Jobs
    BY DEF TypeInv, Jobs, NoJob
  <1>1. \A k \in Jobs : Executing(k)' => Executing(k)
    BY <1>0 DEF Executing, TypeOK
  <1>2. ASSUME NEW k \in Jobs, Executing(k)' PROVE host'[k] \in Workers /\ actualJob'[host'[k]] = k
    <2>1. Executing(k) /\ host'[k] = host[k] /\ host[k] \in Workers /\ actualJob[host[k]] = k
      BY <1>1, <1>2 DEF ExecutesActual
    <2>2. CASE UNCHANGED actualJob
      BY <2>1, <2>2
    <2>3. CASE Executing(j) /\ p \notin TryPhases \cup {"finally"}
               /\ actualJob' = [actualJob EXCEPT ![host[j]] = NoJob]
      <3>1. k # j
        BY <1>0, <1>2, <2>3 DEF Executing, TypeOK
      <3>2. host[j] # host[k]
        BY <2>1, <2>3, <3>1 DEF ExecutesActual
      <3> QED BY <1>0, <2>1, <2>3, <3>2 DEF TypeOK
    <2> QED BY <2>2, <2>3
  <1>3. ASSUME NEW w \in Workers, comm'[w] = "start", actualThread'[w] # NoJob
        PROVE  /\ actualJob'[w] = actualThread'[w]
               /\ host'[actualThread'[w]] = w
               /\ ~ Executing(actualThread[w])'
    <2>1. /\ actualThread'[w] = actualThread[w] /\ actualThread[w] \in Jobs
          /\ actualJob[w] = actualThread[w] /\ host[actualThread[w]] = w
          /\ ~ Executing(actualThread[w])
      BY <1>0, <1>3 DEF ExecutesActual, TypeOK
    <2>2. \A k \in Jobs : k = actualThread[w] => ~ Executing(k)'
      BY <1>1, <2>1
    <2>3. ~ Executing(actualThread[w])'
      BY <2>1, <2>2 DEF Executing
    <2>4. actualJob'[w] = actualJob[w]
      BY <1>0, <2>1 DEF ExecutesActual, TypeOK
    <2> QED BY <2>1, <2>3, <2>4
  <1> QED BY <1>2, <1>3 DEF ExecutesActual, Executing

\* Every step leaves what executes the actualJob of its worker: a job starts
\* where there is none, and actualJob is cleared when the job no longer executes.
LEMMA ExecutesStep ==
  ASSUME TypeInv, HandInv, ExecutesActual, [Next]_vars
  PROVE  ExecutesActual'
  <1>0. TypeOK /\ NoJob \notin Jobs /\ NoWorker \notin Workers
    BY JobProtocolAssumption DEF TypeInv, Jobs, NoJob
  <1>1. ASSUME UNCHANGED <<thread, host, actualJob, actualThread>>,
               \A w \in Workers : comm'[w] = "start" => comm[w] = "start"
        PROVE  ExecutesActual'
    BY <1>1 DEF ExecutesActual, Executing
  <1>2. ASSUME NEW w \in Workers, HandleNewJob(w) PROVE ExecutesActual'
    <2>1. CASE actualJob[w] = NoJob
      <3> DEFINE j == Head(toWorker[w]).job
      <3>1. /\ Take(w, "NEWJOB")
            /\ actualJob' = [actualJob EXCEPT ![w] = j]
            /\ actualThread' = [actualThread EXCEPT ![w] = j]
            /\ host' = [host EXCEPT ![j] = w]
            /\ comm' = [comm EXCEPT ![w] = "start"]
            /\ UNCHANGED thread
        BY <1>2, <2>1 DEF HandleNewJob
      <3>2. j \in Jobs => ~ Begun(j)
        <4>1. j \in Jobs => 1 \in 1 .. Len(toWorker[w]) /\ InFlight(j, w, 1)
          BY <1>0, <3>1 DEF Take, InFlight, TypeOK
        <4> QED BY <4>1 DEF HandInv, SentOnce
      <3>3. j \in Jobs \cup {NoJob}
        BY <1>0, <3>1, TakeType DEF Message
      <3> HIDE DEF j
      <3>4. ASSUME NEW k \in Jobs, Executing(k)' PROVE host'[k] \in Workers /\ actualJob'[host'[k]] = k
        <4>1. Executing(k)
          BY <3>1, <3>4 DEF Executing
        <4>2. k # j
          BY <3>2, <4>1 DEF Begun, Executing, TryPhases
        <4>3. host'[k] = host[k] /\ host[k] \in Workers /\ actualJob[host[k]] = k
          BY <1>0, <3>1, <4>1, <4>2 DEF ExecutesActual, TypeOK
        <4>4. host[k] # w
          BY <1>0, <2>1, <4>3
        <4> QED BY <1>0, <3>1, <4>3, <4>4 DEF TypeOK
      <3>5. ASSUME NEW v \in Workers, comm'[v] = "start", actualThread'[v] # NoJob
            PROVE  /\ actualJob'[v] = actualThread'[v]
                   /\ host'[actualThread'[v]] = v
                   /\ ~ Executing(actualThread[v])'
        <4>1. CASE v = w
          <5>1. actualJob'[v] = j /\ actualThread'[v] = j /\ j \in Jobs /\ host'[j] = w
            BY <1>0, <3>1, <3>3, <3>5, <4>1 DEF TypeOK
          <5>2. thread'[j] = "none"
            BY <3>1, <3>2, <5>1 DEF Begun
          <5> QED BY <4>1, <5>1, <5>2 DEF Executing, TryPhases
        <4>2. CASE v # w
          <5>1. /\ actualThread'[v] = actualThread[v] /\ actualJob'[v] = actualJob[v]
                /\ comm[v] = "start" /\ actualThread[v] \in Jobs
            BY <1>0, <3>1, <3>5, <4>2 DEF TypeOK
          <5>2. actualThread[v] # j
            BY <3>2, <5>1 DEF Begun
          <5> QED BY <1>0, <3>1, <3>5, <5>1, <5>2 DEF ExecutesActual, TypeOK, Executing
        <4> QED BY <4>1, <4>2
      <3> QED BY <3>4, <3>5 DEF ExecutesActual, Executing
    <2>2. CASE actualJob[w] # NoJob
      BY <1>1, <1>2, <2>2 DEF HandleNewJob
    <2> QED BY <2>1, <2>2
  <1>3. ASSUME NEW w \in Workers, (\E j \in Jobs : ObserveJob(w, j))
                                 \/ HandleCancelJob(w) \/ KillThread(w) \/ StopThread(w)
        PROVE  ExecutesActual'
    <2>1. UNCHANGED <<thread, host, actualJob, actualThread>>
      BY <1>3 DEF ObserveJob, HandleCancelJob, KillThread, StopThread, threadVars
    <2>2. \E c \in {"read", "busy", "died", "stop", comm[w]} : comm' = [comm EXCEPT ![w] = c]
      BY <1>3 DEF ObserveJob, HandleCancelJob, KillThread, StopThread
    <2>3. \A v \in Workers : comm'[v] = "start" => comm[v] = "start"
      BY <1>0, <2>2 DEF TypeOK
    <2> QED BY <1>1, <2>1, <2>3
  <1>4. ASSUME NEW w \in Workers, StartThread(w) PROVE ExecutesActual'
    <2> DEFINE j == actualThread[w]
    <2>1. /\ comm[w] = "start" /\ UNCHANGED <<host, actualJob, actualThread>>
          /\ \E c \in {"read", "observe"} : comm' = [comm EXCEPT ![w] = c]
      BY <1>4 DEF StartThread
    <2>2. CASE j = NoJob
      BY <1>0, <1>1, <1>4, <2>1, <2>2 DEF StartThread, TypeOK
    <2>3. CASE j # NoJob
      <3>1. thread' = [thread EXCEPT ![j] = "ready"]
        BY <1>4, <2>3 DEF StartThread
      <3>2. j \in Jobs /\ actualJob[w] = j /\ host[j] = w
        BY <1>0, <2>1, <2>3 DEF ExecutesActual, TypeOK
      <3> HIDE DEF j
      <3>3. \A k \in Jobs : Executing(k)' => host[k] \in Workers /\ actualJob[host[k]] = k
        BY <1>0, <3>1, <3>2 DEF ExecutesActual, Executing, TypeOK
      <3>4. ASSUME NEW v \in Workers, comm'[v] = "start", actualThread[v] # NoJob
            PROVE  /\ actualJob[v] = actualThread[v]
                   /\ host[actualThread[v]] = v
                   /\ thread'[actualThread[v]] \notin TryPhases \cup {"finally"}
        <4>1. v # w /\ comm[v] = "start" /\ actualThread[v] \in Jobs
          BY <1>0, <2>1, <3>4 DEF TypeOK
        <4>2. /\ actualJob[v] = actualThread[v] /\ host[actualThread[v]] = v
              /\ ~ Executing(actualThread[v])
          BY <3>4, <4>1 DEF ExecutesActual
        <4>3. actualThread[v] # j
          BY <3>2, <4>1, <4>2
        <4> QED BY <1>0, <3>1, <4>1, <4>2, <4>3 DEF Executing, TypeOK
      <3> QED BY <2>1, <3>3, <3>4 DEF ExecutesActual, Executing
    <2> QED BY <2>2, <2>3
  <1>5. ASSUME NEW j \in Jobs, JobThread(j) \/ Throw(j) PROVE ExecutesActual'
    <2>1. UNCHANGED <<host, comm>>
      BY <1>5 DEF JobThread, StartParsing, StartRunning, StartMetrics, Advance, Succeed, Throw, RaiseKill,
                  ClearJob, ClearThread, ReportOutcome, NotifyFinished, ThreadUnchanged
    <2>2. \A w \in Workers : actualThread'[w] \in {actualThread[w], NoJob}
      BY <1>0, <1>5 DEF JobThread, StartParsing, StartRunning, StartMetrics, Advance, Succeed, Throw, RaiseKill,
                        ClearJob, ClearThread, ReportOutcome, NotifyFinished, TypeOK
    <2>3. CASE ClearJob(j)
      BY <2>1, <2>2, <2>3, ExecutesKept DEF ClearJob, Executing, TryPhases
    <2>4. CASE RaiseKill(j)
      <3>1. UNCHANGED actualJob
        BY <2>4 DEF RaiseKill
      <3>2. CASE thread[j] \in TryPhases
        BY <2>1, <2>2, <2>4, <3>1, <3>2, ExecutesKept DEF RaiseKill, EndTry, Executing, TryPhases
      <3>3. CASE thread[j] \notin TryPhases
        <4>1. PICK p \in {"done", "died"} : thread' = [thread EXCEPT ![j] = p]
          BY <2>4, <3>3 DEF RaiseKill
        <4> QED BY <2>1, <2>2, <3>1, <4>1, ExecutesKept DEF TryPhases
      <3> QED BY <3>2, <3>3
    <2>5. CASE StartParsing(j) \/ StartRunning(j) \/ StartMetrics(j) \/ Succeed(j) \/ Throw(j)
      <3>1. UNCHANGED actualJob /\ Executing(j) /\ \E p : thread' = [thread EXCEPT ![j] = p]
        BY <2>5 DEF StartParsing, StartRunning, StartMetrics, Advance, Succeed, Throw, EndTry, Executing, TryPhases
      <3> QED BY <2>1, <2>2, <3>1, ExecutesKept
    <2>6. CASE ClearThread(j) \/ ReportOutcome(j) \/ NotifyFinished(j)
      <3>1. /\ UNCHANGED actualJob
            /\ \E p \in {"cleared", "reported", "died", "done"} : thread' = [thread EXCEPT ![j] = p]
        BY <2>6 DEF ClearThread, ReportOutcome, NotifyFinished
      <3> QED BY <2>1, <2>2, <3>1, ExecutesKept DEF TryPhases
    <2> QED BY <1>5, <2>3, <2>4, <2>5, <2>6 DEF JobThread
  <1>9. ASSUME NEW w \in Workers, CrashWorker(w) PROVE ExecutesActual'
    <2>1. /\ actualJob' = [actualJob EXCEPT ![w] = NoJob]
          /\ actualThread' = [actualThread EXCEPT ![w] = NoJob]
          /\ comm' = [comm EXCEPT ![w] = "read"]
          /\ thread' = [j \in Jobs |-> IF host[j] = w /\ thread[j] # "done" THEN "died" ELSE thread[j]]
          /\ host' = [j \in Jobs |-> IF host[j] = w THEN NoWorker ELSE host[j]]
      BY <1>9 DEF CrashWorker
    <2>2. \A k \in Jobs : Executing(k)' => Executing(k) /\ host[k] # w /\ host'[k] = host[k]
      BY <2>1 DEF Executing, TryPhases
    <2>3. \A k \in Jobs : Executing(k)' => host'[k] \in Workers /\ actualJob'[host'[k]] = k
      BY <1>0, <2>1, <2>2 DEF ExecutesActual, TypeOK
    <2>4. ASSUME NEW v \in Workers, comm'[v] = "start", actualThread'[v] # NoJob
          PROVE  /\ actualJob'[v] = actualThread'[v]
                 /\ host'[actualThread'[v]] = v
                 /\ ~ Executing(actualThread[v])'
      <3>1. v # w /\ comm[v] = "start" /\ actualThread'[v] = actualThread[v] /\ actualJob'[v] = actualJob[v]
            /\ actualThread[v] \in Jobs
        BY <1>0, <2>1, <2>4 DEF TypeOK
      <3>2. /\ actualJob[v] = actualThread[v] /\ host[actualThread[v]] = v /\ ~ Executing(actualThread[v])
        BY <2>4, <3>1 DEF ExecutesActual
      <3>3. host'[actualThread[v]] = v /\ thread'[actualThread[v]] = thread[actualThread[v]]
        BY <2>1, <3>1, <3>2
      <3> QED BY <3>1, <3>2, <3>3 DEF Executing
    <2> QED BY <2>3, <2>4 DEF ExecutesActual, Executing
  <1>10. ASSUME UNCHANGED workerVars PROVE ExecutesActual'
    BY <1>1, <1>10 DEF workerVars, threadVars
  <1>11. CASE UNCHANGED vars
    BY <1>10, <1>11 DEF vars
  <1>12. CASE Main
    BY <1>10, <1>12 DEF Main, Schedule, Check, Attach, SendJob
  <1>13. ASSUME NEW w \in Workers, ReaderThread(w) \/ Connect(w) \/ AttendanceTimeout(w) \/ LoseConnection(w)
         PROVE  ExecutesActual'
    BY <1>10, <1>13 DEF ReaderThread, HandleJobFinished, HandleStateChange, HandleJobAccepted, HandleJobRefused,
                        HandleReply, Receive, Connect, AttendanceTimeout, LoseConnection
  <1>14. ASSUME NEW j \in Jobs, Cancel(j) PROVE ExecutesActual'
    BY <1>10, <1>14 DEF Cancel
  <1>15. ASSUME NEW t \in ServerThreads, GoesOn(t) PROVE ExecutesActual'
    BY <1>10, <1>15, GoesOnEffect
  <1> QED
    BY <1>2, <1>3, <1>4, <1>5, <1>9, <1>11, <1>12, <1>13, <1>14, <1>15
    DEF Next, Communicator

\* No worker process executes two jobs at once, in every reachable state.
THEOREM OneJobAtATime == Spec => []OneJobPerWorker
  <1>1. Init => HandInv
    BY JobProtocolAssumption
    DEF Init, HandInv, SentOnce, UnchosenIsNotBegun, ScheduledIsUnsent, InFlight, Begun, Jobs, NoJob
  <1>2. Init => ExecutesActual
    BY DEF Init, ExecutesActual, Executing, TryPhases
  <1>3. TypeInv /\ TypeInv' /\ HandInv /\ [Next]_vars => HandInv'
    BY HandStep
  <1>4. TypeInv /\ HandInv /\ ExecutesActual /\ [Next]_vars => ExecutesActual'
    BY ExecutesStep
  <1>5. ExecutesActual => OneJobPerWorker
    BY DEF ExecutesActual, OneJobPerWorker
  <1> QED BY <1>1, <1>2, <1>3, <1>4, <1>5, TypeInit, TypeStep, PTL DEF Spec

-----------------------------------------------------------------------------
(* The protocol implements JobLife.                                        *)

\* What the refinement needs: the jobs that have a worker are the ones that
\* have been scheduled, and a descriptor holds only such a job - so what a
\* worker reports or loses can never end a job that still waits.
LifeInv ==
    /\ \A j \in Jobs : jobWorker[j] # NoWorker <=> j < next
    /\ \A w \in Workers : wdJob[w] < next

\* A worker that becomes unemployed holds no job afterwards, if not the old one.
LEMMA FreeWorkerHolds ==
  ASSUME TypeOK, LifeInv, NEW t, NEW w, NEW rest, FreeWorker(t, w, rest), UNCHANGED <<jobWorker, next>>
  PROVE  LifeInv'
  <1>1. NoJob < next
    BY StepsTyped DEF NoJob
  <1> QED BY <1>1 DEF TypeOK, LifeInv, FreeWorker

\* A job's change of state gives no descriptor another job.
LEMMA SetJobStateHolds ==
  ASSUME TypeOK, LifeInv, NEW t, NEW j \in Jobs, NEW s, NEW rest, SetJobState(t, j, s, rest),
         UNCHANGED <<jobWorker, next>>
  PROVE  LifeInv'
  <1>1. FreeWorker(t, jobWorker[j], rest) \/ UNCHANGED wdJob
    BY DEF SetJobState
  <1> QED BY <1>1, FreeWorkerHolds DEF LifeInv

\* Only schedule gives a job a worker, and only schedule and attach give a
\* worker a job: the one scheduled last.
LEMMA LifeStep ==
  ASSUME TypeInv, LifeInv, [Next]_vars
  PROVE  LifeInv'
  <1>0. TypeOK /\ next \in Nat /\ NoJob < next
    BY StepsTyped DEF TypeInv, NoJob
  <1>1. ASSUME NEW w \in Workers, Schedule(w) PROVE LifeInv'
    <2>1. next \in Jobs /\ next' = next + 1 /\ next \in Nat /\ w # NoWorker
      BY <1>0, <1>1, JobProtocolAssumption DEF Schedule, Jobs
    <2>2. \A j \in Jobs : j \in Nat /\ (j < next' <=> j < next \/ j = next)
      BY <2>1 DEF Jobs
    <2>3. /\ jobWorker' = [jobWorker EXCEPT ![next] = w]
          /\ wdJob' = [wdJob EXCEPT ![w] = next] \/ wdJob' = wdJob
      BY <1>1 DEF Schedule, EmployWorker
    <2>4. \A j \in Jobs : jobWorker'[j] # NoWorker <=> j < next'
      BY <1>0, <2>1, <2>2, <2>3 DEF TypeOK, LifeInv
    <2>5. \A v \in Workers : wdJob[v] \in Nat /\ wdJob[v] < next
      BY <1>0 DEF TypeOK, LifeInv, Jobs, NoJob
    <2>7. \A v \in Workers : wdJob'[v] = next \/ wdJob'[v] = wdJob[v]
      BY <1>0, <2>3 DEF TypeOK
    <2>6. \A v \in Workers : wdJob'[v] < next'
      BY <2>1, <2>5, <2>7
    <2> QED BY <2>4, <2>6 DEF LifeInv
  <1>2. CASE Attach
    <2>1. Scheduled \in Jobs /\ Scheduled < next
      BY <1>2, ScheduledType DEF Attach
    <2> QED BY <1>0, <1>2, <2>1 DEF Attach, EmployWorker, TypeOK, LifeInv
  <1>3. ASSUME NEW w \in Workers, ReaderThread(w) PROVE LifeInv'
    <2>1. UNCHANGED <<jobWorker, next>>
      BY <1>3 DEF ReaderThread, HandleJobFinished, HandleStateChange, HandleJobAccepted, HandleJobRefused,
                  HandleReply, Receive
    <2>2. \/ UNCHANGED wdJob \/ FreeWorker(Reader(w), w, <<>>)
          \/ \E j \in Jobs : \E t, s, rest : SetJobState(t, j, s, rest)
      BY <1>0, <1>3 DEF ReaderThread, HandleJobFinished, HandleStateChange, HandleJobAccepted, HandleJobRefused,
                  HandleReply, UnchangedJobs, TypeOK
    <2>3. CASE UNCHANGED wdJob
      BY <2>1, <2>3 DEF LifeInv
    <2> QED BY <1>0, <2>1, <2>2, <2>3, FreeWorkerHolds, SetJobStateHolds
  <1>4. ASSUME NEW k \in Jobs, Cancel(k) PROVE LifeInv'
    <2>1. UNCHANGED <<jobWorker, next>> /\ \E j \in Jobs : \E t, s, rest : SetJobState(t, j, s, rest)
      BY <1>0, <1>4 DEF Cancel, TypeOK
    <2> QED BY <1>0, <2>1, SetJobStateHolds
  <1>5. ASSUME NEW w \in Workers, Connect(w) PROVE LifeInv'
    BY <1>0, <1>5 DEF Connect, TypeOK, LifeInv
  <1>6. ASSUME NEW w \in Workers, LoseConnection(w) \/ CrashWorker(w) \/ AttendanceTimeout(w) PROVE LifeInv'
    <2>1. \/ UNCHANGED wdJob \/ wdJob' = [wdJob EXCEPT ![w] = NoJob]
      BY <1>6, ConnectionEnds DEF Disconnect
    <2>2. \A v \in Workers : wdJob'[v] = NoJob \/ wdJob'[v] = wdJob[v]
      BY <1>0, <2>1 DEF TypeOK
    <2>3. UNCHANGED <<jobWorker, next>>
      BY <1>6, ConnectionEnds
    <2> QED BY <1>0, <2>2, <2>3 DEF LifeInv
  <1>7. CASE Check \/ SendJob \/ UNCHANGED vars
    BY <1>7 DEF Check, SendJob, vars, csVars, schedVars, LifeInv
  <1>8. ASSUME NEW w \in Workers, Communicator(w) PROVE LifeInv'
    BY <1>8 DEF Communicator, HandleNewJob, StartThread, ObserveJob, HandleCancelJob, KillThread, StopThread,
                Take, csVars, schedVars, LifeInv
  <1>9. ASSUME NEW j \in Jobs, JobThread(j) \/ Throw(j) PROVE LifeInv'
    <2>1. UNCHANGED <<csVars, schedVars>>
      BY <1>9 DEF JobThread, StartParsing, StartRunning, StartMetrics, Advance, Succeed, Throw, RaiseKill,
                  ClearJob, ClearThread, ReportOutcome, NotifyFinished, ThreadUnchanged
    <2> QED BY <2>1 DEF csVars, schedVars, LifeInv
  <1>10. ASSUME NEW t \in ServerThreads, GoesOn(t) PROVE LifeInv'
    <2>1. UNCHANGED <<jobWorker, next>>
      BY <1>10, GoesOnEffect
    <2>2. \/ UNCHANGED wdJob
          \/ \E w \in Workers : \E j : j < next /\ wdJob' = [wdJob EXCEPT ![w] = j]
          \/ \E j \in Jobs : \E s, rest : SetJobState(t, j, s, rest)
      BY <1>10, GoesOnEffect
    <2>3. CASE \E w \in Workers : \E j : j < next /\ wdJob' = [wdJob EXCEPT ![w] = j]
      BY <1>0, <2>1, <2>3 DEF TypeOK, LifeInv
    <2>4. CASE UNCHANGED wdJob
      BY <2>1, <2>4 DEF LifeInv
    <2> QED BY <1>0, <2>1, <2>2, <2>3, <2>4, SetJobStateHolds
  <1> QED
    BY <1>1, <1>2, <1>3, <1>4, <1>5, <1>6, <1>7, <1>8, <1>9, <1>10 DEF Next, Main

\* A job's change of state is its end, or nothing that JobLife speaks of.
LEMMA StateChangeRefines ==
  ASSUME TypeOK, LifeInv, NEW j \in Jobs, NEW s,
         csState' = [csState EXCEPT ![j] = s], UNCHANGED jobWorker,
         SetStateAccepts(csState[j], s), j < next \/ s = "CANCELLED"
  PROVE  [Life!Next]_(Life!vars)
  <1>1. CASE IsFinal(csState[j]) \/ ~ IsFinal(s)
    <2>1. \A k \in Jobs : /\ IsFinal(csState'[k]) <=> IsFinal(csState[k])
                          /\ IsFinal(csState[k]) => csState'[k] = csState[k]
      BY <1>1, FinalIsAbsorbing DEF TypeOK
    <2>2. lifeOfJobs' = lifeOfJobs /\ resultOfJobs' = resultOfJobs
      BY <2>1 DEF lifeOfJobs, resultOfJobs
    <2> QED BY <2>2 DEF Life!vars
  <1>2. CASE ~ IsFinal(csState[j]) /\ IsFinal(s)
    <2>1. \A k \in Jobs : csState'[k] = IF k = j THEN s ELSE csState[k]
      BY DEF TypeOK
    <2>2. lifeOfJobs[j] # "ended" /\ (lifeOfJobs[j] = "waiting" => s = "CANCELLED")
      BY <1>2 DEF lifeOfJobs, LifeInv
    <2>3. lifeOfJobs' = [lifeOfJobs EXCEPT ![j] = "ended"]
      BY <1>2, <2>1 DEF lifeOfJobs
    <2>4. resultOfJobs' = [resultOfJobs EXCEPT ![j] = s]
      BY <1>2, <2>1 DEF resultOfJobs
    <2>5. Life!End(j, s)
      BY <2>2, <2>3, <2>4 DEF Life!End
    <2> QED BY <1>2, <2>5 DEF Life!Next, Life!Jobs, Jobs, IsFinal, FinalStates, Life!FinalStates
  <1> QED BY <1>1, <1>2

\* schedule hands out the first job that has no worker; every other step ends a
\* job that has one or that the user cancels, or is a stutter.
LEMMA LifeRefines ==
  ASSUME TypeInv, LifeInv, [Next]_vars
  PROVE  [Life!Next]_(Life!vars)
  <1>0. TypeOK
    BY DEF TypeInv
  <1>1. ASSUME NEW w \in Workers, Schedule(w) PROVE [Life!Next]_(Life!vars)
    <2>1. /\ next \in Jobs /\ next \in Nat /\ w # NoWorker
          /\ csState' = [csState EXCEPT ![next] = "SCHEDULED"]
          /\ jobWorker' = [jobWorker EXCEPT ![next] = w]
      BY <1>0, <1>1, JobProtocolAssumption DEF Schedule, Jobs
    <2>2. ~ IsFinal(csState[next]) /\ ~ IsFinal("SCHEDULED")
      BY <1>1, FinalIsAbsorbing DEF Schedule, IsFinal, FinalStates
    <2>3. jobWorker[next] = NoWorker /\ \A i \in 1 .. next - 1 : jobWorker[i] # NoWorker
      <3>1. ~ (next < next) /\ \A i \in 1 .. next - 1 : i \in Jobs /\ i < next
        BY <2>1, JobProtocolAssumption DEF Jobs
      <3> QED BY <2>1, <3>1 DEF LifeInv
    <2>4. lifeOfJobs[next] = "waiting"
      BY <2>1, <2>2, <2>3 DEF lifeOfJobs
    <2>5. \A k \in Jobs : k # next => csState'[k] = csState[k] /\ jobWorker'[k] = jobWorker[k]
      BY <1>0, <2>1 DEF TypeOK
    <2>6. csState'[next] = "SCHEDULED" /\ jobWorker'[next] = w
      BY <1>0, <2>1 DEF TypeOK
    <2>7. lifeOfJobs' = [lifeOfJobs EXCEPT ![next] = "handed"]
      BY <2>1, <2>2, <2>5, <2>6 DEF lifeOfJobs
    <2>8. resultOfJobs' = resultOfJobs
      BY <2>2, <2>5, <2>6 DEF resultOfJobs
    <2>9. Life!Give(next, w)
      BY <2>1, <2>3, <2>4, <2>7, <2>8 DEF Life!Give
    <2> QED BY <2>1, <2>9 DEF Life!Next, Life!GiveSome, Life!Jobs, Jobs
  <1>2. ASSUME NEW w \in Workers, ReaderThread(w) PROVE [Life!Next]_(Life!vars)
    <2> DEFINE j == wdJob[w]
    <2>1. UNCHANGED jobWorker /\ (j # NoJob => j \in Jobs /\ j < next)
      BY <1>0, <1>2 DEF ReaderThread, HandleJobFinished, HandleStateChange, HandleJobAccepted,
                        HandleJobRefused, HandleReply, Receive, TypeOK, LifeInv
    <2>2. \/ UNCHANGED csState
          \/ j # NoJob /\ \E s : SetStateAccepts(csState[j], s) /\ SetJobState(Reader(w), j, s, <<>>)
      BY <1>2 DEF ReaderThread, HandleJobFinished, HandleStateChange, HandleJobAccepted, HandleJobRefused,
                  HandleReply, UnchangedJobs
    <2>3. CASE UNCHANGED csState
      BY <2>1, <2>3 DEF lifeOfJobs, resultOfJobs, Life!vars
    <2>4. ASSUME j # NoJob, NEW s, SetStateAccepts(csState[j], s), SetJobState(Reader(w), j, s, <<>>)
          PROVE  [Life!Next]_(Life!vars)
      <3>1. csState' = [csState EXCEPT ![j] = s]
        BY <2>4 DEF SetJobState
      <3> HIDE DEF j
      <3> QED BY <1>0, <2>1, <2>4, <3>1, StateChangeRefines
    <2> QED BY <2>2, <2>3, <2>4
  <1>3. ASSUME NEW j \in Jobs, Cancel(j) PROVE [Life!Next]_(Life!vars)
    <2>0. UNCHANGED jobWorker
      BY <1>3 DEF Cancel
    <2>1. CASE csState[j] = "NEW" \/ jobWorker[j] = NoWorker
      <3>1. SetJobState(GuiThread, j, "CANCELLED", <<>>) /\ ~ IsFinal(csState[j])
        BY <1>3, <2>1 DEF Cancel
      <3>2. csState' = [csState EXCEPT ![j] = "CANCELLED"]
        BY <3>1 DEF SetJobState
      <3>3. IsFinal("CANCELLED")
        BY DEF IsFinal, FinalStates
      <3>4. \A k \in Jobs : csState'[k] = IF k = j THEN "CANCELLED" ELSE csState[k]
        BY <1>0, <3>2 DEF TypeOK
      <3>5. lifeOfJobs' = [lifeOfJobs EXCEPT ![j] = "ended"]
        BY <2>0, <3>3, <3>4 DEF lifeOfJobs
      <3>6. resultOfJobs' = [resultOfJobs EXCEPT ![j] = "CANCELLED"]
        BY <3>3, <3>4 DEF resultOfJobs
      <3>7. lifeOfJobs[j] # "ended"
        BY <3>1 DEF lifeOfJobs
      <3>8. Life!End(j, "CANCELLED")
        BY <2>0, <3>5, <3>6, <3>7 DEF Life!End
      <3> QED BY <3>3, <3>8 DEF Life!Next, Life!Jobs, Jobs, IsFinal, FinalStates, Life!FinalStates
    <2>2. CASE ~ (csState[j] = "NEW" \/ jobWorker[j] = NoWorker)
      <3>1. PICK k \in Jobs : /\ k < next
                              /\ SetStateAccepts(csState[k], "CANCELLING")
                              /\ SetJobState(GuiThread, k, "CANCELLING", <<>>)
        BY <1>0, <1>3, <2>2 DEF Cancel, TypeOK, SetStateAccepts, LifeInv
      <3>2. csState' = [csState EXCEPT ![k] = "CANCELLING"]
        BY <3>1 DEF SetJobState
      <3> QED BY <1>0, <2>0, <3>1, <3>2, StateChangeRefines
    <2> QED BY <2>1, <2>2
  <1>4. ASSUME NEW w \in Workers, Timely, Disconnect(w) PROVE [Life!Next]_(Life!vars)
    <2> DEFINE j == wdJob[w]
    <2>1. CASE j # NoJob /\ IsStateTransitionAllowed(csState[j], "FAILED")
      <3>1. j \in Jobs /\ j < next /\ UNCHANGED jobWorker
        BY <1>0, <1>4, <2>1 DEF Disconnect, TypeOK, LifeInv
      <3>2. csState' = [csState EXCEPT ![j] = "FAILED"] /\ SetStateAccepts(csState[j], "FAILED")
        BY <1>4, <2>1 DEF Disconnect, SetStateAccepts
      <3> HIDE DEF j
      <3> QED BY <1>0, <3>1, <3>2, StateChangeRefines
    <2>2. CASE ~ (j # NoJob /\ IsStateTransitionAllowed(csState[j], "FAILED"))
      <3>1. UNCHANGED <<csState, jobWorker>>
        BY <1>4, <2>2 DEF Disconnect
      <3> QED BY <3>1 DEF lifeOfJobs, resultOfJobs, Life!vars
    <2> QED BY <2>1, <2>2
  <1>5. ASSUME UNCHANGED <<csState, jobWorker>> PROVE [Life!Next]_(Life!vars)
    BY <1>5 DEF lifeOfJobs, resultOfJobs, Life!vars
  <1>6. CASE Check \/ Attach \/ SendJob \/ UNCHANGED vars
    BY <1>5, <1>6 DEF Check, Attach, SendJob, vars, csVars
  <1>7. ASSUME NEW w \in Workers, Communicator(w) \/ Connect(w) PROVE [Life!Next]_(Life!vars)
    BY <1>5, <1>7 DEF Communicator, HandleNewJob, StartThread, ObserveJob, HandleCancelJob, KillThread,
                      StopThread, Take, Connect, csVars
  <1>8. ASSUME NEW j \in Jobs, JobThread(j) \/ Throw(j) PROVE [Life!Next]_(Life!vars)
    BY <1>5, <1>8 DEF JobThread, StartParsing, StartRunning, StartMetrics, Advance, Succeed, Throw, RaiseKill,
                      ClearJob, ClearThread, ReportOutcome, NotifyFinished, ThreadUnchanged, csVars
  <1>9. ASSUME NEW w \in Workers, LoseConnection(w) \/ CrashWorker(w) \/ AttendanceTimeout(w)
        PROVE  [Life!Next]_(Life!vars)
    BY <1>4, <1>5, <1>9, ConnectionEnds
  <1>10. ASSUME NEW t \in ServerThreads, GoesOn(t) PROVE [Life!Next]_(Life!vars)
    <2>1. UNCHANGED jobWorker
      BY <1>10, GoesOnEffect
    <2>2. ASSUME NEW j \in Jobs, NEW w \in Workers, wdJob[w] = j, SetStateAccepts(csState[j], "FAILED"),
                 SetJobState(t, j, "FAILED", Tail(todo[t]))
          PROVE  [Life!Next]_(Life!vars)
      <3>1. j < next /\ csState' = [csState EXCEPT ![j] = "FAILED"]
        BY <2>2 DEF LifeInv, SetJobState
      <3> QED BY <1>0, <2>1, <2>2, <3>1, StateChangeRefines
    <2> QED BY <1>5, <1>10, <2>1, <2>2, GoesOnEffect
  <1> QED
    BY <1>1, <1>2, <1>3, <1>6, <1>7, <1>8, <1>9, <1>10 DEF Next, Main

\* Whatever is interleaved, cancelled or breaks, the control server's records
\* of an experiment's jobs behave as JobLife says: handed out in order, once,
\* to one worker, and ended once.
THEOREM ProtocolImplementsLife == Spec => ImplementsLife
  <1>1. Init => Life!Init
    BY DEF Init, Life!Init, Life!Jobs, Jobs, lifeOfJobs, resultOfJobs, IsFinal, FinalStates
  <1>2. Init => LifeInv
    BY JobProtocolAssumption DEF Init, LifeInv, Jobs, NoJob
  <1>3. TypeInv /\ LifeInv /\ [Next]_vars => LifeInv'
    BY LifeStep
  <1>4. TypeInv /\ LifeInv /\ [Next]_vars => [Life!Next]_(Life!vars)
    BY LifeRefines
  <1> QED BY <1>1, <1>2, <1>3, <1>4, TypeInit, TypeStep, PTL DEF Spec, ImplementsLife, Life!Spec

=============================================================================
