----------------------- MODULE JobProtocolTimelyProofs -----------------------
(***************************************************************************)
(* Proofs about JobProtocol for any number of workers and jobs when the    *)
(* pauses of the server are long enough (Timely), nothing breaks and       *)
(* nobody cancels: the properties of the run Protocol_timely.              *)
(***************************************************************************)
EXTENDS JobProtocolProofs

-----------------------------------------------------------------------------
(* The server's records of a worker agree between its methods.             *)

\* The Scheduler's unemployed workers, the descriptor's state and its job tell
\* the same of every registered worker.
SchedulerKnowsWorkers ==
    \A w \in registered :
        IF w \in unemployed THEN wdState[w] = "unemployed" /\ wdJob[w] = NoJob
                            ELSE wdState[w] = "employed" /\ wdJob[w] # NoJob

\* The strengthening: a worker that is unemployed, registered or not, holds no
\* job; otherwise one that registers again could bring its old job along.
RecordsInv ==
    /\ SchedulerKnowsWorkers
    /\ \A w \in Workers : wdState[w] = "unemployed" => wdJob[w] = NoJob

\* A worker that becomes unemployed keeps the three records in agreement.
LEMMA FreeWorkerRecords ==
  ASSUME TypeOK, Timely, RecordsInv, NEW t, NEW w, NEW rest, FreeWorker(t, w, rest), UNCHANGED registered
  PROVE  RecordsInv'
  <1>1. /\ wdJob' = [wdJob EXCEPT ![w] = NoJob] /\ wdState' = [wdState EXCEPT ![w] = "unemployed"]
        /\ unemployed' = IF wdState[w] # "unemployed" /\ w \in registered
                         THEN unemployed \cup {w} ELSE unemployed
    BY DEF FreeWorker
  <1>2. /\ wdJob \in [Workers -> Jobs \cup {NoJob}] /\ wdState \in [Workers -> WorkerStates]
        /\ registered \subseteq Workers
    BY DEF TypeOK
  <1> QED BY <1>1, <1>2 DEF RecordsInv, SchedulerKnowsWorkers

\* So does one that is given a job.
LEMMA EmployWorkerRecords ==
  ASSUME TypeOK, Timely, RecordsInv, NEW t, NEW w, NEW j \in Jobs, EmployWorker(t, w, j),
         UNCHANGED registered
  PROVE  RecordsInv'
  <1>1. j # NoJob
    BY JobProtocolAssumption DEF Jobs, NoJob
  <1>2. /\ wdJob' = [wdJob EXCEPT ![w] = j] /\ wdState' = [wdState EXCEPT ![w] = "employed"]
        /\ unemployed' = IF wdState[w] # "employed" /\ w \in registered
                         THEN unemployed \ {w} ELSE unemployed
    BY DEF EmployWorker
  <1>3. /\ wdJob \in [Workers -> Jobs \cup {NoJob}] /\ wdState \in [Workers -> WorkerStates]
        /\ registered \subseteq Workers
    BY DEF TypeOK
  <1> QED BY <1>1, <1>2, <1>3 DEF RecordsInv, SchedulerKnowsWorkers

\* A job's change of state frees its worker or leaves the records alone.
LEMMA SetJobStateRecords ==
  ASSUME TypeOK, Timely, RecordsInv, NEW t, NEW j, NEW s, NEW rest, SetJobState(t, j, s, rest),
         UNCHANGED registered
  PROVE  RecordsInv'
  <1>1. FreeWorker(t, jobWorker[j], rest) \/ UNCHANGED <<wdJob, wdState, unemployed>>
    BY DEF SetJobState
  <1>2. CASE FreeWorker(t, jobWorker[j], rest)
    BY <1>2, FreeWorkerRecords
  <1>3. CASE UNCHANGED <<wdJob, wdState, unemployed>>
    BY <1>3 DEF RecordsInv, SchedulerKnowsWorkers
  <1> QED BY <1>1, <1>2, <1>3

\* Every step keeps the records in agreement: one case per action.
LEMMA RecordsStep ==
  ASSUME TypeInv, Timely, RecordsInv, [Next]_vars
  PROVE  RecordsInv'
  <1>0. TypeOK
    BY DEF TypeInv
  <1>1. ASSUME NEW w \in Workers, Schedule(w) PROVE RecordsInv'
    BY <1>0, <1>1, EmployWorkerRecords DEF Schedule
  <1>2. CASE Attach
    <2>1. Scheduled \in Jobs
      BY <1>2, ScheduledType DEF Attach
    <2> QED BY <1>0, <1>2, <2>1, EmployWorkerRecords DEF Attach
  <1>3. ASSUME NEW w \in Workers, ReaderThread(w) PROVE RecordsInv'
    <2>1. UNCHANGED registered
      BY <1>3 DEF ReaderThread, HandleJobFinished, HandleStateChange, HandleJobAccepted, HandleJobRefused,
                  HandleReply, Receive
    <2>2. FreeWorker(Reader(w), w, <<>>) \/ (\E j, s : SetJobState(Reader(w), j, s, <<>>)) \/ UnchangedJobs
      BY <1>3 DEF ReaderThread, HandleJobFinished, HandleStateChange, HandleJobAccepted, HandleJobRefused,
                  HandleReply
    <2>3. CASE UnchangedJobs
      BY <2>1, <2>3 DEF UnchangedJobs, RecordsInv, SchedulerKnowsWorkers
    <2> QED BY <1>0, <2>1, <2>2, <2>3, FreeWorkerRecords, SetJobStateRecords
  <1>4. ASSUME NEW j \in Jobs, Cancel(j) PROVE RecordsInv'
    BY <1>0, <1>4, SetJobStateRecords DEF Cancel
  <1>5. ASSUME NEW w \in Workers, Connect(w) PROVE RecordsInv'
    <2>1. /\ wdState' = [wdState EXCEPT ![w] = "unemployed"]
          /\ wdJob' = IF wdState[w] # "unemployed" THEN [wdJob EXCEPT ![w] = NoJob] ELSE wdJob
          /\ registered' = registered \cup {w} /\ unemployed' = unemployed \cup {w}
      BY <1>5 DEF Connect
    <2>2. /\ wdJob \in [Workers -> Jobs \cup {NoJob}] /\ wdState \in [Workers -> WorkerStates]
          /\ registered \subseteq Workers
      BY <1>0 DEF TypeOK
    <2> QED BY <2>1, <2>2 DEF RecordsInv, SchedulerKnowsWorkers
  <1>6. ASSUME NEW w \in Workers, Disconnect(w) PROVE RecordsInv'
    BY <1>0, <1>6 DEF Disconnect, TypeOK, RecordsInv, SchedulerKnowsWorkers
  <1>7. CASE Check \/ SendJob \/ UNCHANGED vars
    BY <1>7 DEF Check, SendJob, vars, csVars, schedVars, RecordsInv, SchedulerKnowsWorkers
  <1>8. ASSUME NEW w \in Workers, Communicator(w) PROVE RecordsInv'
    BY <1>8 DEF Communicator, HandleNewJob, StartThread, ObserveJob, HandleCancelJob, KillThread,
                StopThread, Take, csVars, schedVars, RecordsInv, SchedulerKnowsWorkers
  <1>9. ASSUME NEW j \in Jobs, JobThread(j) \/ Throw(j) PROVE RecordsInv'
    <2>1. UNCHANGED <<csVars, schedVars>>
      BY <1>9 DEF JobThread, StartParsing, StartRunning, StartMetrics, Advance, Succeed, Throw, RaiseKill,
                  ClearJob, ClearThread, ReportOutcome, NotifyFinished, ThreadUnchanged
    <2> QED BY <2>1 DEF csVars, schedVars, RecordsInv, SchedulerKnowsWorkers
  <1> QED
    BY <1>1, <1>2, <1>3, <1>4, <1>5, <1>6, <1>7, <1>8, <1>9, TimelyNext DEF Main

-----------------------------------------------------------------------------
(* The inductive invariant.                                                *)

\* The state that a message tells the server.
Told(m) == IF m.kind = "JOBACCEPTED" THEN "INITIALIZING" ELSE m.state

\* The state of a job that is in state s when i messages of q have been handled.
After(s, q, i) == IF i = 0 THEN s ELSE Told(q[i])

\* The first n messages of q take a job from state s to state t, by transitions
\* that are all legal.
Leads(s, q, n, t) ==
    /\ n \in 0 .. Len(q)
    /\ \A i \in 1 .. n : /\ q[i].kind \in {"JOBACCEPTED", "STATECHANGE"}
                         /\ Told(q[i]) # "CANCELLING"
                         /\ IsStateTransitionAllowed(After(s, q, i - 1), Told(q[i]))
    /\ After(s, q, n) = t

\* What a job's thread and its state say of each other.
ThreadInv(j) ==
    /\ thread[j] # "died"
    /\ host[j] = NoWorker => thread[j] = "none" /\ wkState[j] = "NEW"
    /\ host[j] # NoWorker => host[j] = jobWorker[j] /\ host[j] \in Workers
    /\ thread[j] = "none" => j \notin wkObserved
    /\ thread[j] \notin {"none", "ready"} => j \in wkObserved
    /\ host[j] # NoWorker /\ thread[j] \in {"none", "ready"} => wkState[j] = "INITIALIZING"
    /\ thread[j] = "parsing" => wkState[j] = "PARSING"
    /\ thread[j] = "running" => wkState[j] = "RUNNING"
    /\ thread[j] = "metrics" => wkState[j] = "CALCULATING_METRICS"
    /\ thread[j] \in {"finally", "clearing", "cleared"} => IsStateTransitionAllowed(wkState[j], outcome[j])
    /\ thread[j] \in {"reported", "done"} => IsFinal(wkState[j])

\* run is about to attach or to send job j.
Chosen(j) == main # "schedule" /\ j = Scheduled

\* Job j has been given to worker w, which has not started it.
Waiting(w, j) ==
    /\ csState[j] = "SCHEDULED" /\ thread[j] = "none" /\ host[j] = NoWorker
    /\ toServer[w] = <<>> /\ actualJob[w] = NoJob /\ comm[w] = "read"
    /\ IF Chosen(j) THEN toWorker[w] = <<>> /\ (main = "send" => j \in observed)
                    ELSE toWorker[w] = <<NewJob(j)>> /\ j \in observed

\* Worker w has taken job j, and what it has told of it and the server has not
\* read yet leads from the server's state of the job to the worker's.
HasStarted(w, j) ==
    /\ host[j] # NoWorker /\ ~ IsFinal(csState[j]) /\ j \in observed
    /\ toWorker[w] = <<>> /\ ~ Chosen(j)
    /\ comm[w] = IF j \in wkObserved THEN "read" ELSE IF thread[j] = "none" THEN "start" ELSE "observe"
    /\ thread[j] = "none" => actualThread[w] = j
    /\ actualJob[w] = IF Executing(j) \/ thread[j] = "none" THEN j ELSE NoJob
    /\ IF thread[j] = "done"
       THEN /\ Leads(csState[j], toServer[w], Len(toServer[w]) - 1, wkState[j])
            /\ toServer[w][Len(toServer[w])].kind = "JOBFINISHED"
       ELSE Leads(csState[j], toServer[w], Len(toServer[w]), wkState[j])

\* A worker to which the server has given a job, and the one it had before.
BusyWorker(w, j) ==
    /\ w \in connected /\ jobWorker[j] = w
    /\ Waiting(w, j) \/ HasStarted(w, j)
    /\ \A k \in Jobs : jobWorker[k] = w /\ k # j => thread[k] = "done"

\* A worker to which the server has given none has nothing more to tell.
IdleWorker(w) ==
    /\ toWorker[w] = <<>> /\ actualJob[w] = NoJob /\ comm[w] = "read"
    /\ \A i \in 1 .. Len(toServer[w]) : toServer[w][i].kind = "JOBFINISHED"

\* A job that no descriptor holds any more has ended, with one result.
Over(j) ==
    /\ thread[j] \in {"reported", "done"}
    /\ csState[j] = wkState[j]

WorkerInv(w) ==
    /\ wdJob[w] = NoJob => IdleWorker(w)
    /\ wdJob[w] # NoJob => BusyWorker(w, wdJob[w])
    /\ \A j \in Jobs : jobWorker[j] = w /\ j # wdJob[w] => Over(j)

\* Nothing breaks and no job is killed.
Untroubled ==
    /\ stopping = {}
    /\ reading = connected /\ linked = connected /\ registered = connected
    /\ unemployed \subseteq connected

TimelyInv ==
    /\ Untroubled
    /\ \A j \in Jobs : ThreadInv(j)
    /\ \A w \in Workers : WorkerInv(w)

-----------------------------------------------------------------------------
(* What messages lead to.                                                  *)

\* The sender of the messages writes one more.
LEMMA LeadsAppend ==
  ASSUME NEW q \in Seq(Message), NEW m \in Message, NEW s, NEW t, Leads(s, q, Len(q), t),
         m.kind \in {"JOBACCEPTED", "STATECHANGE"}, Told(m) # "CANCELLING",
         IsStateTransitionAllowed(t, Told(m))
  PROVE  Leads(s, Append(q, m), Len(Append(q, m)), Told(m))
  <1> DEFINE r == Append(q, m)
             n == Len(q)
  <1>1. n \in Nat /\ Len(r) = n + 1 /\ r[n + 1] = m /\ \A i \in 1 .. n : r[i] = q[i]
    OBVIOUS
  <1>2. \A i \in 0 .. n : After(s, r, i) = After(s, q, i)
    BY <1>1 DEF After
  <1>3. After(s, r, n) = t /\ After(s, r, n + 1) = Told(m)
    BY <1>1, <1>2 DEF After, Leads
  <1>4. ASSUME NEW i \in 1 .. n + 1
        PROVE  /\ r[i].kind \in {"JOBACCEPTED", "STATECHANGE"}
               /\ Told(r[i]) # "CANCELLING"
               /\ IsStateTransitionAllowed(After(s, r, i - 1), Told(r[i]))
    <2>1. CASE i = n + 1
      BY <1>1, <1>3, <2>1
    <2>2. CASE i \in 1 .. n
      <3>1. i - 1 \in 0 .. n
        BY <1>1, <2>2
      <3> QED BY <1>1, <1>2, <2>2, <3>1 DEF Leads
    <2> QED BY <1>1, <2>1, <2>2
  <1> HIDE DEF r, n
  <1>5. Leads(s, r, n + 1, Told(m))
    BY <1>1, <1>3, <1>4 DEF Leads
  <1> QED BY <1>1, <1>5 DEF r

\* What follows the messages changes nothing.
LEMMA LeadsKept ==
  ASSUME NEW q \in Seq(Message), NEW m \in Message, NEW s, NEW t, NEW n, Leads(s, q, n, t)
  PROVE  Leads(s, Append(q, m), n, t)
  <1> DEFINE r == Append(q, m)
  <1>1. n \in 0 .. Len(q) /\ Len(r) = Len(q) + 1 /\ \A i \in 1 .. n : r[i] = q[i]
    BY DEF Leads
  <1>2. \A i \in 0 .. n : After(s, r, i) = After(s, q, i)
    BY <1>1 DEF After
  <1>3. \A i \in 1 .. n : i - 1 \in 0 .. n
    BY <1>1
  <1> HIDE DEF r
  <1>4. Leads(s, r, n, t)
    BY <1>1, <1>2, <1>3 DEF Leads
  <1> QED BY <1>4 DEF r

\* The reader handles the first message.
LEMMA LeadsTail ==
  ASSUME NEW q \in Seq(Message), NEW s, NEW t, NEW n, Leads(s, q, n, t), n # 0
  PROVE  /\ Leads(Told(Head(q)), Tail(q), n - 1, t)
         /\ Head(q).kind \in {"JOBACCEPTED", "STATECHANGE"}
         /\ Told(Head(q)) # "CANCELLING"
         /\ IsStateTransitionAllowed(s, Told(Head(q)))
  <1> DEFINE r == Tail(q)
             u == Told(Head(q))
  <1>1. /\ n \in 1 .. Len(q) /\ n \in Nat /\ q # <<>> /\ Head(q) = q[1]
        /\ Len(r) = Len(q) - 1 /\ \A i \in 1 .. n - 1 : r[i] = q[i + 1]
    BY DEF Leads
  <1>2. \A i \in 0 .. n - 1 : After(u, r, i) = After(s, q, i + 1)
    BY <1>1 DEF After
  <1>3. ASSUME NEW i \in 1 .. n - 1
        PROVE  /\ r[i].kind \in {"JOBACCEPTED", "STATECHANGE"}
               /\ Told(r[i]) # "CANCELLING"
               /\ IsStateTransitionAllowed(After(u, r, i - 1), Told(r[i]))
    <2>1. /\ i + 1 \in 1 .. n /\ r[i] = q[i + 1] /\ (i + 1) - 1 = i
          /\ After(u, r, i - 1) = After(s, q, i)
      BY <1>1, <1>2
    <2> QED BY <2>1 DEF Leads
  <1>4. After(u, r, n - 1) = t
    BY <1>1, <1>2 DEF Leads
  <1>5. After(s, q, 0) = s /\ 1 \in 1 .. n /\ 1 - 1 = 0
    BY <1>1 DEF After
  <1>6. n - 1 \in 0 .. Len(r)
    BY <1>1
  <1>7. /\ q[1].kind \in {"JOBACCEPTED", "STATECHANGE"}
        /\ Told(q[1]) # "CANCELLING"
        /\ IsStateTransitionAllowed(s, Told(q[1]))
    BY <1>5 DEF Leads
  <1> HIDE DEF r, u
  <1>8. Leads(u, r, n - 1, t)
    BY <1>3, <1>4, <1>6 DEF Leads
  <1> QED BY <1>1, <1>7, <1>8 DEF r, u

\* Nothing leads on from a final state.
LEMMA LeadsFromFinal ==
  ASSUME NEW q, NEW s, NEW t, NEW n, Leads(s, q, n, t), IsFinal(s)
  PROVE  n = 0 /\ s = t
  <1>1. CASE n # 0
    <2>1. 1 \in 1 .. n /\ 1 - 1 = 0 /\ After(s, q, 0) = s
      BY <1>1 DEF Leads, After
    <2> QED BY <2>1 DEF Leads, IsStateTransitionAllowed
  <1>2. CASE n = 0
    BY <1>2 DEF Leads, After
  <1> QED BY <1>1, <1>2

-----------------------------------------------------------------------------
(* What a step leaves alone.                                               *)

\* No pause is too short, no job can be cancelled, nothing can break.
Undisturbed == Timely /\ Cancellable = {} /\ MaxFaults = 0

\* What is known of every reachable state whatever is cancelled or breaks.
Known == Timely /\ TypeInv /\ HandInv /\ RecordsInv /\ LifeInv

\* A step that changes nothing of a job's thread.
LEMMA ThreadKept ==
  ASSUME NEW j \in Jobs, ThreadInv(j),
         thread'[j] = thread[j], host'[j] = host[j], wkState'[j] = wkState[j], outcome'[j] = outcome[j],
         host[j] # NoWorker => jobWorker'[j] = jobWorker[j],
         j \in wkObserved' <=> j \in wkObserved
  PROVE  ThreadInv(j)'
  BY DEF ThreadInv

\* A step that changes nothing of a worker, of its jobs and of what the main
\* thread is about to do with them.
LEMMA WorkerKept ==
  ASSUME TypeOK, NEW w \in Workers, WorkerInv(w),
         toWorker'[w] = toWorker[w], toServer'[w] = toServer[w],
         actualJob'[w] = actualJob[w], actualThread'[w] = actualThread[w],
         comm'[w] = comm[w], wdJob'[w] = wdJob[w],
         connected \subseteq connected',
         \A j \in Jobs : jobWorker[j] = w \/ jobWorker'[j] = w =>
             /\ jobWorker'[j] = jobWorker[j] /\ csState'[j] = csState[j]
             /\ wkState'[j] = wkState[j] /\ thread'[j] = thread[j] /\ host'[j] = host[j]
             /\ (j \in observed => j \in observed') /\ (j \in wkObserved' <=> j \in wkObserved),
         UNCHANGED <<main, next>> \/ (~ Chosen(wdJob[w]) /\ ~ Chosen(wdJob[w])')
  PROVE  WorkerInv(w)'
  <1>1. (wdJob[w] = NoJob => IdleWorker(w))'
    BY DEF WorkerInv, IdleWorker
  <1>2. ASSUME NEW k \in Jobs, jobWorker'[k] = w, k # wdJob'[w] PROVE Over(k)'
    <2>1. jobWorker[k] = w /\ k # wdJob[w]
      BY <1>2
    <2> QED BY <2>1 DEF WorkerInv, Over
  <1>3. ASSUME wdJob[w] # NoJob PROVE BusyWorker(w, wdJob[w])'
    <2>0. PICK j \in Jobs : j = wdJob[w]
      BY <1>3 DEF TypeOK
    <2>1. BusyWorker(w, j) /\ jobWorker[j] = w
      BY <1>3, <2>0 DEF WorkerInv, BusyWorker
    <2>2. /\ jobWorker'[j] = w /\ csState'[j] = csState[j]
          /\ wkState'[j] = wkState[j] /\ thread'[j] = thread[j] /\ host'[j] = host[j]
          /\ (j \in observed => j \in observed') /\ (j \in wkObserved' <=> j \in wkObserved)
      BY <2>1
    <2>3. (Chosen(j)' <=> Chosen(j)) /\ (Chosen(j) => main' = main)
      <3>1. CASE UNCHANGED <<main, next>>
        BY <3>1 DEF Chosen, Scheduled
      <3>2. CASE ~ Chosen(wdJob[w]) /\ ~ Chosen(wdJob[w])'
        BY <2>0, <3>2 DEF Chosen
      <3> QED BY <3>1, <3>2
    <2>5. Waiting(w, j) => Waiting(w, j)'
      BY <2>2, <2>3 DEF Waiting
    <2>6. HasStarted(w, j) => HasStarted(w, j)'
      BY <2>2, <2>3 DEF HasStarted, Executing
    <2>7. \A k \in Jobs : jobWorker'[k] = w /\ k # j => thread'[k] = "done"
      BY <2>1 DEF BusyWorker
    <2>8. BusyWorker(w, j)'
      BY <2>1, <2>2, <2>5, <2>6, <2>7 DEF BusyWorker
    <2> QED BY <2>0, <2>8
  <1> QED BY <1>1, <1>2, <1>3 DEF WorkerInv

\* The worker of a job that it has taken and whose thread has not ended.
LEMMA HostIsBusy ==
  ASSUME TypeOK, TimelyInv, NEW j \in Jobs, host[j] # NoWorker, thread[j] \notin {"reported", "done"}
  PROVE  /\ host[j] \in Workers /\ jobWorker[j] = host[j]
         /\ wdJob[host[j]] = j /\ host[j] \in connected
         /\ HasStarted(host[j], j)
         /\ \A k \in Jobs : jobWorker[k] = host[j] /\ k # j => thread[k] = "done"
  <1>1. host[j] \in Workers /\ jobWorker[j] = host[j]
    BY DEF TimelyInv, ThreadInv
  <1>2. WorkerInv(host[j]) /\ ~ Over(j)
    BY <1>1 DEF TimelyInv, Over
  <1>3. wdJob[host[j]] = j
    BY <1>1, <1>2 DEF WorkerInv
  <1>4. BusyWorker(host[j], j)
    BY <1>2, <1>3 DEF WorkerInv, NoJob, Jobs
  <1>5. ~ Waiting(host[j], j)
    BY DEF Waiting
  <1> QED BY <1>1, <1>3, <1>4, <1>5 DEF BusyWorker

\* The worker of the job the main thread is about to attach or to send.
LEMMA ChosenIsWaiting ==
  ASSUME Known, TimelyInv, main # "schedule"
  PROVE  /\ Scheduled \in Jobs /\ Scheduled < next
         /\ jobWorker[Scheduled] \in connected /\ jobWorker[Scheduled] \in Workers
         /\ wdJob[jobWorker[Scheduled]] = Scheduled
         /\ Waiting(jobWorker[Scheduled], Scheduled)
         /\ \A v \in Workers : v # jobWorker[Scheduled] => ~ Chosen(wdJob[v])
  <1> DEFINE u == jobWorker[Scheduled]
  <1>0. TypeOK
    BY DEF Known, TypeInv
  <1>1. Scheduled \in Jobs /\ Scheduled < next
    BY ScheduledType DEF Known
  <1>2. u \in Workers
    BY ScheduledType DEF Known
  <1>3. thread[Scheduled] = "none" /\ host[Scheduled] = NoWorker
    BY DEF Known, HandInv, ScheduledIsUnsent, Begun
  <1>4. WorkerInv(u) /\ ~ Over(Scheduled)
    BY <1>2, <1>3 DEF TimelyInv, Over
  <1>5. wdJob[u] = Scheduled
    BY <1>1, <1>4 DEF WorkerInv
  <1>6. BusyWorker(u, Scheduled)
    BY <1>1, <1>4, <1>5 DEF WorkerInv, NoJob, Jobs
  <1>7. ~ HasStarted(u, Scheduled)
    BY <1>3 DEF HasStarted
  <1>8. ASSUME NEW v \in Workers, v # u PROVE ~ Chosen(wdJob[v])
    <2>1. WorkerInv(v)
      BY DEF TimelyInv
    <2>2. wdJob[v] # NoJob => jobWorker[wdJob[v]] = v
      BY <2>1 DEF WorkerInv, BusyWorker
    <2> QED BY <1>1, <1>8, <2>2 DEF Chosen, NoJob, Jobs
  <1> QED BY <1>1, <1>2, <1>5, <1>6, <1>7, <1>8 DEF BusyWorker

\* The first message a worker has written is about the job its descriptor holds,
\* unless it says that the worker has finished one that has ended.
LEMMA FirstMessage ==
  ASSUME TypeOK, TimelyInv, NEW w \in Workers, toServer[w] # <<>>
  PROVE  \/ wdJob[w] = NoJob /\ Head(toServer[w]).kind = "JOBFINISHED"
         \/ /\ wdJob[w] \in Jobs /\ HasStarted(w, wdJob[w]) /\ BusyWorker(w, wdJob[w])
            /\ Head(toServer[w]).kind \in {"JOBACCEPTED", "STATECHANGE"}
            /\ Told(Head(toServer[w])) # "CANCELLING"
            /\ IsStateTransitionAllowed(csState[wdJob[w]], Told(Head(toServer[w])))
  <1> DEFINE j == wdJob[w]
             q == toServer[w]
  <1>0. q \in Seq(Message) /\ WorkerInv(w)
    BY DEF TypeOK, TimelyInv
  <1>1. CASE j = NoJob
    <2>1. 1 \in 1 .. Len(q) /\ Head(q) = q[1]
      BY <1>0
    <2> QED BY <1>0, <1>1, <2>1 DEF WorkerInv, IdleWorker
  <1>2. CASE j # NoJob
    <2>1. j \in Jobs /\ BusyWorker(w, j)
      BY <1>0, <1>2 DEF TypeOK, WorkerInv
    <2>2. HasStarted(w, j)
      BY <2>1 DEF BusyWorker, Waiting
    <2> DEFINE n == IF thread[j] = "done" THEN Len(q) - 1 ELSE Len(q)
    <2>3. Leads(csState[j], q, n, wkState[j])
      BY <2>2 DEF HasStarted
    <2>4. n # 0
      <3>1. CASE thread[j] = "done"
        <4>1. IsFinal(wkState[j]) /\ ~ IsFinal(csState[j])
          BY <2>1, <2>2, <3>1 DEF TimelyInv, ThreadInv, HasStarted
        <4> QED BY <2>3, <4>1 DEF Leads, After
      <3>2. CASE thread[j] # "done"
        BY <1>0, <3>2
      <3> QED BY <3>1, <3>2
    <2> HIDE DEF n, q, j
    <2>5. /\ Head(q).kind \in {"JOBACCEPTED", "STATECHANGE"}
          /\ Told(Head(q)) # "CANCELLING"
          /\ IsStateTransitionAllowed(csState[j], Told(Head(q)))
      BY <1>0, <2>3, <2>4, LeadsTail
    <2> QED BY <2>1, <2>2, <2>5 DEF q, j
  <1> QED BY <1>1, <1>2

-----------------------------------------------------------------------------
(* The steps of the control server.                                        *)

\* The next job is given to an idle worker, whose last job is done.
LEMMA TimelySchedule ==
  ASSUME Undisturbed, Known, TimelyInv, NEW w \in Workers, Schedule(w)
  PROVE  TimelyInv'
  <1>0. TypeOK /\ Quiet /\ Untroubled /\ Timely
    BY DEF Known, TypeInv, Schedule, TimelyInv
  <1>1. /\ main = "schedule" /\ main' = "check" /\ w \in unemployed
        /\ next \in Jobs /\ next \in Nat /\ next # NoJob /\ next' = next + 1 /\ Scheduled' = next
        /\ csState' = [csState EXCEPT ![next] = "SCHEDULED"]
        /\ jobWorker' = [jobWorker EXCEPT ![next] = w]
        /\ EmployWorker(MainThread, w, next)
        /\ UNCHANGED <<observed, registered, linkVars, chanVars, workerVars>>
    BY <1>0, JobProtocolAssumption DEF Schedule, TypeOK, Jobs, NoJob, Scheduled
  <1>2. /\ wdJob' = [wdJob EXCEPT ![w] = next]
        /\ unemployed' \subseteq unemployed
    BY <1>0, <1>1 DEF EmployWorker
  <1>3. w \in connected /\ wdJob[w] = NoJob
    BY <1>0, <1>1 DEF Untroubled, Known, RecordsInv, SchedulerKnowsWorkers
  <1>4. thread[next] = "none" /\ host[next] = NoWorker /\ jobWorker[next] = NoWorker
    <2>1. next >= next /\ ~ (next < next)
      BY <1>1
    <2> QED BY <1>1, <2>1 DEF Known, HandInv, UnchosenIsNotBegun, Begun, LifeInv
  <1>5. \A v \in Workers : wdJob[v] # next
    <2>1. ~ (next < next)
      BY <1>1
    <2> QED BY <1>1, <2>1 DEF Known, LifeInv
  <1>6. ASSUME NEW j \in Jobs PROVE ThreadInv(j)'
    <2>1. host[j] # NoWorker => jobWorker'[j] = jobWorker[j]
      BY <1>0, <1>1, <1>4 DEF TypeOK
    <2>2. ThreadInv(j)
      BY DEF TimelyInv
    <2> QED BY <1>1, <2>1, <2>2, ThreadKept DEF workerVars, threadVars
  <1>7. ASSUME NEW v \in Workers, v # w PROVE WorkerInv(v)'
    <2>1. \A j \in Jobs : jobWorker[j] = v \/ jobWorker'[j] = v => j # next
      BY <1>0, <1>1, <1>4, <1>7, JobProtocolAssumption DEF TypeOK
    <2>2. \A j \in Jobs : j # next => jobWorker'[j] = jobWorker[j] /\ csState'[j] = csState[j]
      BY <1>0, <1>1 DEF TypeOK
    <2>3. wdJob'[v] = wdJob[v]
      BY <1>0, <1>2, <1>7 DEF TypeOK
    <2>4. ~ Chosen(wdJob[v]) /\ ~ Chosen(wdJob[v])'
      BY <1>1, <1>5, <2>3 DEF Chosen
    <2>5. WorkerInv(v)
      BY DEF TimelyInv
    <2>6. UNCHANGED <<toWorker, toServer, actualJob, actualThread, comm, connected, wkState, thread, host,
                     observed, wkObserved>>
      BY <1>1 DEF chanVars, workerVars, threadVars, linkVars
    <2> QED BY <1>0, <2>1, <2>2, <2>3, <2>4, <2>5, <2>6, WorkerKept
  <1>8. WorkerInv(w)'
    <2>1. WorkerInv(w) /\ IdleWorker(w)
      BY <1>3 DEF TimelyInv, WorkerInv
    <2> PICK j \in Jobs : j = next
      BY <1>1
    <2>2. wdJob'[w] = j /\ jobWorker'[j] = w /\ csState'[j] = "SCHEDULED" /\ w \in connected'
      BY <1>0, <1>1, <1>2, <1>3 DEF TypeOK, linkVars
    <2>3. Waiting(w, j)'
      BY <1>0, <1>1, <1>4, <2>1, <2>2
      DEF Waiting, Chosen, IdleWorker, Quiet, chanVars, workerVars, threadVars
    <2>4. ASSUME NEW k \in Jobs, jobWorker'[k] = w, k # j PROVE thread[k] = "done" /\ Over(k)'
      <3>1. jobWorker[k] = w /\ csState'[k] = csState[k] /\ k # wdJob[w]
        BY <1>0, <1>1, <1>3, <2>4 DEF TypeOK, Jobs, NoJob
      <3>2. Over(k)
        BY <2>1, <3>1 DEF WorkerInv
      <3> QED BY <1>0, <1>1, <3>1, <3>2 DEF Over, Quiet, FinallyPhases, workerVars, threadVars
    <2>5. BusyWorker(w, j)'
      BY <1>1, <2>2, <2>3, <2>4 DEF BusyWorker, workerVars, threadVars
    <2> QED BY <1>1, <2>2, <2>4, <2>5 DEF WorkerInv
  <1>9. Untroubled'
    BY <1>0, <1>1, <1>2 DEF Untroubled, linkVars, workerVars, threadVars
  <1> QED BY <1>6, <1>7, <1>8, <1>9 DEF TimelyInv

\* run attaches and sends the job it has been given.
LEMMA TimelyMain ==
  ASSUME Known, TimelyInv, Check \/ Attach \/ SendJob
  PROVE  TimelyInv'
  <1>0. TypeOK /\ Untroubled /\ Timely
    BY DEF Known, TypeInv, TimelyInv
  <1>1. PICK j \in Jobs : j = Scheduled
    BY ChosenIsWaiting DEF Check, Attach, SendJob
  <1>2. PICK u \in Workers : u = jobWorker[j]
    BY <1>1, ChosenIsWaiting DEF Check, Attach, SendJob
  <1>3. /\ u \in connected /\ wdJob[u] = j /\ Waiting(u, j) /\ main # "schedule" /\ j # NoJob
        /\ \A v \in Workers : v # u => ~ Chosen(wdJob[v])
    BY <1>1, <1>2, ChosenIsWaiting DEF Check, Attach, SendJob, Jobs, NoJob
  <1>4. /\ UNCHANGED <<csState, jobWorker, registered, next, linkVars, toServer, workerVars>>
        /\ wdJob' = [wdJob EXCEPT ![u] = j] \/ UNCHANGED wdJob
        /\ unemployed' \subseteq unemployed
        /\ observed \subseteq observed'
        /\ Scheduled' = Scheduled
        /\ \A v \in Workers : v # u => toWorker'[v] = toWorker[v]
        /\ Check \/ SendJob => UNCHANGED observed
    BY <1>0, <1>1, <1>2 DEF Check, Attach, SendJob, EmployWorker, csVars, chanVars, Scheduled, TypeOK
  <1>5. \A v \in Workers : wdJob'[v] = wdJob[v]
    BY <1>0, <1>3, <1>4 DEF TypeOK
  <1>6. ASSUME NEW k \in Jobs PROVE ThreadInv(k)'
    BY <1>4, ThreadKept DEF TimelyInv, workerVars, threadVars
  <1>7. ASSUME NEW v \in Workers, v # u PROVE WorkerInv(v)'
    <2>1. ~ Chosen(wdJob[v]) /\ ~ Chosen(wdJob[v])'
      BY <1>3, <1>4, <1>5, <1>7 DEF Chosen
    <2>2. WorkerInv(v)
      BY DEF TimelyInv
    <2>3. UNCHANGED <<csState, jobWorker, toServer, actualJob, actualThread, comm, connected, wkState, thread,
                     host, wkObserved>>
      BY <1>4 DEF workerVars, threadVars, linkVars
    <2> QED BY <1>0, <1>4, <1>5, <1>7, <2>1, <2>2, <2>3, WorkerKept
  <1>8. WorkerInv(u)'
    <2>0. WorkerInv(u) /\ BusyWorker(u, j)
      BY <1>3 DEF TimelyInv, WorkerInv
    <2>1. /\ UNCHANGED <<csState, jobWorker, toServer, actualJob, comm, connected, wkState, thread, host>>
          /\ csState[j] = "SCHEDULED" /\ toWorker[u] = <<>> /\ Chosen(j)
      BY <1>1, <1>3, <1>4 DEF workerVars, threadVars, linkVars, Waiting, Chosen
    <2>2. Waiting(u, j)'
      <3>1. CASE Check
        <4>1. main' = "attach" /\ UNCHANGED <<toWorker, observed>>
          BY <1>1, <2>1, <3>1 DEF Check, IsFinal, FinalStates, csVars, chanVars
        <4> QED BY <1>1, <1>3, <1>4, <2>1, <4>1 DEF Waiting, Chosen
      <3>2. CASE Attach
        <4>1. main' = "send" /\ UNCHANGED toWorker /\ j \in observed'
          BY <1>1, <3>2 DEF Attach, chanVars
        <4> QED BY <1>1, <1>3, <1>4, <2>1, <4>1 DEF Waiting, Chosen
      <3>3. CASE SendJob
        <4>1. main' = "schedule" /\ j \in observed' /\ toWorker'[u] = <<NewJob(j)>>
          BY <1>0, <1>1, <1>2, <1>3, <2>1, <3>3 DEF SendJob, Waiting, csVars, TypeOK, Untroubled
        <4> QED BY <1>1, <1>3, <1>4, <2>1, <4>1 DEF Waiting, Chosen
      <3> QED BY <3>1, <3>2, <3>3
    <2>3. BusyWorker(u, j)'
      BY <2>0, <2>1, <2>2 DEF BusyWorker
    <2>4. wdJob'[u] = j
      BY <1>3, <1>5
    <2>5. \A k \in Jobs : jobWorker'[k] = u /\ k # j => Over(k)'
      BY <1>3, <2>0, <2>1 DEF WorkerInv, Over
    <2> QED BY <1>3, <2>3, <2>4, <2>5 DEF WorkerInv
  <1>9. Untroubled'
    BY <1>0, <1>4 DEF Untroubled, linkVars, workerVars, threadVars
  <1> QED BY <1>6, <1>7, <1>8, <1>9 DEF TimelyInv

\* A reader handles a message that tells a state.
LEMMA TimelyTold ==
  ASSUME Known, TimelyInv, NEW w \in Workers, toServer[w] # <<>>, wdJob[w] # NoJob,
         SetJobState(Reader(w), wdJob[w], Told(Head(toServer[w])), <<>>),
         toServer' = [toServer EXCEPT ![w] = Tail(@)],
         UNCHANGED <<jobWorker, registered, next, main, connected, linked, reading, workerVars>>
  PROVE  TimelyInv'
  <1>0. TypeOK /\ Untroubled /\ Timely
    BY DEF Known, TypeInv, TimelyInv
  <1>1. PICK j \in Jobs : j = wdJob[w]
    BY <1>0 DEF TypeOK
  <1>2. PICK q \in Seq(Message) : q = toServer[w]
    BY <1>0 DEF TypeOK
  <1>3. PICK s : s = Told(Head(q))
    OBVIOUS
  <1>4. /\ HasStarted(w, j) /\ BusyWorker(w, j) /\ jobWorker[j] = w /\ j # NoJob
        /\ s # "CANCELLING"
        /\ IsStateTransitionAllowed(csState[j], s)
    BY <1>0, <1>1, <1>2, <1>3, FirstMessage DEF BusyWorker
  <1>5. ~ IsFinal(csState[j]) /\ j \in observed
    BY <1>4 DEF HasStarted
  <1>6. /\ csState' = [csState EXCEPT ![j] = s]
        /\ toWorker' = toWorker
        /\ IF IsFinal(s) THEN FreeWorker(Reader(w), w, <<>>) /\ observed' = observed \ {j}
                         ELSE UNCHANGED <<wdJob, wdState, unemployed, observed>>
    BY <1>1, <1>2, <1>3, <1>4, <1>5 DEF SetJobState
  <1>7. ASSUME NEW k \in Jobs PROVE ThreadInv(k)'
    BY ThreadKept DEF TimelyInv, workerVars, threadVars
  <1>8. ASSUME NEW v \in Workers, v # w PROVE WorkerInv(v)'
    <2>1. /\ wdJob'[v] = wdJob[v] /\ toServer'[v] = toServer[v]
      BY <1>0, <1>6, <1>8 DEF FreeWorker, TypeOK
    <2>2. \A k \in Jobs : k # j => csState'[k] = csState[k] /\ (k \in observed => k \in observed')
      BY <1>0, <1>6 DEF TypeOK
    <2>3. \A k \in Jobs : jobWorker[k] = v => k # j
      BY <1>4, <1>8
    <2>4. WorkerInv(v)
      BY DEF TimelyInv
    <2> QED BY <1>0, <1>6, <2>1, <2>2, <2>3, <2>4, WorkerKept DEF workerVars, threadVars
  <1>n. PICK n : n = IF thread[j] = "done" THEN Len(q) - 1 ELSE Len(q)
    OBVIOUS
  <1>9. Leads(csState[j], q, n, wkState[j]) /\ (thread[j] = "done" => q[Len(q)].kind = "JOBFINISHED")
    BY <1>2, <1>4, <1>n DEF HasStarted
  <1>10. n # 0
    <2>1. thread[j] = "done" => IsFinal(wkState[j])
      BY DEF TimelyInv, ThreadInv
    <2>2. n = 0 => csState[j] = wkState[j]
      BY <1>9 DEF Leads, After
    <2>3. Len(q) # 0
      BY <1>2
    <2> QED BY <1>5, <1>n, <2>1, <2>2, <2>3
  <1>11. /\ Leads(s, Tail(q), n - 1, wkState[j])
         /\ n \in Nat /\ n <= Len(q)
         /\ Len(Tail(q)) = Len(q) - 1 /\ Len(q) \in Nat
         /\ \A i \in 1 .. Len(Tail(q)) : Tail(q)[i] = q[i + 1]
    <2>1. n \in 0 .. Len(q) /\ q # <<>>
      BY <1>2, <1>9 DEF Leads
    <2>2. Leads(s, Tail(q), n - 1, wkState[j])
      BY <1>3, <1>9, <1>10, LeadsTail
    <2> QED BY <2>1, <2>2
  <1>12. toServer'[w] = Tail(q)
    BY <1>0, <1>2 DEF TypeOK
  <1>13. \A k \in Jobs : jobWorker[k] = w /\ k # j => thread[k] = "done" /\ Over(k)
    BY <1>1, <1>4 DEF BusyWorker, TimelyInv, WorkerInv
  <1>14. \A k \in Jobs : jobWorker'[k] = w /\ k # j => Over(k)'
    <2>1. \A k \in Jobs : k # j => csState'[k] = csState[k]
      BY <1>0, <1>6 DEF TypeOK
    <2> QED BY <1>13, <2>1 DEF Over, workerVars, threadVars
  <1>15. csState'[j] = s
    BY <1>0, <1>6 DEF TypeOK
  <1>16. WorkerInv(w)'
    <2>1. CASE IsFinal(s)
      <3>1. wdJob'[w] = NoJob
        BY <1>0, <1>6, <2>1 DEF FreeWorker, TypeOK
      <3>2. n = 1 /\ wkState[j] = s
        BY <1>11, <2>1, LeadsFromFinal
      <3>3. thread[j] \in {"reported", "done"}
        <4>1. ThreadInv(j) /\ thread[j] \in Phases /\ host[j] # NoWorker
          BY <1>0, <1>4 DEF TypeOK, TimelyInv, HasStarted
        <4> QED BY <2>1, <3>2, <4>1
                DEF ThreadInv, Phases, TryPhases, FinallyPhases, IsFinal, FinalStates, IsStateTransitionAllowed
      <3>4. \A i \in 1 .. Len(Tail(q)) : Tail(q)[i].kind = "JOBFINISHED"
        <4>1. CASE thread[j] = "done"
          <5>1. Len(q) = 2 /\ Len(Tail(q)) = 1 /\ \A i \in 1 .. 1 : i + 1 = 2
            BY <1>n, <1>11, <3>2, <4>1
          <5> QED BY <1>9, <1>11, <4>1, <5>1
        <4>2. CASE thread[j] # "done"
          <5>1. Len(Tail(q)) = 0
            BY <1>n, <1>11, <3>2, <4>2
          <5>2. 1 .. 0 = {}
            OBVIOUS
          <5> QED BY <5>1, <5>2
        <4> QED BY <4>1, <4>2
      <3>5. toWorker[w] = <<>> /\ actualJob[w] = NoJob /\ comm[w] = "read"
        <4>1. j \in wkObserved
          BY <3>3 DEF TimelyInv, ThreadInv
        <4>2. ~ Executing(j) /\ thread[j] # "none"
          BY <3>3 DEF Executing, TryPhases
        <4> QED BY <1>4, <4>1, <4>2 DEF HasStarted
      <3>6. IdleWorker(w)'
        BY <1>6, <1>12, <3>4, <3>5 DEF IdleWorker, workerVars, threadVars
      <3>7. Over(j)'
        BY <1>15, <3>2, <3>3 DEF Over, workerVars, threadVars
      <3> QED BY <1>14, <3>1, <3>6, <3>7 DEF WorkerInv
    <2>2. CASE ~ IsFinal(s)
      <3>1. UNCHANGED <<wdJob, observed>>
        BY <1>6, <2>2
      <3> DEFINE r == Tail(q)
      <3>2. /\ thread[j] = "done" => n - 1 = Len(r) - 1 /\ r[Len(r)].kind = "JOBFINISHED"
            /\ thread[j] # "done" => n - 1 = Len(r)
        <4>1. CASE thread[j] = "done"
          <5>1. n = Len(q) - 1 /\ Len(r) = n
            BY <1>n, <1>11, <4>1
          <5>2. n \in 1 .. n /\ n + 1 = Len(q)
            BY <1>10, <1>11, <5>1
          <5>3. r[n] = q[Len(q)]
            BY <1>11, <5>1, <5>2
          <5> QED BY <1>9, <4>1, <5>1, <5>3
        <4>2. CASE thread[j] # "done"
          BY <1>n, <1>11, <4>2
        <4> QED BY <4>1, <4>2
      <3>3. IF thread[j] = "done" THEN Leads(s, r, Len(r) - 1, wkState[j]) /\ r[Len(r)].kind = "JOBFINISHED"
                                  ELSE Leads(s, r, Len(r), wkState[j])
        BY <1>11, <3>2
      <3> HIDE DEF r
      <3>4. toServer'[w] = r
        BY <1>12 DEF r
      <3>5. HasStarted(w, j)'
        BY <1>4, <1>6, <1>15, <2>2, <3>1, <3>3, <3>4
        DEF HasStarted, Chosen, Scheduled, Executing, workerVars, threadVars
      <3>6. BusyWorker(w, j)'
        BY <1>4, <3>5 DEF BusyWorker, workerVars, threadVars
      <3> QED BY <1>1, <1>4, <1>14, <3>1, <3>6 DEF WorkerInv
    <2> QED BY <2>1, <2>2
  <1>17. Untroubled'
    <2>1. unemployed' \subseteq unemployed \cup {w}
      BY <1>0, <1>6 DEF FreeWorker
    <2> QED BY <1>0, <1>4, <2>1 DEF Untroubled, BusyWorker, workerVars, threadVars
  <1> QED BY <1>7, <1>8, <1>16, <1>17 DEF TimelyInv

\* A reader handles a message.
LEMMA TimelyReader ==
  ASSUME Known, TimelyInv, NEW w \in Workers, ReaderThread(w)
  PROVE  TimelyInv'
  <1>0. TypeOK /\ Untroubled /\ Timely
    BY DEF Known, TypeInv, TimelyInv
  <1>1. /\ toServer[w] # <<>> /\ w \in connected
        /\ toServer' = [toServer EXCEPT ![w] = Tail(@)]
        /\ UNCHANGED <<jobWorker, registered, next, main, connected, linked, workerVars>>
    BY <1>0 DEF ReaderThread, HandleJobFinished, HandleStateChange, HandleJobAccepted, HandleJobRefused,
           HandleReply, Receive, Untroubled
  <1>2. CASE wdJob[w] = NoJob
    <2>1. HandleJobFinished(w)
      <3>1. Head(toServer[w]).kind = "JOBFINISHED"
        BY <1>0, <1>1, <1>2, FirstMessage DEF Jobs, NoJob
      <3> QED BY <3>1 DEF ReaderThread, HandleStateChange, HandleJobAccepted, HandleJobRefused, HandleReply, Receive
    <2>2. /\ FreeWorker(Reader(w), w, <<>>) /\ UNCHANGED <<csState, reading, toWorker>>
          /\ observed' = observed
      BY <1>0, <1>2, <2>1 DEF HandleJobFinished, TypeOK, Jobs, NoJob
    <2>3. \A v \in Workers : wdJob'[v] = wdJob[v]
      BY <1>0, <1>2, <2>2 DEF FreeWorker, TypeOK
    <2>4. ASSUME NEW k \in Jobs PROVE ThreadInv(k)'
      BY <1>1, ThreadKept DEF TimelyInv, workerVars, threadVars
    <2>5. ASSUME NEW v \in Workers, v # w PROVE WorkerInv(v)'
      <3>1. WorkerInv(v) /\ toServer'[v] = toServer[v]
        BY <1>0, <1>1, <2>5 DEF TypeOK, TimelyInv
      <3> QED BY <1>0, <1>1, <2>2, <2>3, <3>1, WorkerKept DEF workerVars, threadVars
    <2>6. WorkerInv(w)'
      <3>1. WorkerInv(w) /\ IdleWorker(w)
        BY <1>2 DEF TimelyInv, WorkerInv
      <3>2. \A i \in 1 .. Len(Tail(toServer[w])) : Tail(toServer[w])[i].kind = "JOBFINISHED"
        <4>1. toServer[w] \in Seq(Message)
          BY <1>0 DEF TypeOK
        <4>2. ASSUME NEW i \in 1 .. Len(Tail(toServer[w]))
              PROVE  i + 1 \in 1 .. Len(toServer[w]) /\ Tail(toServer[w])[i] = toServer[w][i + 1]
          BY <1>1, <4>1
        <4> QED BY <3>1, <4>2 DEF IdleWorker
      <3>3. toServer'[w] = Tail(toServer[w])
        BY <1>0, <1>1 DEF TypeOK
      <3>4. IdleWorker(w)'
        BY <1>1, <2>2, <3>1, <3>2, <3>3 DEF IdleWorker, workerVars, threadVars
      <3>5. \A k \in Jobs : jobWorker'[k] = w /\ k # wdJob'[w] => Over(k)'
        BY <1>1, <2>2, <2>3, <3>1 DEF WorkerInv, Over, workerVars, threadVars
      <3> QED BY <1>2, <2>3, <3>4, <3>5 DEF WorkerInv
    <2>7. Untroubled'
      <3>1. unemployed' \subseteq unemployed \cup {w}
        BY <1>0, <2>2 DEF FreeWorker
      <3> QED BY <1>0, <1>1, <2>2, <3>1 DEF Untroubled, workerVars, threadVars
    <2> QED BY <2>4, <2>5, <2>6, <2>7 DEF TimelyInv
  <1>3. CASE wdJob[w] # NoJob
    <2> DEFINE m == Head(toServer[w])
    <2>1. /\ m.kind \in {"JOBACCEPTED", "STATECHANGE"}
          /\ IsStateTransitionAllowed(csState[wdJob[w]], Told(m))
      BY <1>0, <1>1, <1>3, FirstMessage
    <2>2. HandleStateChange(w) \/ HandleJobAccepted(w)
      BY <2>1 DEF ReaderThread, HandleJobFinished, HandleJobRefused, HandleReply, Receive
    <2>3. SetStateAccepts(csState[wdJob[w]], Told(m))
      BY <2>1 DEF SetStateAccepts
    <2>4. SetJobState(Reader(w), wdJob[w], Told(m), <<>>) /\ UNCHANGED reading
      <3>1. CASE HandleStateChange(w)
        <4>1. Told(m) = m.state
          BY <3>1 DEF Told, HandleStateChange, Receive
        <4> HIDE DEF m
        <4> QED BY <1>3, <2>3, <3>1, <4>1 DEF HandleStateChange, m
      <3>2. CASE HandleJobAccepted(w)
        <4>1. Told(m) = "INITIALIZING"
          BY <3>2 DEF Told, HandleJobAccepted, HandleReply, Receive
        <4> HIDE DEF m
        <4> QED BY <1>3, <2>3, <3>2, <4>1 DEF HandleJobAccepted, HandleReply
      <3> QED BY <2>2, <3>1, <3>2
    <2> QED BY <1>1, <1>3, <2>4, TimelyTold
  <1> QED BY <1>2, <1>3

\* A worker connects for the first time.
LEMMA TimelyConnect ==
  ASSUME Known, TimelyInv, NEW w \in Workers, Connect(w)
  PROVE  TimelyInv'
  <1>0. TypeOK /\ Untroubled /\ Timely
    BY DEF Known, TypeInv, TimelyInv
  <1>1. wdJob[w] = NoJob
    <2>1. WorkerInv(w) /\ w \notin connected
      BY DEF TimelyInv, Untroubled, Connect
    <2> QED BY <2>1 DEF WorkerInv, BusyWorker
  <1>2. /\ connected' = connected \cup {w} /\ linked' = linked \cup {w}
        /\ reading' = reading \cup {w}
        /\ registered' = registered \cup {w} /\ unemployed' = unemployed \cup {w}
        /\ UNCHANGED <<csState, observed, jobWorker, next, main, chanVars, workerVars>>
    BY <1>0 DEF Connect
  <1>3. \A v \in Workers : wdJob'[v] = wdJob[v]
    BY <1>0, <1>1 DEF Connect, TypeOK
  <1>4. ASSUME NEW k \in Jobs PROVE ThreadInv(k)'
    BY <1>2, ThreadKept DEF TimelyInv, workerVars, threadVars
  <1>5. ASSUME NEW v \in Workers PROVE WorkerInv(v)'
    BY <1>0, <1>2, <1>3, WorkerKept DEF TimelyInv, chanVars, workerVars, threadVars
  <1>6. Untroubled'
    BY <1>0, <1>2 DEF Untroubled, workerVars, threadVars
  <1> QED BY <1>4, <1>5, <1>6 DEF TimelyInv

-----------------------------------------------------------------------------
(* The steps of the workers.                                               *)

\* A worker starts the job that has been sent to it.
LEMMA TimelyNewJob ==
  ASSUME Known, TimelyInv, NEW w \in Workers, Take(w, "NEWJOB"), HandleNewJob(w)
  PROVE  TimelyInv'
  <1>0. TypeOK /\ Untroubled /\ WorkerInv(w) /\ toWorker[w] # <<>>
    BY DEF Known, TypeInv, TimelyInv, Take
  <1>1. PICK j \in Jobs : j = wdJob[w]
    BY <1>0 DEF TypeOK, WorkerInv, IdleWorker
  <1>2. /\ j # NoJob /\ BusyWorker(w, j) /\ jobWorker[j] = w /\ w \in connected
    BY <1>0, <1>1 DEF WorkerInv, BusyWorker, Jobs, NoJob
  <1>3. /\ Waiting(w, j) /\ ~ Chosen(j)
        /\ toWorker[w] = <<NewJob(j)>>
    BY <1>0, <1>2 DEF BusyWorker, HasStarted, Waiting
  <1>4. Head(toWorker[w]).job = j /\ Tail(toWorker[w]) = <<>>
    BY <1>3 DEF NewJob
  <1>5. /\ actualJob' = [actualJob EXCEPT ![w] = j]
        /\ host' = [host EXCEPT ![j] = w]
        /\ wkState' = [wkState EXCEPT ![j] = "INITIALIZING"]
        /\ actualThread' = [actualThread EXCEPT ![w] = j]
        /\ comm' = [comm EXCEPT ![w] = "start"]
        /\ toWorker' = [toWorker EXCEPT ![w] = <<>>]
        /\ toServer' = [toServer EXCEPT ![w] = <<Msg("JOBACCEPTED")>>]
        /\ UNCHANGED <<csVars, schedVars, linkVars, wkObserved, thread, outcome, stopping>>
    <2>1. actualJob[w] = NoJob /\ toServer[w] = <<>>
      BY <1>3 DEF Waiting
    <2>2. Send(w, Msg("JOBACCEPTED"))
      BY <1>4, <2>1 DEF HandleNewJob
    <2>3. Append(<<>>, Msg("JOBACCEPTED")) = <<Msg("JOBACCEPTED")>>
      OBVIOUS
    <2>4. toServer' = [toServer EXCEPT ![w] = <<Msg("JOBACCEPTED")>>]
      BY <1>0, <1>2, <2>1, <2>2, <2>3 DEF Send, Untroubled
    <2>5. toWorker' = [toWorker EXCEPT ![w] = <<>>]
      BY <1>4 DEF Take
    <2> QED BY <1>4, <2>1, <2>4, <2>5 DEF HandleNewJob, Take
  <1>6. \A k \in Jobs : k # j => host'[k] = host[k] /\ wkState'[k] = wkState[k]
    BY <1>0, <1>5 DEF TypeOK
  <1>7. thread'[j] = "none" /\ host'[j] = w /\ wkState'[j] = "INITIALIZING" /\ w # NoWorker
    BY <1>0, <1>3, <1>5, JobProtocolAssumption DEF TypeOK, Waiting
  <1>8. j \notin wkObserved
    BY <1>3 DEF Waiting, TimelyInv, ThreadInv
  <1>9. ASSUME NEW k \in Jobs PROVE ThreadInv(k)'
    <2>1. CASE k = j
      BY <1>2, <1>5, <1>7, <1>8, <2>1 DEF ThreadInv, csVars
    <2>2. CASE k # j
      BY <1>5, <1>6, <2>2, ThreadKept DEF TimelyInv, csVars
    <2> QED BY <2>1, <2>2
  <1>10. ASSUME NEW v \in Workers, v # w PROVE WorkerInv(v)'
    <2>1. /\ toWorker'[v] = toWorker[v] /\ toServer'[v] = toServer[v]
          /\ actualJob'[v] = actualJob[v] /\ actualThread'[v] = actualThread[v] /\ comm'[v] = comm[v]
      BY <1>0, <1>5, <1>10 DEF TypeOK
    <2>2. \A k \in Jobs : jobWorker[k] = v => k # j
      BY <1>2, <1>10
    <2> QED BY <1>0, <1>5, <1>6, <2>1, <2>2, WorkerKept DEF TimelyInv, csVars, schedVars, linkVars
  <1>11. WorkerInv(w)'
    <2>1. /\ toWorker'[w] = <<>> /\ toServer'[w] = <<Msg("JOBACCEPTED")>>
          /\ actualJob'[w] = j /\ actualThread'[w] = j /\ comm'[w] = "start"
      BY <1>0, <1>5 DEF TypeOK
    <2>2. Leads("SCHEDULED", <<Msg("JOBACCEPTED")>>, 1, "INITIALIZING")
      <3> DEFINE m == Msg("JOBACCEPTED")
      <3>1. m.kind = "JOBACCEPTED" /\ Told(m) = "INITIALIZING" /\ <<m>>[1] = m /\ Len(<<m>>) = 1
        BY DEF Told, Msg
      <3> HIDE DEF m
      <3>2. IsStateTransitionAllowed("SCHEDULED", "INITIALIZING")
        <4>1. \A a : a = "SCHEDULED" => "INITIALIZING" \in Successors(a) /\ ~ IsFinal(a)
          BY DEF Successors, Custom, IsFinal, FinalStates
        <4> QED BY <4>1 DEF IsStateTransitionAllowed
      <3>3. After("SCHEDULED", <<m>>, 0) = "SCHEDULED" /\ After("SCHEDULED", <<m>>, 1) = "INITIALIZING"
        BY <3>1 DEF After
      <3>4. 1 \in 0 .. 1 /\ \A i \in 1 .. 1 : i = 1 /\ i - 1 = 0
        OBVIOUS
      <3>5. Leads("SCHEDULED", <<m>>, 1, "INITIALIZING")
        BY <3>1, <3>2, <3>3, <3>4 DEF Leads
      <3> QED BY <3>5 DEF m
    <2>3. Len(<<Msg("JOBACCEPTED")>>) = 1
      OBVIOUS
    <2>4. csState[j] = "SCHEDULED" /\ j \in observed
      BY <1>3 DEF Waiting
    <2>5. HasStarted(w, j)'
      BY <1>3, <1>5, <1>7, <1>8, <2>1, <2>2, <2>3, <2>4
      DEF HasStarted, Chosen, Scheduled, Executing, TryPhases, IsFinal, FinalStates, csVars, schedVars
    <2>6. BusyWorker(w, j)'
      BY <1>2, <1>5, <1>6, <2>5 DEF BusyWorker, csVars, linkVars
    <2>7. \A k \in Jobs : jobWorker'[k] = w /\ k # j => Over(k)'
      BY <1>0, <1>1, <1>5, <1>6 DEF WorkerInv, Over, csVars
    <2> QED BY <1>1, <1>2, <1>5, <2>6, <2>7 DEF WorkerInv, csVars
  <1>12. Untroubled'
    BY <1>0, <1>5 DEF Untroubled, linkVars, schedVars
  <1> QED BY <1>9, <1>10, <1>11, <1>12 DEF TimelyInv

\* A worker starts the thread of the job it has taken.
LEMMA TimelyStart ==
  ASSUME Known, TimelyInv, NEW w \in Workers, StartThread(w)
  PROVE  TimelyInv'
  <1>0. TypeOK /\ Untroubled /\ WorkerInv(w)
    BY DEF Known, TypeInv, TimelyInv
  <1>1. PICK j \in Jobs : j = wdJob[w]
    BY <1>0 DEF TypeOK, WorkerInv, IdleWorker, StartThread
  <1>2. /\ j # NoJob /\ BusyWorker(w, j) /\ jobWorker[j] = w /\ HasStarted(w, j) /\ ThreadInv(j)
    BY <1>0, <1>1 DEF WorkerInv, BusyWorker, Waiting, StartThread, TimelyInv, Jobs, NoJob
  <1>3. thread[j] = "none" /\ j \notin wkObserved /\ actualThread[w] = j /\ host[j] # NoWorker
    BY <1>2 DEF HasStarted, StartThread
  <1>4. /\ thread' = [thread EXCEPT ![j] = "ready"]
        /\ comm' = [comm EXCEPT ![w] = "observe"]
        /\ UNCHANGED <<csVars, schedVars, linkVars, chanVars, actualJob, actualThread, wkState,
                       wkObserved, host, outcome, stopping>>
    BY <1>2, <1>3 DEF StartThread
  <1>5. /\ thread'[j] = "ready" /\ comm'[w] = "observe"
        /\ \A k \in Jobs : k # j => thread'[k] = thread[k]
    BY <1>0, <1>4 DEF TypeOK
  <1>6. ASSUME NEW k \in Jobs PROVE ThreadInv(k)'
    <2>1. CASE k = j
      BY <1>2, <1>3, <1>4, <1>5, <2>1 DEF ThreadInv, csVars
    <2>2. CASE k # j
      BY <1>4, <1>5, <2>2, ThreadKept DEF TimelyInv, csVars
    <2> QED BY <2>1, <2>2
  <1>7. ASSUME NEW v \in Workers, v # w PROVE WorkerInv(v)'
    <2>1. comm'[v] = comm[v]
      BY <1>0, <1>4, <1>7 DEF TypeOK
    <2>2. \A k \in Jobs : jobWorker[k] = v => k # j
      BY <1>2, <1>7
    <2> QED BY <1>0, <1>4, <1>5, <2>1, <2>2, WorkerKept
            DEF TimelyInv, csVars, schedVars, linkVars, chanVars
  <1>8. WorkerInv(w)'
    <2>1. actualJob[w] = j /\ Executing(j)'
      BY <1>2, <1>3, <1>5 DEF HasStarted, Executing, TryPhases
    <2>2. Leads(csState[j], toServer[w], Len(toServer[w]), wkState[j])
      BY <1>2, <1>3 DEF HasStarted
    <2>3. HasStarted(w, j)'
      BY <1>2, <1>3, <1>4, <1>5, <2>1, <2>2
      DEF HasStarted, Chosen, Scheduled, csVars, schedVars, chanVars
    <2>4. BusyWorker(w, j)'
      BY <1>2, <1>4, <1>5, <2>3 DEF BusyWorker, csVars, linkVars
    <2>5. \A k \in Jobs : jobWorker'[k] = w /\ k # j => Over(k)'
      BY <1>0, <1>1, <1>4, <1>5 DEF WorkerInv, Over, csVars
    <2> QED BY <1>1, <1>2, <1>4, <2>4, <2>5 DEF WorkerInv, csVars
  <1>9. Untroubled'
    BY <1>0, <1>4 DEF Untroubled, linkVars, schedVars
  <1> QED BY <1>6, <1>7, <1>8, <1>9 DEF TimelyInv

\* A worker observes the job it has just started.
LEMMA TimelyObserve ==
  ASSUME Known, TimelyInv, NEW w \in Workers, NEW j \in Jobs, ObserveJob(w, j)
  PROVE  TimelyInv'
  <1>0. TypeOK /\ Untroubled /\ WorkerInv(w) /\ ThreadInv(j)
    BY DEF Known, TypeInv, TimelyInv
  <1>1. /\ host[j] = w /\ j \notin wkObserved
        /\ wkObserved' = wkObserved \cup {j}
        /\ comm' = [comm EXCEPT ![w] = "read"]
        /\ UNCHANGED <<csVars, schedVars, linkVars, chanVars, actualJob, actualThread, wkState, threadVars>>
    BY DEF ObserveJob
  <1>2. thread[j] = "ready"
    <2>1. host[j] # NoWorker /\ thread[j] \in {"none", "ready"}
      BY <1>0, <1>1, JobProtocolAssumption DEF ThreadInv
    <2>2. thread[j] # "none"
      BY <1>0, <1>1, <2>1, HostIsBusy DEF HasStarted, ObserveJob
    <2> QED BY <2>1, <2>2
  <1>3. /\ jobWorker[j] = w /\ wdJob[w] = j /\ HasStarted(w, j) /\ BusyWorker(w, j) /\ j # NoJob
    <2>1. jobWorker[j] = w /\ wdJob[w] = j /\ HasStarted(w, j)
      BY <1>0, <1>1, <1>2, HostIsBusy, JobProtocolAssumption
    <2> QED BY <1>0, <2>1 DEF WorkerInv, Jobs, NoJob
  <1>4. ASSUME NEW k \in Jobs PROVE ThreadInv(k)'
    <2>1. CASE k = j
      BY <1>0, <1>1, <1>2, <2>1 DEF ThreadInv, csVars, threadVars
    <2>2. CASE k # j
      BY <1>1, <2>2, ThreadKept DEF TimelyInv, csVars, threadVars
    <2> QED BY <2>1, <2>2
  <1>5. ASSUME NEW v \in Workers, v # w PROVE WorkerInv(v)'
    <2>1. comm'[v] = comm[v]
      BY <1>0, <1>1, <1>5 DEF TypeOK
    <2>2. \A k \in Jobs : jobWorker[k] = v => k # j
      BY <1>3, <1>5
    <2> QED BY <1>0, <1>1, <2>1, <2>2, WorkerKept
            DEF TimelyInv, csVars, schedVars, linkVars, chanVars, threadVars
  <1>6. WorkerInv(w)'
    <2>1. comm'[w] = "read" /\ j \in wkObserved'
      BY <1>0, <1>1 DEF TypeOK
    <2>2. HasStarted(w, j)'
      BY <1>1, <1>2, <1>3, <2>1
      DEF HasStarted, Chosen, Scheduled, Executing, csVars, schedVars, chanVars, threadVars
    <2>3. BusyWorker(w, j)'
      BY <1>1, <1>3, <2>2 DEF BusyWorker, csVars, linkVars, threadVars
    <2> QED BY <1>0, <1>1, <1>3, <2>3 DEF WorkerInv, Over, csVars, threadVars
  <1>7. Untroubled'
    BY <1>0, <1>1 DEF Untroubled, linkVars, schedVars, threadVars
  <1> QED BY <1>4, <1>5, <1>6, <1>7 DEF TimelyInv

\* The thread of a job goes on to phase p and takes the job to state t: it tells
\* the server of a state that is new.
LEMMA TimelyThread ==
  ASSUME Known, TimelyInv, NEW j \in Jobs, NEW p, NEW t,
         thread[j] \notin {"none", "reported", "done"}, p \notin {"none", "ready", "done"},
         j \in wkObserved,
         thread' = [thread EXCEPT ![j] = p],
         wkState' = [wkState EXCEPT ![j] = t],
         \A k \in Jobs : k # j => outcome'[k] = outcome[k],
         \A v \in Workers : actualJob'[v] = IF v = host[j] /\ p \notin TryPhases \cup {"finally"}
                                            THEN NoJob ELSE actualJob[v],
         \A v \in Workers : v # host[j] => actualThread'[v] = actualThread[v],
         Executing(j) \/ p \notin TryPhases \cup {"finally"},
         \/ t = wkState[j] /\ UNCHANGED toServer
         \/ /\ t # "CANCELLING" /\ IsStateTransitionAllowed(wkState[j], t)
            /\ Send(host[j], StateChange(t)),
         StateChange(t) \in Message,
         UNCHANGED <<stopping, csVars, schedVars, linkVars, toWorker, comm, wkObserved, host>>,
         ThreadInv(j)'
  PROVE  TimelyInv'
  <1>0. TypeOK /\ Untroubled /\ Timely
    BY DEF Known, TypeInv, TimelyInv
  <1>1. PICK w \in Workers : w = host[j] /\ w # NoWorker
    BY DEF TimelyInv, ThreadInv
  <1>2. /\ jobWorker[j] = w /\ wdJob[w] = j /\ w \in connected /\ HasStarted(w, j) /\ j # NoJob
        /\ \A k \in Jobs : jobWorker[k] = w /\ k # j => thread[k] = "done"
    BY <1>0, <1>1, HostIsBusy DEF Jobs, NoJob
  <1>3. /\ thread'[j] = p /\ wkState'[j] = t
        /\ \A k \in Jobs : k # j => thread'[k] = thread[k] /\ wkState'[k] = wkState[k]
    BY <1>0 DEF TypeOK
  <1>4. ASSUME NEW k \in Jobs PROVE ThreadInv(k)'
    <2>1. CASE k # j
      BY <1>3, <2>1, ThreadKept DEF TimelyInv, csVars
    <2> QED BY <2>1
  <1>5. ASSUME NEW v \in Workers, v # w PROVE WorkerInv(v)'
    <2>1. toServer'[v] = toServer[v] /\ actualJob'[v] = actualJob[v] /\ actualThread'[v] = actualThread[v]
      BY <1>0, <1>1, <1>5 DEF TypeOK, Send
    <2>2. \A k \in Jobs : jobWorker[k] = v => k # j
      BY <1>2, <1>5
    <2> QED BY <1>0, <1>3, <2>1, <2>2, WorkerKept
            DEF TimelyInv, csVars, schedVars, linkVars
  <1>6. WorkerInv(w)'
    <2>0. PICK q \in Seq(Message) : q = toServer[w]
      BY <1>0 DEF TypeOK
    <2>1. Leads(csState[j], q, Len(q), wkState[j])
      BY <1>2, <2>0 DEF HasStarted
    <2>2. Leads(csState[j], toServer'[w], Len(toServer'[w]), t)
      <3>1. CASE t = wkState[j] /\ UNCHANGED toServer
        BY <2>0, <2>1, <3>1
      <3>2. CASE /\ t # "CANCELLING" /\ IsStateTransitionAllowed(wkState[j], t)
                 /\ Send(host[j], StateChange(t))
        <4> DEFINE m == StateChange(t)
        <4>1. m.kind = "STATECHANGE" /\ Told(m) = t
          BY DEF StateChange, Told
        <4> HIDE DEF m
        <4>2. toServer'[w] = Append(q, m)
          BY <1>0, <1>1, <1>2, <2>0, <3>2 DEF TypeOK, Send, Untroubled, m
        <4>3. Leads(csState[j], Append(q, m), Len(Append(q, m)), t)
          BY <2>1, <3>2, <4>1, LeadsAppend DEF m
        <4> QED BY <4>2, <4>3
      <3> QED BY <3>1, <3>2
    <2>3. actualJob'[w] = IF Executing(j)' THEN j ELSE NoJob
      <3>1. actualJob[w] = IF Executing(j) THEN j ELSE NoJob
        BY <1>2 DEF HasStarted
      <3> QED BY <1>1, <1>3, <3>1 DEF Executing
    <2>4. HasStarted(w, j)'
      BY <1>2, <1>3, <2>2, <2>3 DEF HasStarted, Chosen, Scheduled, csVars, schedVars
    <2>5. BusyWorker(w, j)'
      BY <1>2, <1>3, <2>4 DEF BusyWorker, csVars, linkVars
    <2>6. \A k \in Jobs : jobWorker'[k] = w /\ k # j => Over(k)'
      BY <1>2, <1>3 DEF TimelyInv, WorkerInv, Over, csVars
    <2> QED BY <1>2, <2>5, <2>6 DEF WorkerInv, csVars
  <1>7. Untroubled'
    BY <1>0 DEF Untroubled, linkVars, schedVars
  <1> QED BY <1>4, <1>5, <1>6, <1>7 DEF TimelyInv

\* A thread tells that it is done, to whatever the server has made of its worker.
LEMMA TimelyDone ==
  ASSUME Known, TimelyInv, NEW j \in Jobs, NotifyFinished(j)
  PROVE  TimelyInv'
  <1>0. TypeOK /\ Untroubled /\ ThreadInv(j)
    BY DEF Known, TypeInv, TimelyInv
  <1>1. /\ thread[j] = "reported" /\ thread' = [thread EXCEPT ![j] = "done"]
        /\ Send(host[j], Msg("JOBFINISHED"))
        /\ UNCHANGED <<actualJob, actualThread, wkState, outcome, stopping, csVars, schedVars, linkVars,
                       toWorker, comm, wkObserved, host>>
    BY DEF NotifyFinished, ThreadUnchanged
  <1>2. PICK w \in Workers : w = host[j]
    BY <1>0, <1>1 DEF ThreadInv
  <1>3. jobWorker[j] = w /\ WorkerInv(w)
    BY <1>0, <1>1, <1>2 DEF ThreadInv, TimelyInv
  <1>4. /\ thread'[j] = "done"
        /\ \A k \in Jobs : k # j => thread'[k] = thread[k]
    BY <1>0, <1>1 DEF TypeOK
  <1>5. ASSUME NEW k \in Jobs PROVE ThreadInv(k)'
    <2>1. CASE k = j
      BY <1>0, <1>1, <1>4, <2>1 DEF ThreadInv, csVars
    <2>2. CASE k # j
      BY <1>1, <1>4, <2>2, ThreadKept DEF TimelyInv, csVars
    <2> QED BY <2>1, <2>2
  <1>6. ASSUME NEW v \in Workers, v # w PROVE WorkerInv(v)'
    <2>1. toServer'[v] = toServer[v]
      BY <1>0, <1>1, <1>2, <1>6 DEF TypeOK, Send
    <2>2. \A k \in Jobs : jobWorker[k] = v => k # j
      BY <1>3, <1>6
    <2> QED BY <1>0, <1>1, <1>4, <2>1, <2>2, WorkerKept
            DEF TimelyInv, csVars, schedVars, linkVars
  <1> DEFINE m == Msg("JOBFINISHED")
  <1>7. PICK q \in Seq(Message) : q = toServer[w]
    BY <1>0 DEF TypeOK
  <1>8. m.kind = "JOBFINISHED" /\ m \in Message
    BY JobStatesClosed DEF Msg, Kinds
  <1>9. toServer'[w] = IF w \in connected THEN Append(q, m) ELSE q
    BY <1>0, <1>1, <1>2, <1>7 DEF TypeOK, Send, Untroubled
  <1> HIDE DEF m
  <1>10. /\ Len(Append(q, m)) = Len(q) + 1 /\ Len(q) \in Nat
         /\ Append(q, m)[Len(q) + 1] = m
         /\ \A i \in 1 .. Len(q) : Append(q, m)[i] = q[i]
    BY <1>8
  <1>11. \A k \in Jobs : jobWorker'[k] = w /\ k # wdJob'[w] => Over(k)'
    BY <1>1, <1>3, <1>4 DEF WorkerInv, Over, csVars
  <1>12. WorkerInv(w)'
    <2>1. CASE wdJob[w] = NoJob
      <3>1. IdleWorker(w)
        BY <1>3, <2>1 DEF WorkerInv
      <3>2. \A i \in 1 .. Len(q) : q[i].kind = "JOBFINISHED"
        BY <1>7, <3>1 DEF IdleWorker
      <3>3. ASSUME NEW i \in 1 .. Len(Append(q, m)) PROVE Append(q, m)[i].kind = "JOBFINISHED"
        <4>1. i = Len(q) + 1 \/ i \in 1 .. Len(q)
          BY <1>10
        <4> QED BY <1>8, <1>10, <3>2, <4>1
      <3>4. IdleWorker(w)'
        BY <1>1, <1>9, <3>1, <3>2, <3>3 DEF IdleWorker
      <3> QED BY <1>1, <1>11, <2>1, <3>4 DEF WorkerInv, csVars
    <2>2. CASE wdJob[w] # NoJob
      <3>1. wdJob[w] = j
        BY <1>1, <1>3, <2>2 DEF WorkerInv, BusyWorker
      <3>2. BusyWorker(w, j) /\ HasStarted(w, j) /\ w \in connected
        BY <1>1, <1>3, <2>2, <3>1 DEF WorkerInv, BusyWorker, Waiting
      <3>3. Leads(csState[j], q, Len(q), wkState[j])
        BY <1>1, <1>7, <3>2 DEF HasStarted
      <3>4. Leads(csState[j], Append(q, m), Len(Append(q, m)) - 1, wkState[j])
        <4>1. Leads(csState[j], Append(q, m), Len(q), wkState[j])
          BY <1>8, <3>3, LeadsKept
        <4>2. Len(Append(q, m)) - 1 = Len(q)
          BY <1>10
        <4> QED BY <4>1, <4>2
      <3>5. Append(q, m)[Len(Append(q, m))].kind = "JOBFINISHED"
        BY <1>8, <1>10
      <3>6. toServer'[w] = Append(q, m)
        BY <1>9, <3>2
      <3>7. HasStarted(w, j)'
        BY <1>1, <1>4, <3>2, <3>4, <3>5, <3>6
        DEF HasStarted, Chosen, Scheduled, Executing, TryPhases, csVars, schedVars
      <3>8. BusyWorker(w, j)'
        BY <1>1, <1>4, <3>2, <3>7 DEF BusyWorker, csVars, linkVars
      <3> QED BY <1>1, <1>11, <2>2, <3>1, <3>8 DEF WorkerInv, csVars
    <2> QED BY <2>1, <2>2
  <1>13. Untroubled'
    BY <1>0, <1>1 DEF Untroubled, linkVars, schedVars
  <1> QED BY <1>5, <1>6, <1>12, <1>13 DEF TimelyInv

\* The threads: no transition they try is illegal.
LEMMA TimelyThreads ==
  ASSUME Undisturbed, Known, TimelyInv, NEW j \in Jobs, JobThread(j) \/ Throw(j)
  PROVE  TimelyInv'
  <1>0. TypeOK /\ Untroubled /\ ThreadInv(j) /\ Timely
    BY DEF Known, TypeInv, TimelyInv, Undisturbed
  <1>1. j \notin stopping
    BY <1>0 DEF Untroubled
  <1>2. \A t \in JobStates : StateChange(t) \in Message
    BY JobStatesClosed
  <1>3. ASSUME NEW f, NEW t, NEW p,
               \/ f = "ready" /\ p = "parsing" /\ t = "PARSING"
               \/ f = "parsing" /\ p = "running" /\ t = "RUNNING"
               \/ f = "running" /\ p = "metrics" /\ t = "CALCULATING_METRICS",
               f = "ready" => j \in wkObserved,
               Advance(j, f, t, p)
        PROVE  TimelyInv'
    <2>1. IsStateTransitionAllowed(wkState[j], t) /\ thread[j] = f /\ j \in wkObserved
      <3>1. thread[j] = f /\ j \in wkObserved
        BY <1>0, <1>3 DEF Advance, ThreadInv
      <3>2. \/ wkState[j] = "INITIALIZING" /\ t = "PARSING"
            \/ wkState[j] = "PARSING" /\ t = "RUNNING"
            \/ wkState[j] = "RUNNING" /\ t = "CALCULATING_METRICS"
        BY <1>0, <1>3, <3>1 DEF ThreadInv
      <3>3. ~ IsFinal(wkState[j]) /\ t \in Successors(wkState[j])
        BY <3>2 DEF Successors, Custom, IsFinal, FinalStates
      <3> QED BY <3>1, <3>3 DEF IsStateTransitionAllowed
    <2>2. /\ wkState' = [wkState EXCEPT ![j] = t]
          /\ thread' = [thread EXCEPT ![j] = p]
          /\ Send(host[j], StateChange(t))
          /\ UNCHANGED <<outcome, actualJob, actualThread, stopping, csVars, schedVars, linkVars, toWorker,
                         comm, wkObserved, host>>
      BY <1>3, <2>1 DEF Advance, Report, ThreadUnchanged
    <2>3. ThreadInv(j)'
      BY <1>0, <1>3, <2>1, <2>2 DEF ThreadInv, TypeOK, csVars
    <2>4. Executing(j) /\ p \in TryPhases
      BY <1>3, <2>1 DEF Executing, TryPhases
    <2>5. StateChange(t) \in Message /\ t # "CANCELLING"
      BY <1>2, <1>3 DEF JobStates, PredefinedStates
    <2> QED BY <1>3, <2>1, <2>2, <2>3, <2>4, <2>5, TimelyThread
  <1>4. CASE StartParsing(j) \/ StartRunning(j) \/ StartMetrics(j)
    <2>1. CASE StartParsing(j)
      <3>1. j \in wkObserved /\ Advance(j, "ready", "PARSING", "parsing")
        BY <1>0, <2>1 DEF StartParsing
      <3> QED BY <1>3, <3>1
    <2>2. CASE StartRunning(j)
      BY <1>3, <2>2 DEF StartRunning
    <2>3. CASE StartMetrics(j)
      BY <1>3, <2>3 DEF StartMetrics
    <2> QED BY <1>4, <2>1, <2>2, <2>3
  <1>5. CASE Succeed(j) \/ Throw(j)
    <2>1. PICK f \in FinalStates : /\ EndTry(j, f)
                                   /\ IsStateTransitionAllowed(wkState[j], f)
      <3>1. CASE Succeed(j)
        <4>1. IsStateTransitionAllowed(wkState[j], "SUCCESS")
          BY <1>0, <3>1 DEF Succeed, ThreadInv, IsStateTransitionAllowed, Successors, IsFinal, FinalStates
        <4> QED BY <3>1, <4>1 DEF Succeed, FinalStates
      <3>2. CASE Throw(j)
        <4>1. IsStateTransitionAllowed(wkState[j], "FAILED")
          BY <1>0, <3>2 DEF Throw, TryPhases, ThreadInv, IsStateTransitionAllowed, IsFinal, FinalStates
        <4> QED BY <3>2, <4>1 DEF Throw, FinalStates
      <3> QED BY <1>5, <3>1, <3>2
    <2>2. /\ thread[j] \in TryPhases /\ j \in wkObserved
          /\ UNCHANGED <<actualJob, actualThread, wkState, toServer, stopping, csVars, schedVars, linkVars,
                         toWorker, comm, wkObserved, host>>
      BY <1>0, <1>5 DEF Succeed, Throw, TryPhases, ThreadInv, ThreadUnchanged
    <2>3. thread' = [thread EXCEPT ![j] = "finally"] /\ outcome' = [outcome EXCEPT ![j] = f]
      BY <2>1 DEF EndTry
    <2>4. ThreadInv(j)'
      BY <1>0, <2>1, <2>2, <2>3 DEF ThreadInv, TryPhases, TypeOK, csVars
    <2>5. Executing(j) /\ thread[j] \notin {"none", "reported", "done"}
      BY <2>2 DEF Executing, TryPhases
    <2>6. /\ wkState' = [wkState EXCEPT ![j] = wkState[j]]
          /\ \A k \in Jobs : k # j => outcome'[k] = outcome[k]
          /\ StateChange(wkState[j]) \in Message
      BY <1>0, <1>2, <2>2, <2>3 DEF TypeOK
    <2> QED BY <2>2, <2>3, <2>4, <2>5, <2>6, TimelyThread
  <1>6. CASE ClearJob(j)
    <2>1. /\ thread[j] = "finally" /\ thread' = [thread EXCEPT ![j] = "clearing"]
          /\ actualJob' = [actualJob EXCEPT ![host[j]] = NoJob]
          /\ UNCHANGED <<actualThread, wkState, outcome, stopping, toServer, csVars, schedVars, linkVars, toWorker, comm,
                         wkObserved, host>>
      BY <1>6 DEF ClearJob, ThreadUnchanged
    <2>2. ThreadInv(j)' /\ j \in wkObserved
      BY <1>0, <2>1 DEF ThreadInv, TypeOK, csVars
    <2>3. /\ wkState' = [wkState EXCEPT ![j] = wkState[j]]
          /\ StateChange(wkState[j]) \in Message
          /\ \A v \in Workers : actualJob'[v] = IF v = host[j] THEN NoJob ELSE actualJob[v]
      BY <1>0, <1>2, <2>1 DEF TypeOK
    <2>4. "clearing" \notin TryPhases \cup {"finally"}
      BY DEF TryPhases
    <2> QED BY <2>1, <2>2, <2>3, <2>4, TimelyThread
  <1>10. CASE ClearThread(j)
    <2>1. /\ thread[j] = "clearing" /\ thread' = [thread EXCEPT ![j] = "cleared"]
          /\ actualThread' = [actualThread EXCEPT ![host[j]] = NoJob]
          /\ UNCHANGED <<actualJob, wkState, outcome, stopping, toServer, csVars, schedVars, linkVars,
                         toWorker, comm, wkObserved, host>>
      BY <1>10 DEF ClearThread, ThreadUnchanged
    <2>2. ThreadInv(j)' /\ j \in wkObserved /\ host[j] # NoWorker
      BY <1>0, <2>1 DEF ThreadInv, TypeOK, csVars
    <2>3. /\ wkState' = [wkState EXCEPT ![j] = wkState[j]]
          /\ StateChange(wkState[j]) \in Message
          /\ \A v \in Workers : v # host[j] => actualThread'[v] = actualThread[v]
      BY <1>0, <1>2, <2>1 DEF TypeOK
    <2>4. /\ "cleared" \notin TryPhases \cup {"finally"}
          /\ ~ Executing(j)
      BY <2>1 DEF TryPhases, Executing
    <2>5. actualJob[host[j]] = NoJob
      <3>1. HasStarted(host[j], j)
        BY <1>0, <2>1, <2>2, HostIsBusy
      <3> QED BY <2>1, <2>4, <3>1 DEF HasStarted
    <2>6. \A v \in Workers : actualJob'[v] = IF v = host[j] THEN NoJob ELSE actualJob[v]
      BY <2>1, <2>5
    <2> QED BY <2>1, <2>2, <2>3, <2>4, <2>6, TimelyThread
  <1>7. CASE ReportOutcome(j)
    <2> PICK t \in FinalStates : t = outcome[j]
      BY <1>0 DEF TypeOK
    <2>1. /\ thread[j] = "cleared" /\ IsStateTransitionAllowed(wkState[j], t) /\ j \in wkObserved
          /\ host[j] # NoWorker
      BY <1>0, <1>7 DEF ReportOutcome, ThreadInv
    <2>2. /\ wkState' = [wkState EXCEPT ![j] = t]
          /\ thread' = [thread EXCEPT ![j] = "reported"]
          /\ Send(host[j], StateChange(t))
          /\ UNCHANGED <<actualJob, actualThread, outcome, stopping, csVars, schedVars, linkVars, toWorker,
                         comm, wkObserved, host>>
      BY <1>7, <2>1 DEF ReportOutcome, Report, ThreadUnchanged
    <2>3. ThreadInv(j)'
      BY <1>0, <2>1, <2>2 DEF ThreadInv, TypeOK, IsFinal, csVars
    <2>4. StateChange(t) \in Message /\ t # "CANCELLING"
      BY <1>2, JobStatesClosed DEF FinalStates
    <2>5. "reported" \notin TryPhases \cup {"finally"} /\ "cleared" \notin TryPhases \cup {"finally"}
      BY DEF TryPhases
    <2>6. actualJob[host[j]] = NoJob
      <3>1. ~ Executing(j) /\ HasStarted(host[j], j)
        BY <1>0, <2>1, <2>5, HostIsBusy DEF Executing
      <3> QED BY <2>1, <3>1 DEF HasStarted
    <2> QED BY <2>1, <2>2, <2>3, <2>4, <2>5, <2>6, TimelyThread
  <1>8. CASE NotifyFinished(j)
    BY <1>8, TimelyDone
  <1>9. ~ RaiseKill(j)
    BY <1>1 DEF RaiseKill
  <1> QED BY <1>4, <1>5, <1>6, <1>7, <1>8, <1>9, <1>10 DEF JobThread

\* Every step keeps the invariant: one case per action.
LEMMA TimelyStep ==
  ASSUME Undisturbed, Known, TimelyInv, [Next]_vars
  PROVE  TimelyInv'
  <1>0. TypeOK /\ Untroubled /\ Timely
    BY DEF Known, TypeInv, TimelyInv
  <1>1. ASSUME NEW w \in Workers PROVE /\ comm[w] \in {"read", "start", "observe"}
                                       /\ toWorker[w] # <<>> => Head(toWorker[w]).kind = "NEWJOB"
    <2>1. WorkerInv(w)
      BY DEF TimelyInv
    <2>2. ASSUME NEW j, Waiting(w, j) PROVE /\ comm[w] = "read"
                                            /\ toWorker[w] # <<>> => Head(toWorker[w]).kind = "NEWJOB"
      BY <2>2 DEF Waiting, NewJob
    <2> QED BY <2>1, <2>2 DEF WorkerInv, IdleWorker, BusyWorker, HasStarted
  <1>2. ASSUME NEW w \in Workers, Communicator(w) PROVE TimelyInv'
    <2>1. ~ StopThread(w) /\ ~ KillThread(w)
      BY <1>1 DEF StopThread, KillThread
    <2>2. ~ HandleCancelJob(w)
      BY <1>1 DEF HandleCancelJob, Take
    <2>3. HandleNewJob(w) => Take(w, "NEWJOB")
      BY DEF HandleNewJob
    <2> QED BY <1>2, <2>1, <2>2, <2>3, TimelyNewJob, TimelyStart, TimelyObserve DEF Communicator
  <1>3. ASSUME NEW w \in Workers PROVE ~ AttendanceTimeout(w) /\ ~ LoseConnection(w) /\ ~ CrashWorker(w)
    <2>1. ~ (faults < MaxFaults)
      BY <1>0 DEF TypeOK, Undisturbed
    <2>2. w \in reading <=> w \in connected
      BY <1>0 DEF Untroubled
    <2>3. comm[w] # "died"
      BY <1>1
    <2> QED BY <2>1, <2>2, <2>3 DEF AttendanceTimeout, LoseConnection, CrashWorker
  <1>4. ASSUME NEW j \in Jobs PROVE ~ Cancel(j)
    BY DEF Cancel, Undisturbed
  <1>5. CASE UNCHANGED vars
    <2>1. ASSUME NEW j \in Jobs PROVE ThreadInv(j)'
      BY <1>5, ThreadKept DEF TimelyInv, vars, csVars, workerVars, threadVars
    <2>2. ASSUME NEW w \in Workers PROVE WorkerInv(w)'
      BY <1>0, <1>5, WorkerKept
      DEF TimelyInv, vars, csVars, schedVars, linkVars, chanVars, workerVars, threadVars
    <2>3. Untroubled'
      BY <1>0, <1>5 DEF Untroubled, vars, schedVars, linkVars, workerVars, threadVars
    <2> QED BY <2>1, <2>2, <2>3 DEF TimelyInv
  <1> QED
    BY <1>2, <1>3, <1>4, <1>5, TimelySchedule, TimelyMain, TimelyReader, TimelyConnect, TimelyThreads, TimelyNext
    DEF Main, Known

LEMMA TimelyInit == Init => TimelyInv
  <1> SUFFICES ASSUME Init PROVE TimelyInv
    OBVIOUS
  <1>1. \A j \in Jobs : ThreadInv(j)
    BY DEF Init, ThreadInv
  <1>2. \A w \in Workers : WorkerInv(w)
    BY JobProtocolAssumption DEF Init, WorkerInv, IdleWorker
  <1> QED BY <1>1, <1>2 DEF Init, TimelyInv, Untroubled

\* The invariant, with what else is known, holds in every state.
LEMMA TimelyAlways == Undisturbed /\ Spec => [](Undisturbed /\ Known /\ TimelyInv)
  <1>1. Undisturbed /\ Init => Known
    <2> SUFFICES ASSUME Undisturbed, Init PROVE Known
      OBVIOUS
    <2>1. HandInv
      BY JobProtocolAssumption DEF Init, HandInv, SentOnce, UnchosenIsNotBegun, ScheduledIsUnsent, InFlight, Begun,
                                   Jobs, NoJob
    <2>2. RecordsInv /\ LifeInv
      BY JobProtocolAssumption DEF Init, RecordsInv, SchedulerKnowsWorkers, LifeInv, Jobs, NoJob
    <2> QED BY <2>1, <2>2, TypeInit DEF Known, Undisturbed
  <1>2. Known /\ [Next]_vars => Known'
    <2> SUFFICES ASSUME Known, [Next]_vars PROVE Known'
      OBVIOUS
    <2>1. TypeInv' /\ RecordsInv' /\ LifeInv'
      BY TypeStep, RecordsStep, LifeStep DEF Known
    <2>2. HandInv'
      BY <2>1, HandStep DEF Known
    <2> QED BY <2>1, <2>2 DEF Known
  <1>3. Undisturbed => Undisturbed'
    BY DEF Undisturbed
  <1>4. Undisturbed /\ Known /\ TimelyInv /\ [Next]_vars => TimelyInv'
    BY TimelyStep
  <1> QED BY TimelyInit, <1>1, <1>2, <1>3, <1>4, PTL DEF Spec

-----------------------------------------------------------------------------
(* The theorems.                                                           *)

\* When nothing is under way, what a worker has told leads nowhere further.
LEMMA QuietWorker ==
  ASSUME TypeOK, TimelyInv, Quiet, NEW w \in Workers, wdJob[w] # NoJob
  PROVE  /\ wdJob[w] \in Jobs /\ HasStarted(w, wdJob[w])
         /\ csState[wdJob[w]] = wkState[wdJob[w]]
         /\ actualJob[w] = wdJob[w]
  <1>1. PICK j \in Jobs : j = wdJob[w]
    BY DEF TypeOK
  <1>2. BusyWorker(w, j) /\ toServer[w] = <<>> /\ toWorker[w] = <<>> /\ main = "schedule"
    BY <1>1 DEF TimelyInv, WorkerInv, Quiet
  <1>3. HasStarted(w, j)
    <2>1. ~ Waiting(w, j)
      BY <1>2 DEF Waiting, Chosen
    <2> QED BY <1>2, <2>1 DEF BusyWorker
  <1>4. Len(toServer[w]) = 0
    BY <1>2
  <1>5. thread[j] # "done"
    BY <1>3, <1>4 DEF HasStarted, Leads
  <1>6. csState[j] = wkState[j]
    BY <1>3, <1>4, <1>5 DEF HasStarted, Leads, After
  <1>7. Executing(j)
    <2>1. thread[j] # "reported"
      BY <1>3, <1>6 DEF HasStarted, TimelyInv, ThreadInv
    <2>2. thread[j] \in Phases /\ thread[j] \notin {"none", "died"} /\ thread[j] \notin FinallyPhases
      <3>1. comm[w] # "start" /\ ThreadInv(j)
        BY DEF Quiet, TimelyInv
      <3> QED BY <1>3, <3>1 DEF TypeOK, HasStarted, ThreadInv, Quiet
    <2> QED BY <1>5, <2>1, <2>2 DEF Executing, Phases, FinallyPhases
  <1>8. actualJob[w] = j
    BY <1>3, <1>7 DEF HasStarted
  <1> QED BY <1>1, <1>3, <1>6, <1>8

\* Without faults and cancellations, and with long enough pauses, the server
\* and the workers agree on the state of every job that was handed out whenever
\* nothing is under way.
THEOREM ServerAndWorkerAgree == Undisturbed /\ Spec => []AgreementWhenQuiet
  <1>1. Known /\ TimelyInv => AgreementWhenQuiet
    <2> SUFFICES ASSUME Known, TimelyInv, Quiet, NEW j \in Jobs, j < next
                 PROVE  csState[j] = wkState[j]
      BY DEF AgreementWhenQuiet
    <2>0. TypeOK
      BY DEF Known, TypeInv
    <2>1. PICK w \in Workers : w = jobWorker[j]
      BY <2>0 DEF Known, LifeInv, TypeOK
    <2>2. CASE wdJob[w] = j
      BY <2>0, <2>2, QuietWorker DEF Jobs, NoJob
    <2>3. CASE wdJob[w] # j
      BY <2>1, <2>3 DEF TimelyInv, WorkerInv, Over
    <2> QED BY <2>2, <2>3
  <1> QED BY <1>1, TimelyAlways, PTL

\* Under the same assumptions a connected worker is employed exactly if it
\* executes a job, the one its descriptor names, whenever nothing is under way.
THEOREM EmployedAreBusy == Undisturbed /\ Spec => []EmployedWhenBusy
  <1>1. Known /\ TimelyInv => EmployedWhenBusy
    <2> SUFFICES ASSUME Known, TimelyInv, Quiet, NEW w \in connected
                 PROVE  /\ wdState[w] = "employed" <=> actualJob[w] # NoJob
                        /\ wdState[w] = "employed" => wdJob[w] = actualJob[w]
      BY DEF EmployedWhenBusy
    <2>0. TypeOK /\ w \in Workers /\ w \in registered
      BY DEF Known, TypeInv, TypeOK, TimelyInv, Untroubled
    <2>1. wdState[w] = "employed" <=> wdJob[w] # NoJob
      BY <2>0 DEF Known, RecordsInv, SchedulerKnowsWorkers
    <2>2. wdJob[w] # NoJob => actualJob[w] = wdJob[w]
      BY <2>0, QuietWorker
    <2>3. wdJob[w] = NoJob => actualJob[w] = NoJob
      BY <2>0 DEF TimelyInv, WorkerInv, IdleWorker
    <2> QED BY <2>1, <2>2, <2>3
  <1> QED BY <1>1, TimelyAlways, PTL

\* Under the same assumptions no STATECHANGE the server handles is illegal:
\* "this should never be thrown at this point".
THEOREM ReportsAreLegal == Undisturbed /\ Spec => []StateChangesLegal
  <1>1. Known /\ TimelyInv => StateChangesLegal
    <2> SUFFICES ASSUME Known, TimelyInv, NEW w \in reading, toServer[w] # <<>>,
                        Head(toServer[w]).kind = "STATECHANGE", wdJob[w] # NoJob
                 PROVE  SetStateAccepts(csState[wdJob[w]], Head(toServer[w]).state)
      BY DEF StateChangesLegal
    <2>0. TypeOK /\ w \in Workers
      BY DEF Known, TypeInv, TypeOK
    <2>1. IsStateTransitionAllowed(csState[wdJob[w]], Told(Head(toServer[w])))
      BY <2>0, FirstMessage
    <2>2. Told(Head(toServer[w])) = Head(toServer[w]).state
      BY DEF Told
    <2> QED BY <2>1, <2>2 DEF SetStateAccepts
  <1> QED BY <1>1, TimelyAlways, PTL

\* Under the same assumptions the state of a job is final before the server
\* handles the JOBFINISHED of its worker.
THEOREM EndsComeFirst == Undisturbed /\ Spec => []EndedBeforeFinished
  <1>1. Known /\ TimelyInv => EndedBeforeFinished
    <2> SUFFICES ASSUME Known, TimelyInv, NEW w \in reading, toServer[w] # <<>>,
                        Head(toServer[w]).kind = "JOBFINISHED", wdJob[w] # NoJob
                 PROVE  IsFinal(csState[wdJob[w]])
      BY DEF EndedBeforeFinished
    <2>0. TypeOK /\ w \in Workers
      BY DEF Known, TypeInv, TypeOK
    <2>1. Head(toServer[w]).kind \in {"JOBACCEPTED", "STATECHANGE"}
      BY <2>0, FirstMessage
    <2> QED BY <2>1
  <1> QED BY <1>1, TimelyAlways, PTL

\* A worker is given a job only when all it had before have ended.
LEMMA GivenWhenIdle ==
  ASSUME Known, TimelyInv, NEW w \in Workers, Schedule(w)
  PROVE  TimelyLife!Idle(w)
  <1>1. wdJob[w] = NoJob
    BY DEF Schedule, TimelyInv, Untroubled, Known, RecordsInv, SchedulerKnowsWorkers
  <1>2. ASSUME NEW k \in Jobs, jobWorker[k] = w PROVE lifeOfJobs[k] # "handed"
    <2>1. Over(k)
      BY <1>1, <1>2 DEF TimelyInv, WorkerInv, Jobs, NoJob
    <2>2. IsFinal(csState[k])
      BY <2>1 DEF Over, TimelyInv, ThreadInv
    <2> QED BY <2>2 DEF lifeOfJobs
  <1> QED BY <1>2 DEF TimelyLife!Idle, TimelyLife!Jobs, Jobs

\* Under the same assumptions the protocol keeps the safety part of what
\* ImplementsTimelyLife promises: no worker owns two jobs that have not ended.
THEOREM ProtocolImplementsExclusiveLife == Undisturbed /\ Spec => TimelyLife!Spec
  <1>1. Init => TimelyLife!Init
    BY DEF Init, TimelyLife!Init, TimelyLife!Jobs, Jobs, lifeOfJobs, resultOfJobs, IsFinal, FinalStates
  <1>2. Known /\ TimelyInv /\ [Next]_vars => [TimelyLife!Next]_(TimelyLife!vars)
    <2> SUFFICES ASSUME Known, TimelyInv, [Next]_vars
                 PROVE  [TimelyLife!Next]_(TimelyLife!vars)
      OBVIOUS
    <2>0. TypeOK /\ [Life!Next]_(Life!vars)
      BY LifeRefines DEF Known, TypeInv
    <2>1. ASSUME NEW j \in Jobs, NEW w \in Workers, Life!Give(j, w) PROVE TimelyLife!Give(j, w)
      <3>1. jobWorker[j] = NoWorker /\ jobWorker' = [jobWorker EXCEPT ![j] = w]
        BY <2>1 DEF Life!Give, lifeOfJobs
      <3>2. jobWorker' # jobWorker
        BY <2>0, <3>1, JobProtocolAssumption DEF TypeOK
      <3>3. PICK v \in Workers : Schedule(v)
        BY <3>2, TimelyNext
        DEF Known, Main, Check, Attach, SendJob, ReaderThread, HandleJobFinished, HandleStateChange,
            HandleJobAccepted, HandleJobRefused, HandleReply, Receive, Communicator, HandleNewJob,
            StartThread, ObserveJob, HandleCancelJob, KillThread, StopThread, Take, Connect, Disconnect,
            JobThread, StartParsing, StartRunning, StartMetrics, Advance, Succeed, Throw, RaiseKill, ClearJob,
            ClearThread, ReportOutcome, NotifyFinished, ThreadUnchanged, Cancel, vars, csVars
      <3>4. jobWorker' = [jobWorker EXCEPT ![next] = v] /\ next \in Jobs
        BY <3>3 DEF Schedule
      <3>5. v = w
        <4>1. jobWorker'[j] = w
          BY <2>0, <3>1 DEF TypeOK
        <4>2. jobWorker'[j] = IF j = next THEN v ELSE jobWorker[j]
          BY <2>0, <3>4 DEF TypeOK
        <4> QED BY <3>1, <4>1, <4>2, JobProtocolAssumption
      <3>6. TimelyLife!Idle(w)
        BY <3>3, <3>5, GivenWhenIdle
      <3> QED BY <2>1, <3>6 DEF Life!Give, TimelyLife!Give
    <2>2. ASSUME NEW j, NEW s, Life!End(j, s) PROVE TimelyLife!End(j, s)
      BY <2>2 DEF Life!End, TimelyLife!End
    <2>3. CASE UNCHANGED Life!vars
      BY <2>3 DEF Life!vars, TimelyLife!vars
    <2>4. CASE Life!GiveSome
      BY <2>1, <2>4 DEF Life!GiveSome, Life!Jobs, Jobs, TimelyLife!GiveSome, TimelyLife!Jobs, TimelyLife!Next
    <2>5. CASE \E j \in Life!Jobs, s \in Life!FinalStates : Life!End(j, s)
      BY <2>2, <2>5 DEF Life!Jobs, Life!FinalStates, TimelyLife!Jobs, TimelyLife!FinalStates, TimelyLife!Next
    <2> QED BY <2>0, <2>3, <2>4, <2>5 DEF Life!Next
  <1> QED BY <1>1, <1>2, TimelyAlways, PTL DEF Spec, TimelyLife!Spec

=============================================================================
