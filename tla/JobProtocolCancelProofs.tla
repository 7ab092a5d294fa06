----------------------- MODULE JobProtocolCancelProofs -----------------------
(***************************************************************************)
(* A proof about JobProtocol for any number of workers and jobs when the   *)
(* pauses of the server and the user are long enough (Timely), whatever is *)
(* cancelled, thrown or broken: CANCELLED is the worker's confirmation.    *)
(***************************************************************************)
EXTENDS JobProtocolProofs

-----------------------------------------------------------------------------
(* The inductive invariant.                                                *)

\* The messages in a channel.
Content(q) == {q[i] : i \in 1 .. Len(q)}

\* No job is on its way to a worker, and none is being started there.
NoOrder ==
    \A w \in Workers : /\ \A m \in Content(toWorker[w]) : m.kind # "NEWJOB"
                       /\ comm[w] # "start"

\* Where a job is, or was, is where the Scheduler sent it, and the worker of
\* the job scheduled last has not been given another since.
HoldersInv ==
    /\ \A w \in Workers : wdJob[w] # NoJob => jobWorker[wdJob[w]] = w
    /\ next > 1 => wdJob[jobWorker[next - 1]] \in {NoJob, next - 1}
    /\ \A w \in Workers : \A m \in Content(toWorker[w]) :
           m.kind = "NEWJOB" => m.job \in Jobs /\ jobWorker[m.job] = w
    /\ \A j \in Jobs : host[j] # NoWorker => host[j] = jobWorker[j]

\* Only the job scheduled last is on its way or being started, and only while
\* the server pauses.
OrdersInv ==
    \A w \in Workers :
        /\ \A m \in Content(toWorker[w]) :
               m.kind = "NEWJOB" => main = "schedule" /\ next > 1 /\ m.job = next - 1
        /\ comm[w] = "start" =>
               /\ main = "schedule" /\ next > 1
               /\ host[next - 1] = w /\ actualThread[w] \in {NoJob, next - 1}

\* Only the job scheduled last is being refused: it has not been started and
\* never will be.
RefusalsInv ==
    \A w \in Workers : \A m \in Content(toServer[w]) :
        m.kind = "JOBREFUSED" =>
            /\ main = "schedule" /\ NoOrder /\ next > 1
            /\ jobWorker[next - 1] = w /\ ~ Begun(next - 1)

\* A job is being cancelled somewhere between the server and its thread.
KillUnderWay ==
    \/ stopping # {}
    \/ \E w \in Workers : comm[w] \in {"busy", "stop"}
    \/ \E w \in Workers : \E m \in Content(toWorker[w]) : m.kind = "CANCELJOB"
    \/ \E w \in Workers : \E m \in Content(toServer[w]) :
           m.kind = "STATECHANGE" /\ m.state \in {"CANCELLING", "CANCELLED"}
    \/ \E j \in Jobs : thread[j] \in FinallyPhases /\ outcome[j] = "CANCELLED"

\* Meanwhile the server pauses and no worker is about to start a job.
KillsInv == KillUnderWay => main = "schedule" /\ NoOrder

\* The confirmation travels after the worker has stopped executing, and a
\* worker never reports that its job is new.
ConfirmedInv ==
    /\ \A j \in Jobs : thread[j] \in {"clearing", "cleared"} /\ outcome[j] = "CANCELLED"
           => \A k \in Jobs : Executing(k) => host[k] # host[j]
    /\ \A w \in Workers : \A m \in Content(toServer[w]) : m.kind = "STATECHANGE" =>
           /\ m.state # "NEW"
           /\ m.state = "CANCELLED" => \A k \in Jobs : Executing(k) => host[k] # w

\* A job that is cancelled, or new (not yet scheduled, or refused), is neither
\* executing, nor being started, nor on its way to a worker, nor about to be sent.
Withdrawn(j) ==
    /\ ~ Executing(j)
    /\ \A w \in Workers : comm[w] = "start" => actualThread[w] # j
    /\ \A w \in Workers : \A m \in Content(toWorker[w]) : m.kind = "NEWJOB" => m.job # j
    /\ main # "schedule" => j # Scheduled

WithdrawnInv == \A j \in Jobs : csState[j] \in {"NEW", "CANCELLED"} => Withdrawn(j)

CancelInv == HoldersInv /\ OrdersInv /\ RefusalsInv /\ KillsInv /\ ConfirmedInv /\ WithdrawnInv

\* What is known of every reachable state from the proofs without pauses.
KnownInv == TypeInv /\ HandInv /\ ExecutesActual /\ LifeInv

-----------------------------------------------------------------------------
(* What is in a channel.                                                   *)

\* Writing a message adds it.
LEMMA ContentAppend ==
  ASSUME NEW q \in Seq(Message), NEW m \in Message
  PROVE  Content(Append(q, m)) = Content(q) \cup {m}
  <1> DEFINE r == Append(q, m)
  <1>1. Len(q) \in Nat /\ Len(r) = Len(q) + 1 /\ r[Len(q) + 1] = m /\ \A i \in 1 .. Len(q) : r[i] = q[i]
    OBVIOUS
  <1>2. 1 .. Len(r) = (1 .. Len(q)) \cup {Len(q) + 1}
    BY <1>1
  <1> HIDE DEF r
  <1>3. Content(r) = Content(q) \cup {m}
    BY <1>1, <1>2 DEF Content
  <1> QED BY <1>3 DEF r

\* Reading the first message leaves the others.
LEMMA ContentTail ==
  ASSUME NEW q \in Seq(Message), q # <<>>
  PROVE  Content(Tail(q)) \subseteq Content(q) /\ Head(q) \in Content(q)
  <1>1. /\ Len(q) \in Nat /\ Len(q) > 0 /\ Len(Tail(q)) = Len(q) - 1
        /\ \A i \in 1 .. Len(Tail(q)) : Tail(q)[i] = q[i + 1]
        /\ Head(q) = q[1]
    OBVIOUS
  <1>2. \A i \in 1 .. Len(Tail(q)) : i + 1 \in 1 .. Len(q)
    BY <1>1
  <1>3. 1 \in 1 .. Len(q)
    BY <1>1
  <1> QED BY <1>1, <1>2, <1>3 DEF Content

\* Nothing is in a channel that is empty.
LEMMA ContentEmpty == Content(<<>>) = {}
  BY DEF Content

\* What a worker writes is in its channel afterwards, or lost.
LEMMA SendAdds ==
  ASSUME TypeOK, NEW w, NEW m \in Message, Send(w, m),
         NEW v \in Workers, NEW n \in Content(toServer'[v])
  PROVE  n \in Content(toServer[v]) \/ (n = m /\ v = w)
  <1>1. CASE w \in reading /\ v = w
    <2>1. toServer'[v] = Append(toServer[v], m)
      BY <1>1 DEF Send, TypeOK
    <2> QED BY <1>1, <2>1, ContentAppend DEF TypeOK
  <1>2. CASE ~ (w \in reading /\ v = w)
    <2>1. toServer'[v] = toServer[v]
      BY <1>2 DEF Send, TypeOK
    <2> QED BY <2>1
  <1> QED BY <1>1, <1>2

\* What a worker reads was in its channel, and nothing comes instead.
LEMMA TakeRemoves ==
  ASSUME TypeOK, NEW w \in Workers, NEW k, Take(w, k)
  PROVE  /\ \A v \in Workers : Content(toWorker'[v]) \subseteq Content(toWorker[v])
         /\ Head(toWorker[w]) \in Content(toWorker[w]) /\ Head(toWorker[w]).kind = k
  <1>1. /\ toWorker[w] \in Seq(Message) /\ toWorker[w] # <<>>
        /\ Head(toWorker[w]).kind = k
        /\ \A v \in Workers : toWorker'[v] = IF v = w THEN Tail(toWorker[w]) ELSE toWorker[v]
    BY DEF Take, TypeOK
  <1> QED BY <1>1, ContentTail

\* So it is for the server.
LEMMA ReceiveRemoves ==
  ASSUME TypeOK, NEW w \in Workers, NEW k, Receive(w, k)
  PROVE  /\ \A v \in Workers : Content(toServer'[v]) \subseteq Content(toServer[v])
         /\ Head(toServer[w]) \in Content(toServer[w]) /\ Head(toServer[w]).kind = k
  <1>1. /\ toServer[w] \in Seq(Message) /\ toServer[w] # <<>>
        /\ Head(toServer[w]).kind = k
        /\ \A v \in Workers : toServer'[v] = IF v = w THEN Tail(toServer[w]) ELSE toServer[v]
    BY DEF Receive, TypeOK
  <1> QED BY <1>1, ContentTail

\* A lost connection loses what is on it.
LEMMA DisconnectRemoves ==
  ASSUME TypeOK, NEW w \in Workers, Disconnect(w)
  PROVE  \A v \in Workers : /\ Content(toServer'[v]) \subseteq Content(toServer[v])
                            /\ Content(toWorker'[v]) \subseteq Content(toWorker[v])
  <1>1. \A v \in Workers : /\ toServer'[v] = IF v = w THEN <<>> ELSE toServer[v]
                           /\ toWorker'[v] = IF v = w THEN <<>> ELSE toWorker[v]
    BY DEF Disconnect, TypeOK
  <1> QED BY <1>1, ContentEmpty

\* A job's change of state writes nothing but CANCELJOB, and that only when
\* the job is being cancelled.
LEMMA SetJobStateAdds ==
  ASSUME TypeOK, NEW t, NEW j, NEW s, NEW rest, SetJobState(t, j, s, rest),
         NEW v \in Workers, NEW m \in Content(toWorker'[v])
  PROVE  m \in Content(toWorker[v]) \/ (m = Msg("CANCELJOB") /\ s = "CANCELLING")
  <1>0. Msg("CANCELJOB") \in Message
    BY JobStatesClosed DEF Kinds
  <1>1. CASE s = "CANCELLING" /\ toWorker' = [toWorker EXCEPT ![jobWorker[j]] = Append(@, Msg("CANCELJOB"))]
    <2>1. toWorker'[v] = toWorker[v] \/ toWorker'[v] = Append(toWorker[v], Msg("CANCELJOB"))
      BY <1>1 DEF TypeOK
    <2> QED BY <1>0, <1>1, <2>1, ContentAppend DEF TypeOK
  <1>2. CASE toWorker' = toWorker
    BY <1>2
  <1> QED BY <1>1, <1>2 DEF SetJobState

-----------------------------------------------------------------------------
(* What one step does.                                                     *)

\* The server reads a state from a message: it may write to its workers, and
\* nothing but CANCELJOB, when it is told that a job is being cancelled.
LEMMA ReaderMail ==
  ASSUME TypeOK, NEW w \in Workers, ReaderThread(w), NEW v \in Workers, NEW m \in Content(toWorker'[v])
  PROVE  m \in Content(toWorker[v]) \/ (m = Msg("CANCELJOB") /\ KillUnderWay)
  <1>1. CASE UNCHANGED toWorker
    BY <1>1
  <1>2. CASE HandleStateChange(w) /\ SetJobState(Reader(w), wdJob[w], Head(toServer[w]).state, <<>>)
    <2>1. Receive(w, "STATECHANGE")
      BY <1>2 DEF HandleStateChange
    <2>2. Head(toServer[w]) \in Content(toServer[w]) /\ Head(toServer[w]).kind = "STATECHANGE"
      BY <2>1, ReceiveRemoves
    <2> QED BY <1>2, <2>2, SetJobStateAdds DEF KillUnderWay
  <1>3. ASSUME NEW s \in {"INITIALIZING", "NEW"}, SetJobState(Reader(w), wdJob[w], s, <<>>) PROVE m \in Content(toWorker[v])
    <2>1. s # "CANCELLING"
      OBVIOUS
    <2> QED BY <1>3, <2>1, SetJobStateAdds
  <1> QED
    BY <1>1, <1>2, <1>3
    DEF ReaderThread, HandleJobFinished, HandleStateChange, HandleJobAccepted, HandleJobRefused, HandleReply,
        UnchangedJobs

\* A message to a worker was on its way, is the order that run sends, or is a
\* CANCELJOB that a CANCELLING or the user asks for.
LEMMA WorkerMail ==
  ASSUME Timely, TypeInv, [Next]_vars, NEW v \in Workers, NEW m \in Content(toWorker'[v])
  PROVE  \/ m \in Content(toWorker[v])
         \/ SendJob /\ v = jobWorker[Scheduled] /\ m = NewJob(Scheduled)
         \/ m = Msg("CANCELJOB") /\ (KillUnderWay \/ \E j \in Jobs : Cancel(j))
  <1>0. TypeOK
    BY DEF TypeInv
  <1>1. CASE UNCHANGED toWorker
    BY <1>1
  <1>2. CASE SendJob
    <2>1. Scheduled \in Jobs
      BY <1>2, ScheduledType DEF SendJob
    <2>2. NewJob(Scheduled) \in Message
      BY <2>1, JobStatesClosed
    <2>3. \/ toWorker'[v] = toWorker[v]
          \/ v = jobWorker[Scheduled] /\ toWorker'[v] = Append(toWorker[v], NewJob(Scheduled))
      BY <1>0, <1>2 DEF SendJob, TypeOK
    <2>4. toWorker[v] \in Seq(Message)
      BY <1>0 DEF TypeOK
    <2>5. Content(Append(toWorker[v], NewJob(Scheduled))) = Content(toWorker[v]) \cup {NewJob(Scheduled)}
      BY <2>2, <2>4, ContentAppend
    <2> QED BY <1>2, <2>3, <2>5
  <1>3. ASSUME NEW w \in Workers, ReaderThread(w) PROVE m \in Content(toWorker[v]) \/ (m = Msg("CANCELJOB") /\ KillUnderWay)
    BY <1>0, <1>3, ReaderMail
  <1>4. ASSUME NEW w \in Workers, Disconnect(w) PROVE m \in Content(toWorker[v])
    BY <1>0, <1>4, DisconnectRemoves
  <1>5. ASSUME NEW w \in Workers, NEW k, Take(w, k) PROVE m \in Content(toWorker[v])
    BY <1>0, <1>5, TakeRemoves
  <1>6. ASSUME NEW j \in Jobs, Cancel(j) PROVE m \in Content(toWorker[v]) \/ m = Msg("CANCELJOB")
    <2>1. \E k, s : SetJobState(GuiThread, k, s, <<>>)
      BY <1>6 DEF Cancel
    <2> QED BY <1>0, <2>1, SetJobStateAdds
  <1>7. CASE \E w \in Workers : \/ Connect(w) \/ Schedule(w) \/ StartThread(w) \/ KillThread(w) \/ StopThread(w)
                                \/ \E j \in Jobs : ObserveJob(w, j)
    BY <1>1, <1>7 DEF Connect, Schedule, StartThread, KillThread, StopThread, ObserveJob, chanVars
  <1>8. CASE Check \/ Attach \/ UNCHANGED vars
    BY <1>1, <1>8 DEF Check, Attach, vars, chanVars
  <1>9. CASE \E j \in Jobs : JobThread(j) \/ Throw(j)
    BY <1>1, <1>9 DEF JobThread, StartParsing, StartRunning, StartMetrics, Advance, Succeed, Throw, RaiseKill,
                      ClearJob, ClearThread, ReportOutcome, NotifyFinished, ThreadUnchanged
  <1> QED
    BY <1>2, <1>3, <1>4, <1>5, <1>6, <1>7, <1>8, <1>9, TimelyNext
    DEF Main, Communicator, HandleNewJob, HandleCancelJob

\* What a job thread reports is among its messages afterwards, or lost.
LEMMA ReportAdds ==
  ASSUME TypeOK, NEW w, NEW j, NEW s \in JobStates, Report(w, j, s),
         NEW v \in Workers, NEW n \in Content(toServer'[v])
  PROVE  n \in Content(toServer[v]) \/ (n = StateChange(s) /\ v = w)
  BY SendAdds, JobStatesClosed DEF Report

\* What a worker may write to the server, and when.
Written(w, m) ==
    \/ m.kind \in {"JOBACCEPTED", "JOBFINISHED"}
    \/ m.kind = "JOBREFUSED" /\ HandleNewJob(w) /\ actualJob[w] # NoJob
    \/ m.kind = "STATECHANGE" /\ m.state \in {"PARSING", "RUNNING", "CALCULATING_METRICS"}
    \/ m.kind = "STATECHANGE" /\ m.state = "CANCELLING" /\ KillThread(w)
    \/ \E j \in Jobs : /\ m.kind = "STATECHANGE" /\ m.state = outcome[j]
                        /\ ReportOutcome(j) /\ host[j] = w

\* A message to the server was on its way or is one of those.
LEMMA ServerMail ==
  ASSUME Timely, TypeInv, [Next]_vars, NEW v \in Workers, NEW m \in Content(toServer'[v])
  PROVE  m \in Content(toServer[v]) \/ Written(v, m)
  <1>0. TypeOK
    BY DEF TypeInv
  <1>1. CASE UNCHANGED toServer
    BY <1>1
  <1>2. ASSUME NEW w \in Workers, ReaderThread(w) PROVE m \in Content(toServer[v])
    <2>1. \E k : Receive(w, k)
      BY <1>2 DEF ReaderThread, HandleJobFinished, HandleStateChange, HandleJobAccepted, HandleJobRefused, HandleReply
    <2> QED BY <1>0, <2>1, ReceiveRemoves
  <1>3. ASSUME NEW w \in Workers, Disconnect(w) PROVE m \in Content(toServer[v])
    BY <1>0, <1>3, DisconnectRemoves
  <1>4. ASSUME NEW w \in Workers, HandleNewJob(w) PROVE m \in Content(toServer[v]) \/ Written(v, m)
    <2>1. Msg("JOBACCEPTED") \in Message /\ Msg("JOBREFUSED") \in Message
      BY JobStatesClosed DEF Kinds
    <2>2. CASE actualJob[w] = NoJob
      <3>1. Send(w, Msg("JOBACCEPTED"))
        BY <1>4, <2>2 DEF HandleNewJob
      <3> QED BY <1>0, <2>1, <3>1, SendAdds DEF Written, Msg
    <2>3. CASE actualJob[w] # NoJob
      <3>1. Send(w, Msg("JOBREFUSED"))
        BY <1>4, <2>3 DEF HandleNewJob
      <3> QED BY <1>0, <1>4, <2>1, <2>3, <3>1, SendAdds DEF Written, Msg
    <2> QED BY <2>2, <2>3
  <1>5. ASSUME NEW w \in Workers, KillThread(w) PROVE m \in Content(toServer[v]) \/ Written(v, m)
    <2>1. UNCHANGED toServer \/ Report(w, actualJob[w], "CANCELLING")
      BY <1>5 DEF KillThread
    <2>2. "CANCELLING" \in JobStates
      BY DEF JobStates, PredefinedStates
    <2> QED BY <1>0, <1>5, <2>1, <2>2, ReportAdds DEF Written, StateChange
  <1>6. ASSUME NEW j \in Jobs, StartParsing(j) \/ StartRunning(j) \/ StartMetrics(j)
        PROVE  m \in Content(toServer[v]) \/ Written(v, m)
    <2>1. \E s \in {"PARSING", "RUNNING", "CALCULATING_METRICS"} : Report(host[j], j, s) \/ UNCHANGED toServer
      BY <1>6 DEF StartParsing, StartRunning, StartMetrics, Advance
    <2>2. {"PARSING", "RUNNING", "CALCULATING_METRICS"} \subseteq JobStates
      BY DEF JobStates, PredefinedStates
    <2> QED BY <1>0, <2>1, <2>2, ReportAdds DEF Written, StateChange
  <1>7. ASSUME NEW j \in Jobs, ReportOutcome(j) PROVE m \in Content(toServer[v]) \/ Written(v, m)
    <2>1. UNCHANGED toServer \/ Report(host[j], j, outcome[j])
      BY <1>7 DEF ReportOutcome
    <2>2. outcome[j] \in JobStates
      BY <1>0, JobStatesClosed DEF TypeOK
    <2> QED BY <1>0, <1>7, <2>1, <2>2, ReportAdds DEF Written, StateChange
  <1>8. ASSUME NEW j \in Jobs, NotifyFinished(j) PROVE m \in Content(toServer[v]) \/ Written(v, m)
    <2>1. Send(host[j], Msg("JOBFINISHED")) /\ Msg("JOBFINISHED") \in Message
      BY <1>8, JobStatesClosed DEF NotifyFinished, Kinds
    <2> QED BY <1>0, <2>1, SendAdds DEF Written, Msg
  <1>9. CASE \E w \in Workers : \/ Connect(w) \/ Schedule(w) \/ StartThread(w) \/ HandleCancelJob(w) \/ StopThread(w)
                                \/ \E j \in Jobs : ObserveJob(w, j)
    BY <1>1, <1>9 DEF Connect, Schedule, StartThread, HandleCancelJob, StopThread, ObserveJob, chanVars
  <1>10. CASE Check \/ Attach \/ SendJob \/ UNCHANGED vars
    BY <1>1, <1>10 DEF Check, Attach, SendJob, vars, chanVars
  <1>11. CASE \E j \in Jobs : Succeed(j) \/ Throw(j) \/ RaiseKill(j) \/ ClearJob(j) \/ ClearThread(j) \/ Cancel(j)
    BY <1>1, <1>11 DEF Succeed, Throw, RaiseKill, ClearJob, ClearThread, Cancel
  <1> QED
    BY <1>2, <1>3, <1>4, <1>5, <1>6, <1>7, <1>8, <1>9, <1>10, <1>11, TimelyNext DEF Main, Communicator, JobThread

\* Only schedule makes the server stop pausing, and only it chooses a job.
LEMMA MainStep ==
  ASSUME Timely, TypeInv, [Next]_vars
  PROVE  \/ \E w \in Workers : Schedule(w)
         \/ UNCHANGED <<next, jobWorker>> /\ (main = "schedule" => main' = "schedule")
  <1>1. CASE Main
    BY <1>1 DEF Main, Check, Attach, SendJob, csVars
  <1>2. CASE \E w \in Workers : ReaderThread(w)
    BY <1>2 DEF ReaderThread, HandleJobFinished, HandleStateChange, HandleJobAccepted, HandleJobRefused,
                HandleReply, Receive, schedVars
  <1>3. CASE \E w \in Workers : Communicator(w)
    BY <1>3 DEF Communicator, HandleNewJob, StartThread, ObserveJob, HandleCancelJob, KillThread, StopThread, Take,
                csVars, schedVars
  <1>4. CASE \E w \in Workers : Connect(w) \/ Disconnect(w)
    BY <1>4 DEF Connect, Disconnect
  <1>5. CASE \E j \in Jobs : JobThread(j) \/ Throw(j)
    BY <1>5 DEF JobThread, StartParsing, StartRunning, StartMetrics, Advance, Succeed, Throw, RaiseKill,
                ClearJob, ClearThread, ReportOutcome, NotifyFinished, ThreadUnchanged, csVars, schedVars
  <1>6. CASE \E j \in Jobs : Cancel(j)
    BY <1>6 DEF Cancel, schedVars
  <1>7. CASE UNCHANGED vars
    BY <1>7 DEF vars, csVars, schedVars
  <1> QED BY <1>1, <1>2, <1>3, <1>4, <1>5, <1>6, <1>7, TimelyNext

\* Only a start makes a job execute, and only NEWJOB gives it a process.
LEMMA ExecutionStep ==
  ASSUME Timely, TypeInv, [Next]_vars, NEW j \in Jobs
  PROVE  \/ \E w \in Workers : StartThread(w) /\ actualThread[w] = j
         \/ \E w \in Workers : HandleNewJob(w) /\ Head(toWorker[w]).job = j
         \/ Executing(j)' => Executing(j) /\ host'[j] = host[j]
  <1>0. TypeOK
    BY DEF TypeInv
  <1> USE DEF Executing, TryPhases
  <1> DEFINE Kept == Executing(j)' => Executing(j) /\ host'[j] = host[j]
  <1>1. ASSUME UNCHANGED <<thread, host>> PROVE Kept
    BY <1>1
  <1>2. ASSUME NEW w \in Workers, HandleNewJob(w), Head(toWorker[w]).job # j PROVE Kept
    <2>1. /\ UNCHANGED thread
          /\ UNCHANGED host \/ host' = [host EXCEPT ![Head(toWorker[w]).job] = w]
      BY <1>2 DEF HandleNewJob
    <2> QED BY <1>0, <1>2, <2>1 DEF TypeOK
  <1>3. ASSUME NEW w \in Workers, StartThread(w), actualThread[w] # j PROVE Kept
    <2>1. /\ UNCHANGED host
          /\ UNCHANGED thread \/ thread' = [thread EXCEPT ![actualThread[w]] = "ready"]
      BY <1>3 DEF StartThread
    <2> QED BY <1>0, <1>3, <2>1 DEF TypeOK
  <1>4. ASSUME NEW k \in Jobs, JobThread(k) \/ Throw(k) PROVE Kept
    <2>1. host' = host
      BY <1>4 DEF JobThread, StartParsing, StartRunning, StartMetrics, Advance, Succeed, Throw, RaiseKill,
                  ClearJob, ClearThread, ReportOutcome, NotifyFinished, ThreadUnchanged
    <2>2. CASE j # k
      <3>1. thread'[j] = thread[j]
        BY <1>0, <1>4, <2>2 DEF JobThread, StartParsing, StartRunning, StartMetrics, Advance, Succeed, Throw,
                  RaiseKill, ClearJob, ClearThread, ReportOutcome, NotifyFinished, EndTry, TypeOK
      <3> QED BY <2>1, <3>1
    <2>3. CASE j = k
      <3>1. CASE StartParsing(j) \/ StartRunning(j) \/ StartMetrics(j) \/ Succeed(j) \/ Throw(j)
        BY <1>0, <2>1, <3>1 DEF StartParsing, StartRunning, StartMetrics, Advance, Succeed, Throw, EndTry, TypeOK
      <3>2. CASE RaiseKill(j)
        BY <1>0, <2>1, <3>2 DEF RaiseKill, EndTry, TypeOK
      <3>3. CASE ClearJob(j) \/ ClearThread(j) \/ ReportOutcome(j) \/ NotifyFinished(j)
        BY <1>0, <2>1, <3>3 DEF ClearJob, ClearThread, ReportOutcome, NotifyFinished, TypeOK
      <3> QED BY <1>4, <2>3, <3>1, <3>2, <3>3 DEF JobThread
    <2> QED BY <2>2, <2>3
  <1>5. ASSUME NEW w \in Workers, CrashWorker(w) PROVE Kept
    BY <1>5 DEF CrashWorker
  <1>6. ASSUME UNCHANGED workerVars PROVE Kept
    BY <1>1, <1>6 DEF workerVars, threadVars
  <1>7. CASE Main \/ UNCHANGED vars
    BY <1>6, <1>7 DEF Main, Schedule, Check, Attach, SendJob, vars
  <1>8. ASSUME NEW w \in Workers, ReaderThread(w) \/ Connect(w) \/ AttendanceTimeout(w) \/ LoseConnection(w) PROVE Kept
    BY <1>6, <1>8 DEF ReaderThread, HandleJobFinished, HandleStateChange, HandleJobAccepted, HandleJobRefused,
                      HandleReply, Receive, Connect, AttendanceTimeout, LoseConnection
  <1>9. ASSUME NEW k \in Jobs, Cancel(k) PROVE Kept
    BY <1>6, <1>9 DEF Cancel
  <1>10. ASSUME NEW w \in Workers,
                (\E k \in Jobs : ObserveJob(w, k)) \/ HandleCancelJob(w) \/ KillThread(w) \/ StopThread(w)
         PROVE  Kept
    BY <1>1, <1>10 DEF ObserveJob, HandleCancelJob, KillThread, StopThread, threadVars
  <1> QED BY <1>2, <1>3, <1>4, <1>5, <1>7, <1>8, <1>9, <1>10, TimelyNext DEF Communicator

\* Only NEWJOB begins a job, makes its worker start it, or gives that worker a
\* thread to start.
LEMMA BeginStep ==
  ASSUME Timely, TypeInv, [Next]_vars
  PROVE  /\ \A j \in Jobs : Begun(j)' => \/ Begun(j)
                                         \/ \E w \in Workers : HandleNewJob(w) /\ Head(toWorker[w]).job = j
         /\ \A w \in Workers : \/ HandleNewJob(w)
                               \/ /\ actualThread'[w] \in {actualThread[w], NoJob}
                                  /\ comm'[w] = "start" => comm[w] = "start"
  <1>0. TypeOK /\ NoJob \notin Jobs
    BY DEF TypeInv, NoJob, Jobs
  <1> DEFINE Kept == /\ \A j \in Jobs : Begun(j)' => Begun(j)
                     /\ \A w \in Workers : /\ actualThread'[w] \in {actualThread[w], NoJob}
                                           /\ comm'[w] = "start" => comm[w] = "start"
  <1>1. ASSUME NEW w \in Workers, HandleNewJob(w)
        PROVE  /\ \A j \in Jobs : Begun(j)' => Begun(j) \/ Head(toWorker[w]).job = j
               /\ \A v \in Workers : v # w => actualThread'[v] = actualThread[v] /\ comm'[v] = comm[v]
    <2>1. /\ UNCHANGED <<thread, stopping>>
          /\ \/ UNCHANGED <<actualJob, actualThread, host, comm>>
             \/ /\ actualJob' = [actualJob EXCEPT ![w] = Head(toWorker[w]).job]
                /\ actualThread' = [actualThread EXCEPT ![w] = Head(toWorker[w]).job]
                /\ host' = [host EXCEPT ![Head(toWorker[w]).job] = w]
                /\ comm' = [comm EXCEPT ![w] = "start"]
      BY <1>1 DEF HandleNewJob
    <2>2. ASSUME NEW j \in Jobs, Head(toWorker[w]).job # j, Begun(j)' PROVE Begun(j)
      BY <1>0, <2>1, <2>2 DEF Begun, TypeOK
    <2> QED BY <1>0, <2>1, <2>2 DEF TypeOK
  <1>2. ASSUME NEW w \in Workers, StartThread(w) PROVE Kept
    <2>1. /\ UNCHANGED <<actualJob, actualThread, host, stopping>>
          /\ UNCHANGED thread \/ (actualThread[w] # NoJob /\ thread' = [thread EXCEPT ![actualThread[w]] = "ready"])
          /\ comm' = [comm EXCEPT ![w] = "read"] \/ comm' = [comm EXCEPT ![w] = "observe"]
      BY <1>2 DEF StartThread
    <2>2. ASSUME NEW j \in Jobs, Begun(j)' PROVE Begun(j)
      BY <1>0, <2>1, <2>2 DEF Begun, TypeOK
    <2> QED BY <1>0, <2>1, <2>2 DEF TypeOK
  <1>3. ASSUME NEW w \in Workers, (\E k \in Jobs : ObserveJob(w, k)) \/ HandleCancelJob(w) \/ KillThread(w) PROVE Kept
    <2>1. /\ UNCHANGED <<actualJob, actualThread, host, stopping, thread>>
          /\ UNCHANGED comm \/ \E s \in {"read", "busy", "died", "stop"} : comm' = [comm EXCEPT ![w] = s]
      BY <1>0, <1>3 DEF ObserveJob, HandleCancelJob, KillThread, threadVars, TypeOK
    <2> QED BY <1>0, <2>1 DEF Begun, TypeOK
  <1>4. ASSUME NEW w \in Workers, StopThread(w) PROVE Kept
    <2>1. /\ UNCHANGED <<actualJob, actualThread, host, thread>>
          /\ stopping' = stopping \/ (actualThread[w] # NoJob /\ stopping' = stopping \cup {actualThread[w]})
          /\ \E s \in {"read", "died"} : comm' = [comm EXCEPT ![w] = s]
      BY <1>4 DEF StopThread
    <2> QED BY <1>0, <2>1 DEF Begun, TypeOK
  <1>5. ASSUME NEW k \in Jobs, JobThread(k) \/ Throw(k) PROVE Kept
    <2>1. /\ UNCHANGED <<host, comm>> /\ stopping' \subseteq stopping
          /\ \/ UNCHANGED actualJob
             \/ actualJob' = [actualJob EXCEPT ![host[k]] = NoJob]
          /\ \/ UNCHANGED actualThread
             \/ actualThread' = [actualThread EXCEPT ![host[k]] = NoJob]
          /\ thread[k] # "none" \/ k \in stopping
          /\ \E p : thread' = [thread EXCEPT ![k] = p]
      <3>1. CASE StartParsing(k) \/ StartRunning(k) \/ StartMetrics(k)
        <4>1. \E from, s, to : Advance(k, from, s, to) /\ from # "none"
          BY <3>1 DEF StartParsing, StartRunning, StartMetrics
        <4> QED BY <4>1 DEF Advance, EndTry, ThreadUnchanged
      <3>2. CASE Succeed(k) \/ Throw(k)
        BY <3>2 DEF Succeed, Throw, EndTry, ThreadUnchanged, TryPhases
      <3>3. CASE RaiseKill(k)
        BY <3>3 DEF RaiseKill, EndTry, ThreadUnchanged
      <3>4. CASE ClearJob(k) \/ ClearThread(k) \/ NotifyFinished(k)
        BY <3>4 DEF ClearJob, ClearThread, NotifyFinished, ThreadUnchanged
      <3>5. CASE ReportOutcome(k)
        BY <3>5 DEF ReportOutcome, ThreadUnchanged
      <3> QED BY <1>5, <3>1, <3>2, <3>3, <3>4, <3>5 DEF JobThread
    <2>2. ASSUME NEW j \in Jobs, Begun(j)' PROVE Begun(j)
      BY <1>0, <2>1, <2>2 DEF Begun, TypeOK
    <2> QED BY <1>0, <2>1, <2>2 DEF TypeOK
  <1>6. ASSUME NEW w \in Workers, CrashWorker(w) PROVE Kept
    <2>1. \A j \in Jobs : thread'[j] = IF host[j] = w /\ thread[j] # "done" THEN "died" ELSE thread[j]
      BY <1>6 DEF CrashWorker
    <2>2. /\ \A j \in Jobs : host'[j] = IF host[j] = w THEN NoWorker ELSE host[j]
          /\ stopping' \subseteq stopping
          /\ actualJob' = [actualJob EXCEPT ![w] = NoJob]
          /\ actualThread' = [actualThread EXCEPT ![w] = NoJob]
          /\ comm' = [comm EXCEPT ![w] = "read"]
      BY <1>6 DEF CrashWorker
    <2>3. ASSUME NEW j \in Jobs, Begun(j)' PROVE Begun(j)
      BY <1>0, <2>1, <2>2, <2>3, JobProtocolAssumption DEF Begun, TypeOK
    <2> QED BY <1>0, <2>2, <2>3 DEF TypeOK
  <1>7. ASSUME UNCHANGED workerVars PROVE Kept
    BY <1>7 DEF workerVars, threadVars, Begun
  <1>8. CASE Main \/ UNCHANGED vars
    BY <1>7, <1>8 DEF Main, Schedule, Check, Attach, SendJob, vars
  <1>9. CASE \E w \in Workers : ReaderThread(w) \/ Connect(w) \/ AttendanceTimeout(w) \/ LoseConnection(w)
    BY <1>7, <1>9 DEF ReaderThread, HandleJobFinished, HandleStateChange, HandleJobAccepted, HandleJobRefused,
                      HandleReply, Receive, Connect, AttendanceTimeout, LoseConnection
  <1>10. CASE \E k \in Jobs : Cancel(k)
    BY <1>7, <1>10 DEF Cancel
  <1>11. Kept \/ \E w \in Workers : HandleNewJob(w)
    BY <1>2, <1>3, <1>4, <1>5, <1>6, <1>8, <1>9, <1>10, TimelyNext DEF Communicator
  <1> QED BY <1>1, <1>11

\* The server takes its jobs from workers, and gives them some only in schedule
\* and attach.
LEMMA HeldStep ==
  ASSUME Timely, TypeInv, [Next]_vars, NEW w \in Workers
  PROVE  \/ \E v \in Workers : Schedule(v)
         \/ Attach
         \/ wdJob'[w] \in {wdJob[w], NoJob}
  <1>0. TypeOK
    BY DEF TypeInv
  <1>1. ASSUME NEW t, NEW v, NEW rest, FreeWorker(t, v, rest) PROVE wdJob'[w] \in {wdJob[w], NoJob}
    BY <1>0, <1>1 DEF FreeWorker, TypeOK
  <1>2. ASSUME NEW t, NEW j, NEW s, NEW rest, SetJobState(t, j, s, rest) PROVE wdJob'[w] \in {wdJob[w], NoJob}
    BY <1>1, <1>2 DEF SetJobState
  <1>3. ASSUME NEW v \in Workers, ReaderThread(v) PROVE wdJob'[w] \in {wdJob[w], NoJob}
    <2>1. FreeWorker(Reader(v), v, <<>>) \/ (\E j : \E s : SetJobState(Reader(v), j, s, <<>>)) \/ UnchangedJobs
      BY <1>3 DEF ReaderThread, HandleJobFinished, HandleStateChange, HandleJobAccepted, HandleJobRefused, HandleReply
    <2> QED BY <1>1, <1>2, <2>1 DEF UnchangedJobs
  <1>4. ASSUME NEW j \in Jobs, Cancel(j) PROVE wdJob'[w] \in {wdJob[w], NoJob}
    <2>1. \E k : \E s : SetJobState(GuiThread, k, s, <<>>)
      BY <1>4 DEF Cancel
    <2> QED BY <1>2, <2>1
  <1>5. ASSUME NEW v \in Workers, Connect(v) \/ Disconnect(v) PROVE wdJob'[w] \in {wdJob[w], NoJob}
    BY <1>0, <1>5 DEF Connect, Disconnect, TypeOK
  <1>6. CASE Check \/ SendJob \/ UNCHANGED vars
    BY <1>6 DEF Check, SendJob, vars, csVars
  <1>7. ASSUME NEW v \in Workers, Communicator(v) PROVE wdJob'[w] = wdJob[w]
    BY <1>7 DEF Communicator, HandleNewJob, StartThread, ObserveJob, HandleCancelJob, KillThread, StopThread, Take,
                csVars
  <1>8. ASSUME NEW j \in Jobs, JobThread(j) \/ Throw(j) PROVE wdJob'[w] = wdJob[w]
    BY <1>8 DEF JobThread, StartParsing, StartRunning, StartMetrics, Advance, Succeed, Throw, RaiseKill,
                ClearJob, ClearThread, ReportOutcome, NotifyFinished, ThreadUnchanged, csVars
  <1> QED
    BY <1>3, <1>4, <1>5, <1>6, <1>7, <1>8, TimelyNext DEF Main

\* The worker process that started a job is set by NEWJOB and lost in a crash.
LEMMA HostStep ==
  ASSUME Timely, TypeInv, [Next]_vars, NEW j \in Jobs
  PROVE  \/ host'[j] = host[j]
         \/ \E w \in Workers : CrashWorker(w) /\ host[j] = w /\ host'[j] = NoWorker
         \/ \E w \in Workers : HandleNewJob(w) /\ Head(toWorker[w]).job = j /\ host'[j] = w
  <1>0. TypeOK
    BY DEF TypeInv
  <1>1. ASSUME NEW w \in Workers, HandleNewJob(w)
        PROVE  host'[j] = host[j] \/ (Head(toWorker[w]).job = j /\ host'[j] = w)
    <2>1. host' = [host EXCEPT ![Head(toWorker[w]).job] = w] \/ UNCHANGED host
      BY <1>1 DEF HandleNewJob
    <2> QED BY <1>0, <2>1 DEF TypeOK
  <1>2. ASSUME NEW w \in Workers, CrashWorker(w) PROVE host'[j] = IF host[j] = w THEN NoWorker ELSE host[j]
    BY <1>2 DEF CrashWorker
  <1>3. CASE UNCHANGED host
    BY <1>3
  <1>4. CASE Main \/ UNCHANGED vars
    BY <1>3, <1>4 DEF Main, Schedule, Check, Attach, SendJob, vars, workerVars, threadVars
  <1>5. CASE \E w \in Workers : ReaderThread(w) \/ Connect(w) \/ AttendanceTimeout(w) \/ LoseConnection(w)
    BY <1>3, <1>5 DEF ReaderThread, HandleJobFinished, HandleStateChange, HandleJobAccepted, HandleJobRefused,
                      HandleReply, Receive, Connect, AttendanceTimeout, LoseConnection, workerVars, threadVars
  <1>6. CASE \E w \in Workers : \/ \E k \in Jobs : ObserveJob(w, k)
                                \/ StartThread(w) \/ HandleCancelJob(w) \/ KillThread(w) \/ StopThread(w)
    BY <1>3, <1>6 DEF StartThread, ObserveJob, HandleCancelJob, KillThread, StopThread, threadVars
  <1>7. CASE \E k \in Jobs : JobThread(k) \/ Throw(k) \/ Cancel(k)
    BY <1>3, <1>7 DEF JobThread, StartParsing, StartRunning, StartMetrics, Advance, Succeed, Throw, RaiseKill,
                      ClearJob, ClearThread, ReportOutcome, NotifyFinished, ThreadUnchanged, Cancel, workerVars,
                      threadVars
  <1> QED BY <1>1, <1>2, <1>4, <1>5, <1>6, <1>7, TimelyNext DEF Communicator

\* The job scheduled last has a worker.
LEMMA LastHasWorker ==
  ASSUME TypeOK, LifeInv, next > 1
  PROVE  next - 1 \in Jobs /\ jobWorker[next - 1] \in Workers
  <1>1. next - 1 \in Jobs /\ next - 1 < next
    BY JobProtocolAssumption DEF TypeOK, Jobs
  <1> QED BY <1>1 DEF TypeOK, LifeInv

\* Where jobs are stays where the Scheduler sent them.
LEMMA HoldersStep ==
  ASSUME Timely, TypeInv, LifeInv, LifeInv', HoldersInv, [Next]_vars
  PROVE  HoldersInv'
  <1>0. TypeOK /\ next \in Nat /\ NoJob \notin Jobs /\ \A j \in Jobs : j \in Nat
    BY JobProtocolAssumption DEF TypeInv, TypeOK, NoJob, Jobs
  <1>1. ASSUME NEW w \in Workers, Schedule(w) PROVE HoldersInv'
    <2>1. /\ next \in Jobs /\ next' = next + 1 /\ next' - 1 = next
          /\ \A k \in Jobs : jobWorker'[k] = IF k = next THEN w ELSE jobWorker[k]
          /\ \A v \in Workers : wdJob'[v] = IF v = w THEN next ELSE wdJob[v]
          /\ UNCHANGED <<toWorker, host>>
      BY <1>0, <1>1 DEF Schedule, EmployWorker, TypeOK, chanVars, workerVars, threadVars
    <2>2. \A k \in Jobs : jobWorker[k] \in Workers => k # next
      BY <1>0, JobProtocolAssumption DEF LifeInv
    <2>3. ASSUME NEW v \in Workers, wdJob'[v] # NoJob PROVE jobWorker'[wdJob'[v]] = v
      <3>1. CASE v = w
        BY <2>1, <3>1
      <3>2. CASE v # w
        <4>1. wdJob'[v] = wdJob[v] /\ wdJob[v] \in Jobs /\ jobWorker[wdJob[v]] = v
          BY <1>0, <2>1, <2>3, <3>2 DEF TypeOK, HoldersInv
        <4> QED BY <2>1, <2>2, <4>1
      <3> QED BY <3>1, <3>2
    <2>4. wdJob'[jobWorker'[next' - 1]] \in {NoJob, next' - 1}
      BY <2>1
    <2>5. ASSUME NEW v \in Workers, NEW m \in Content(toWorker'[v]), m.kind = "NEWJOB"
          PROVE  m.job \in Jobs /\ jobWorker'[m.job] = v
      BY <2>1, <2>2, <2>5 DEF HoldersInv
    <2>6. ASSUME NEW j \in Jobs, host'[j] # NoWorker PROVE host'[j] = jobWorker'[j]
      BY <1>0, <2>1, <2>2, <2>6 DEF HoldersInv, TypeOK
    <2> QED BY <2>3, <2>4, <2>5, <2>6 DEF HoldersInv
  <1>2. ASSUME UNCHANGED <<next, jobWorker>> PROVE HoldersInv'
    <2>1. ASSUME NEW v \in Workers, NEW m \in Content(toWorker'[v]), m.kind = "NEWJOB"
          PROVE  m.job \in Jobs /\ jobWorker'[m.job] = v
      <3>1. CASE m \in Content(toWorker[v])
        BY <1>2, <2>1, <3>1 DEF HoldersInv
      <3>2. CASE SendJob /\ v = jobWorker[Scheduled] /\ m = NewJob(Scheduled)
        <4>1. Scheduled \in Jobs
          BY <3>2, ScheduledType DEF SendJob
        <4> QED BY <1>2, <3>2, <4>1 DEF NewJob
      <3>3. CASE m = Msg("CANCELJOB")
        BY <2>1, <3>3 DEF Msg
      <3> QED BY <3>1, <3>2, <3>3, WorkerMail
    <2>2. ASSUME NEW j \in Jobs, host'[j] # NoWorker PROVE host'[j] = jobWorker'[j]
      <3>1. CASE host'[j] = host[j]
        BY <1>2, <2>2, <3>1 DEF HoldersInv
      <3>3. ASSUME NEW w \in Workers, CrashWorker(w), host'[j] = NoWorker
            PROVE  host'[j] = jobWorker'[j]
        BY <2>2, <3>3
      <3>2. ASSUME NEW w \in Workers, HandleNewJob(w), Head(toWorker[w]).job = j, host'[j] = w
            PROVE  host'[j] = jobWorker'[j]
        <4>1. Head(toWorker[w]) \in Content(toWorker[w]) /\ Head(toWorker[w]).kind = "NEWJOB"
          BY <1>0, <3>2, TakeRemoves DEF HandleNewJob
        <4> QED BY <1>2, <3>2, <4>1 DEF HoldersInv
      <3> QED BY <3>1, <3>2, <3>3, HostStep
    <2>3. CASE Attach
      <3>1. /\ Scheduled \in Jobs /\ jobWorker[Scheduled] \in Workers /\ Scheduled = next - 1
            /\ \A v \in Workers : wdJob'[v] = IF v = jobWorker[Scheduled] THEN Scheduled ELSE wdJob[v]
        BY <1>0, <2>3, LastHasWorker DEF Attach, EmployWorker, TypeInv, MainHasJob, TypeOK, Scheduled
      <3>2. \A v \in Workers : wdJob'[v] # NoJob => jobWorker[wdJob'[v]] = v
        BY <3>1 DEF HoldersInv
      <3>3. wdJob'[jobWorker[next - 1]] \in {NoJob, next - 1}
        BY <3>1
      <3> QED BY <1>2, <2>1, <2>2, <3>2, <3>3 DEF HoldersInv
    <2>4. CASE \A v \in Workers : wdJob'[v] \in {wdJob[v], NoJob}
      <3>1. \A v \in Workers : wdJob'[v] # NoJob => jobWorker[wdJob'[v]] = v
        BY <2>4 DEF HoldersInv
      <3>2. next > 1 => wdJob'[jobWorker[next - 1]] \in {NoJob, next - 1}
        BY <1>0, <2>4, LastHasWorker DEF HoldersInv
      <3> QED BY <1>2, <2>1, <2>2, <3>1, <3>2 DEF HoldersInv
    <2>5. CASE \E w \in Workers : Schedule(w)
      BY <1>1, <2>5
    <2> QED BY <2>3, <2>4, <2>5, HeldStep
  <1> QED BY <1>1, <1>2, MainStep

\* A job comes to be killed because it was being killed before or because the
\* user cancels one: one case per action.
LEMMA KillStep ==
  ASSUME Timely, TypeInv, [Next]_vars, KillUnderWay'
  PROVE  KillUnderWay \/ \E j \in Jobs : Cancel(j)
  <1>0. TypeOK
    BY DEF TypeInv
  <1>1. ASSUME NEW v \in Workers, NEW m \in Content(toWorker'[v]), m.kind = "CANCELJOB"
        PROVE  KillUnderWay \/ \E j \in Jobs : Cancel(j)
    BY <1>1, WorkerMail DEF KillUnderWay, NewJob
  <1>2. ASSUME NEW v \in Workers, NEW m \in Content(toServer'[v]),
               m.kind = "STATECHANGE", m.state \in {"CANCELLING", "CANCELLED"}
        PROVE  KillUnderWay
    <2>1. CASE m \in Content(toServer[v])
      BY <1>2, <2>1 DEF KillUnderWay
    <2>2. CASE KillThread(v)
      BY <2>2 DEF KillThread, KillUnderWay
    <2>3. CASE m.state = "CANCELLED" /\ \E j \in Jobs : m.state = outcome[j] /\ ReportOutcome(j)
      BY <2>3 DEF ReportOutcome, KillUnderWay, FinallyPhases
    <2>4. CASE m.state = "CANCELLING" /\ \E j \in Jobs : m.state = outcome[j]
      BY <1>0, <2>4 DEF TypeOK, FinalStates
    <2> QED BY <1>2, <2>1, <2>2, <2>3, <2>4, ServerMail DEF Written
  <1>3. ASSUME NEW v \in Workers, comm'[v] \in {"busy", "stop"} PROVE KillUnderWay
    <2>1. CASE comm[v] \in {"busy", "stop"}
      BY <2>1 DEF KillUnderWay
    <2>2. ASSUME NEW w \in Workers, HandleCancelJob(w) PROVE KillUnderWay
      <3>1. Head(toWorker[w]) \in Content(toWorker[w]) /\ Head(toWorker[w]).kind = "CANCELJOB"
        BY <1>0, <2>2, TakeRemoves DEF HandleCancelJob
      <3> QED BY <3>1 DEF KillUnderWay
    <2>3. CASE UNCHANGED comm
      BY <1>3, <2>1, <2>3
    <2>4. ASSUME NEW w \in Workers, \/ HandleNewJob(w) \/ StartThread(w) \/ StopThread(w) \/ CrashWorker(w)
                                     \/ \E k \in Jobs : ObserveJob(w, k)
          PROVE  KillUnderWay
      <3>1. comm[v] \in {"busy", "stop"}
        BY <1>0, <1>3, <2>4 DEF HandleNewJob, StartThread, ObserveJob, StopThread, CrashWorker, TypeOK
      <3> QED BY <2>1, <3>1
    <2>8. ASSUME NEW w \in Workers, KillThread(w) PROVE KillUnderWay
      BY <2>8 DEF KillThread, KillUnderWay
    <2>5. CASE Main \/ UNCHANGED vars
      BY <2>3, <2>5 DEF Main, Schedule, Check, Attach, SendJob, vars, workerVars
    <2>6. CASE \E w \in Workers : ReaderThread(w) \/ Connect(w) \/ AttendanceTimeout(w) \/ LoseConnection(w)
      BY <2>3, <2>6 DEF ReaderThread, HandleJobFinished, HandleStateChange, HandleJobAccepted, HandleJobRefused,
                        HandleReply, Receive, Connect, AttendanceTimeout, LoseConnection, workerVars
    <2>7. CASE \E k \in Jobs : JobThread(k) \/ Throw(k) \/ Cancel(k)
      BY <2>3, <2>7 DEF JobThread, StartParsing, StartRunning, StartMetrics, Advance, Succeed, Throw, RaiseKill,
                        ClearJob, ClearThread, ReportOutcome, NotifyFinished, ThreadUnchanged, Cancel, workerVars
    <2> QED BY <2>2, <2>4, <2>5, <2>6, <2>7, <2>8, TimelyNext DEF Communicator
  <1>4. CASE stopping' # {} \/ \E j \in Jobs : thread'[j] \in FinallyPhases /\ outcome'[j] = "CANCELLED"
    <2>1. CASE UNCHANGED <<stopping, thread, outcome>>
      BY <1>4, <2>1 DEF KillUnderWay
    <2>2. ASSUME NEW w \in Workers, StopThread(w) PROVE KillUnderWay
      BY <2>2 DEF StopThread, KillUnderWay
    <2>3. ASSUME NEW k \in Jobs, RaiseKill(k) PROVE KillUnderWay
      BY <2>3 DEF RaiseKill, KillUnderWay
    <2>4. ASSUME NEW w \in Workers, HandleNewJob(w) \/ StartThread(w) PROVE KillUnderWay
      <3>1. /\ UNCHANGED <<stopping, outcome>>
            /\ UNCHANGED thread \/ thread' = [thread EXCEPT ![actualThread[w]] = "ready"]
        BY <2>4 DEF HandleNewJob, StartThread
      <3> QED BY <1>0, <1>4, <2>1, <3>1 DEF TypeOK, KillUnderWay, FinallyPhases
    <2>5. ASSUME NEW w \in Workers, CrashWorker(w) PROVE KillUnderWay
      <3>1. /\ stopping' \subseteq stopping /\ UNCHANGED outcome
            /\ \A j \in Jobs : thread'[j] \in {"died", thread[j]}
        BY <2>5 DEF CrashWorker
      <3> QED BY <1>4, <3>1 DEF KillUnderWay, FinallyPhases
    <2>6. ASSUME NEW k \in Jobs,
                 StartParsing(k) \/ StartRunning(k) \/ StartMetrics(k) \/ Succeed(k) \/ Throw(k)
          PROVE  KillUnderWay
      <3>1. /\ UNCHANGED stopping
            /\ \A j \in Jobs : j # k => thread'[j] = thread[j] /\ outcome'[j] = outcome[j]
            /\ thread'[k] \in FinallyPhases => outcome'[k] # "CANCELLED"
        BY <1>0, <2>6 DEF StartParsing, StartRunning, StartMetrics, Advance, Succeed, Throw, EndTry,
                          TypeOK, FinallyPhases
      <3> QED BY <1>4, <3>1 DEF KillUnderWay
    <2>7. ASSUME NEW k \in Jobs, ClearJob(k) \/ ClearThread(k) \/ ReportOutcome(k) \/ NotifyFinished(k)
          PROVE  KillUnderWay
      <3>1. /\ UNCHANGED <<stopping, outcome>> /\ thread[k] \in FinallyPhases
            /\ \A j \in Jobs : j # k => thread'[j] = thread[j]
        BY <1>0, <2>7 DEF ClearJob, ClearThread, ReportOutcome, NotifyFinished, TypeOK, FinallyPhases
      <3> QED BY <1>4, <3>1 DEF KillUnderWay
    <2>8. CASE Main \/ UNCHANGED vars
      BY <2>1, <2>8 DEF Main, Schedule, Check, Attach, SendJob, vars, workerVars, threadVars
    <2>9. CASE \E w \in Workers : ReaderThread(w) \/ Connect(w) \/ AttendanceTimeout(w) \/ LoseConnection(w)
      BY <2>1, <2>9 DEF ReaderThread, HandleJobFinished, HandleStateChange, HandleJobAccepted, HandleJobRefused,
                        HandleReply, Receive, Connect, AttendanceTimeout, LoseConnection, workerVars, threadVars
    <2>10. CASE \E w \in Workers : (\E k \in Jobs : ObserveJob(w, k)) \/ HandleCancelJob(w) \/ KillThread(w)
      BY <2>1, <2>10 DEF ObserveJob, HandleCancelJob, KillThread, threadVars
    <2>11. CASE \E k \in Jobs : Cancel(k)
      BY <2>11
    <2> QED BY <2>2, <2>3, <2>4, <2>5, <2>6, <2>7, <2>8, <2>9, <2>10, <2>11, TimelyNext
           DEF Communicator, JobThread
  <1> QED BY <1>1, <1>2, <1>3, <1>4 DEF KillUnderWay

\* Where the server changes a job's state to NEW or CANCELLED.
LEMMA WithdrawalStep ==
  ASSUME Timely, TypeInv, [Next]_vars, NEW j \in Jobs, csState'[j] \in {"NEW", "CANCELLED"}, csState'[j] # csState[j]
  PROVE  \/ \E w \in Workers : HandleJobRefused(w) /\ wdJob[w] = j
         \/ \E w \in Workers : /\ HandleStateChange(w) /\ wdJob[w] = j
                               /\ Head(toServer[w]).state \in {"NEW", "CANCELLED"}
         \/ Cancel(j) /\ (csState[j] = "NEW" \/ jobWorker[j] = NoWorker)
  <1>0. TypeOK
    BY DEF TypeInv
  <1>1. ASSUME NEW t, NEW k, NEW s, SetJobState(t, k, s, <<>>) PROVE k = j /\ s = csState'[j]
    BY <1>0, <1>1 DEF SetJobState, TypeOK
  <1>2. CASE UNCHANGED csState
    BY <1>2
  <1>3. ASSUME NEW w \in Workers, HandleJobAccepted(w) PROVE FALSE
    <2>1. UNCHANGED csState \/ SetJobState(Reader(w), wdJob[w], "INITIALIZING", <<>>)
      BY <1>3 DEF HandleJobAccepted, HandleReply, UnchangedJobs
    <2> QED BY <1>1, <1>2, <2>1
  <1>4. ASSUME NEW w \in Workers, HandleJobRefused(w) PROVE wdJob[w] = j
    <2>1. UNCHANGED csState \/ SetJobState(Reader(w), wdJob[w], "NEW", <<>>)
      BY <1>4 DEF HandleJobRefused, HandleReply, UnchangedJobs
    <2> QED BY <1>1, <1>2, <2>1
  <1>5. ASSUME NEW w \in Workers, HandleStateChange(w)
        PROVE  wdJob[w] = j /\ Head(toServer[w]).state \in {"NEW", "CANCELLED"}
    <2>1. UNCHANGED csState \/ SetJobState(Reader(w), wdJob[w], Head(toServer[w]).state, <<>>)
      BY <1>5 DEF HandleStateChange, UnchangedJobs
    <2> QED BY <1>1, <1>2, <2>1
  <1>6. ASSUME NEW k \in Jobs, Cancel(k) PROVE k = j /\ (csState[j] = "NEW" \/ jobWorker[j] = NoWorker)
    <2>1. CASE csState[k] = "NEW" \/ jobWorker[k] = NoWorker
      <3>1. SetJobState(GuiThread, k, "CANCELLED", <<>>)
        BY <1>6, <2>1 DEF Cancel
      <3> QED BY <1>1, <2>1, <3>1
    <2>2. CASE ~ (csState[k] = "NEW" \/ jobWorker[k] = NoWorker)
      <3>1. \E i : SetJobState(GuiThread, i, "CANCELLING", <<>>)
        BY <1>6, <2>2 DEF Cancel
      <3> QED BY <1>1, <3>1
    <2> QED BY <2>1, <2>2
  <1>7. ASSUME NEW w \in Workers, Schedule(w) \/ Disconnect(w) PROVE FALSE
    BY <1>0, <1>7 DEF Schedule, Disconnect, TypeOK
  <1>8. CASE Check \/ Attach \/ SendJob \/ UNCHANGED vars
    BY <1>2, <1>8 DEF Check, Attach, SendJob, vars, csVars
  <1>9. CASE \E w \in Workers : HandleJobFinished(w) \/ Communicator(w) \/ Connect(w)
    BY <1>2, <1>9 DEF HandleJobFinished, Communicator, HandleNewJob, StartThread, ObserveJob, HandleCancelJob,
                      KillThread, StopThread, Take, Connect, csVars
  <1>10. CASE \E k \in Jobs : JobThread(k) \/ Throw(k)
    BY <1>2, <1>10 DEF JobThread, StartParsing, StartRunning, StartMetrics, Advance, Succeed, Throw, RaiseKill,
                       ClearJob, ClearThread, ReportOutcome, NotifyFinished, ThreadUnchanged, csVars
  <1> QED
    BY <1>3, <1>4, <1>5, <1>6, <1>7, <1>8, <1>9, <1>10, TimelyNext DEF Main, ReaderThread

-----------------------------------------------------------------------------
(* The parts of the invariant are inductive together, if nobody acts       *)
(* between two steps that follow at once.                                  *)

\* When nothing is under way, no message is and no job is being killed.
LEMMA QuietIsCalm ==
  ASSUME TypeInv, Quiet
  PROVE  /\ main = "schedule" /\ NoOrder /\ ~ KillUnderWay
         /\ \A w \in Workers : Content(toWorker[w]) = {} /\ Content(toServer[w]) = {}
  <1>1. \A w \in Workers : Content(toWorker[w]) = {} /\ Content(toServer[w]) = {}
    BY ContentEmpty DEF Quiet
  <1> QED BY <1>1 DEF Quiet, NoOrder, KillUnderWay, TypeInv, TypeOK

\* Where no job is on its way none is taken or started.
LEMMA NoOrderMeans ==
  ASSUME TypeInv, NoOrder, NEW w \in Workers
  PROVE  ~ HandleNewJob(w) /\ ~ StartThread(w)
  <1>1. ASSUME HandleNewJob(w) PROVE FALSE
    <2>1. Head(toWorker[w]) \in Content(toWorker[w]) /\ Head(toWorker[w]).kind = "NEWJOB"
      BY <1>1, TakeRemoves DEF HandleNewJob, TypeInv
    <2> QED BY <2>1 DEF NoOrder
  <1> QED BY <1>1 DEF StartThread, NoOrder

\* The server sends jobs only where it does not pause.
LEMMA NoOrderStep ==
  ASSUME Timely, TypeInv, [Next]_vars, main = "schedule", NoOrder
  PROVE  NoOrder'
  <1>1. ~ SendJob
    BY DEF SendJob
  <1>2. ASSUME NEW v \in Workers, NEW m \in Content(toWorker'[v]) PROVE m.kind # "NEWJOB"
    BY <1>1, WorkerMail DEF NoOrder, Msg
  <1>3. \A w \in Workers : comm'[w] # "start"
    BY BeginStep, NoOrderMeans DEF NoOrder
  <1> QED BY <1>2, <1>3 DEF NoOrder

\* A job that a worker takes is the only one on its way, and none is being
\* started anywhere: it is the job scheduled last, and has not begun.
LEMMA TakenIsLast ==
  ASSUME TypeInv, HandInv, HoldersInv, OrdersInv, NEW w \in Workers, HandleNewJob(w)
  PROVE  /\ main = "schedule" /\ next > 1 /\ next - 1 \in Jobs
         /\ Head(toWorker[w]).job = next - 1 /\ jobWorker[next - 1] = w /\ ~ Begun(next - 1)
         /\ \A v \in Workers : /\ \A m \in Content(toWorker'[v]) : m.kind # "NEWJOB"
                               /\ comm[v] # "start"
  <1>1. Take(w, "NEWJOB") /\ toWorker[w] \in Seq(Message) /\ toWorker[w] # <<>>
    BY DEF HandleNewJob, Take, TypeInv, TypeOK
  <1>2. Head(toWorker[w]) \in Content(toWorker[w]) /\ Head(toWorker[w]).kind = "NEWJOB"
    BY <1>1, TakeRemoves DEF TypeInv
  <1>3. PICK j \in Jobs : /\ j = Head(toWorker[w]).job /\ jobWorker[j] = w
                          /\ main = "schedule" /\ next > 1 /\ j = next - 1
    BY <1>2 DEF OrdersInv, HoldersInv
  <1>4. 1 \in 1 .. Len(toWorker[w]) /\ InFlight(j, w, 1)
    <2>1. toWorker[w][1] = Head(toWorker[w]) /\ 1 \in 1 .. Len(toWorker[w])
      BY <1>1
    <2> QED BY <1>2, <1>3, <2>1 DEF InFlight
  <1>5. ~ Begun(j)
    BY <1>3, <1>4 DEF HandInv, SentOnce
  <1>6. ASSUME NEW v \in Workers, NEW m \in Content(toWorker'[v]), m.kind = "NEWJOB" PROVE FALSE
    <2> DEFINE d == [u \in Workers |-> IF u = w THEN 1 ELSE 0]
    <2>1. m \in Content(toWorker[v])
      BY <1>1, <1>6, TakeRemoves DEF TypeInv
    <2>2. m.job = j
      BY <1>3, <1>6, <2>1 DEF OrdersInv
    <2>3. PICK i \in 1 .. Len(toWorker'[v]) : toWorker'[v][i] = m
      BY DEF Content
    <2>4. InFlight(j, v, i)'
      BY <1>6, <2>2, <2>3 DEF InFlight
    <2>5. i + d[v] \in 1 .. Len(toWorker[v]) /\ InFlight(j, v, i + d[v])
      BY <1>1, <1>3, <2>4, TakeShifts DEF TypeInv
    <2>6. v = w /\ i + d[v] = 1
      BY <1>3, <1>4, <2>5 DEF HandInv, SentOnce
    <2> QED BY <2>3, <2>6
  <1>7. ASSUME NEW v \in Workers, comm[v] = "start" PROVE FALSE
    BY <1>3, <1>5, <1>7, JobProtocolAssumption DEF OrdersInv, Begun
  <1> QED BY <1>3, <1>5, <1>6, <1>7

LEMMA OrdersStep ==
  ASSUME Timely, KnownInv, HoldersInv, OrdersInv, [Next]_vars
  PROVE  OrdersInv'
  <1>0. TypeInv /\ TypeOK /\ HandInv
    BY DEF KnownInv, TypeInv
  <1>1. ASSUME NEW v \in Workers, NEW m \in Content(toWorker'[v]), m.kind = "NEWJOB"
        PROVE  main' = "schedule" /\ next' > 1 /\ m.job = next' - 1
    <2>1. m.kind # Msg("CANCELJOB").kind
      BY <1>1 DEF Msg
    <2>2. CASE m \in Content(toWorker[v])
      <3>1. main = "schedule" /\ next > 1 /\ m.job = next - 1
        BY <1>1, <2>2 DEF OrdersInv
      <3>2. ASSUME NEW w \in Workers, Schedule(w) PROVE FALSE
        BY <1>0, <2>2, <3>2, QuietIsCalm DEF Schedule
      <3> QED BY <1>0, <3>1, <3>2, MainStep
    <2>3. CASE SendJob /\ m = NewJob(Scheduled)
      <3>1. main' = "schedule" /\ next' = next /\ next > 1
        BY <1>0, <2>3 DEF SendJob, TypeInv, MainHasJob
      <3> QED BY <2>3, <3>1 DEF NewJob, Scheduled
    <2> QED BY <1>0, <1>1, <2>1, <2>2, <2>3, WorkerMail
  <1>2. ASSUME NEW w \in Workers, comm'[w] = "start"
        PROVE  /\ main' = "schedule" /\ next' > 1
               /\ host'[next' - 1] = w /\ actualThread'[w] \in {NoJob, next' - 1}
    <2>1. CASE HandleNewJob(w)
      <3>1. /\ main = "schedule" /\ next > 1 /\ next - 1 \in Jobs
            /\ Head(toWorker[w]).job = next - 1 /\ comm[w] # "start"
        BY <1>0, <2>1, TakenIsLast
      <3>2. actualJob[w] = NoJob
        BY <1>2, <2>1, <3>1 DEF HandleNewJob
      <3>3. /\ host' = [host EXCEPT ![next - 1] = w]
            /\ actualThread' = [actualThread EXCEPT ![w] = next - 1]
            /\ UNCHANGED <<main, next>>
        BY <2>1, <3>1, <3>2 DEF HandleNewJob, Take, schedVars
      <3> QED BY <1>0, <3>1, <3>3 DEF TypeOK
    <2>2. CASE ~ HandleNewJob(w)
      <3>1. comm[w] = "start" /\ actualThread'[w] \in {actualThread[w], NoJob}
        BY <1>0, <1>2, <2>2, BeginStep
      <3>2. /\ main = "schedule" /\ next > 1
            /\ host[next - 1] = w /\ actualThread[w] \in {NoJob, next - 1}
        BY <3>1 DEF OrdersInv
      <3>3. ASSUME NEW v \in Workers, Schedule(v) PROVE FALSE
        BY <1>0, <3>1, <3>3, QuietIsCalm DEF Schedule, NoOrder
      <3>4. main' = "schedule" /\ UNCHANGED next
        BY <1>0, <3>2, <3>3, MainStep
      <3>5. next - 1 \in Jobs
        BY <1>0, <3>2, JobProtocolAssumption DEF TypeOK, Jobs
      <3>6. ~ CrashWorker(w)
        BY <1>0, <1>2 DEF CrashWorker, TypeOK
      <3>7. ASSUME NEW v \in Workers PROVE ~ HandleNewJob(v)
        BY <1>0, <3>1, TakenIsLast
      <3>8. host'[next - 1] = w
        BY <1>0, <3>2, <3>5, <3>6, <3>7, HostStep
      <3> QED BY <3>1, <3>2, <3>4, <3>8
    <2> QED BY <2>1, <2>2
  <1> QED BY <1>1, <1>2 DEF OrdersInv

\* A job that a worker refuses was the only one on its way.
LEMMA RefusedWasLast ==
  ASSUME TypeInv, HandInv, HoldersInv, OrdersInv, NEW w \in Workers, HandleNewJob(w), actualJob[w] # NoJob
  PROVE  /\ main' = "schedule" /\ NoOrder' /\ next' > 1
         /\ jobWorker'[next' - 1] = w /\ ~ Begun(next - 1)'
  <1>1. /\ UNCHANGED <<next, main, jobWorker>>
        /\ UNCHANGED <<comm, thread, stopping, host, actualJob, actualThread>>
    BY DEF HandleNewJob, Take, csVars, schedVars
  <1>2. /\ main = "schedule" /\ next > 1 /\ next - 1 \in Jobs
        /\ jobWorker[next - 1] = w /\ ~ Begun(next - 1)
        /\ \A v \in Workers : (\A m \in Content(toWorker'[v]) : m.kind # "NEWJOB") /\ comm[v] # "start"
    BY TakenIsLast
  <1> QED BY <1>1, <1>2 DEF NoOrder, Begun

LEMMA RefusalsStep ==
  ASSUME Timely, KnownInv, HoldersInv, OrdersInv, RefusalsInv, [Next]_vars
  PROVE  RefusalsInv'
  <1> SUFFICES ASSUME NEW v \in Workers, NEW m \in Content(toServer'[v]), m.kind = "JOBREFUSED"
               PROVE  /\ main' = "schedule" /\ NoOrder' /\ next' > 1
                      /\ jobWorker'[next' - 1] = v /\ ~ Begun(next - 1)'
    BY DEF RefusalsInv
  <1>0. TypeInv /\ TypeOK /\ LifeInv
    BY DEF KnownInv, TypeInv
  <1>1. CASE m \in Content(toServer[v])
    <2>1. /\ main = "schedule" /\ NoOrder /\ next > 1
          /\ jobWorker[next - 1] = v /\ ~ Begun(next - 1)
      BY <1>1 DEF RefusalsInv
    <2>2. ASSUME NEW w \in Workers, Schedule(w) PROVE FALSE
      BY <1>0, <1>1, <2>2, QuietIsCalm DEF Schedule
    <2>3. main' = "schedule" /\ NoOrder' /\ UNCHANGED <<next, jobWorker>>
      BY <1>0, <2>1, <2>2, MainStep, NoOrderStep
    <2>4. PICK j \in Jobs : j = next - 1
      BY <1>0, <2>1, LastHasWorker
    <2>5. \A w \in Workers : ~ HandleNewJob(w)
      BY <1>0, <2>1, NoOrderMeans
    <2>6. ~ Begun(j)'
      BY <1>0, <2>1, <2>4, <2>5, BeginStep
    <2> QED BY <2>1, <2>3, <2>4, <2>6 DEF Begun
  <1>2. CASE HandleNewJob(v) /\ actualJob[v] # NoJob
    BY <1>0, <1>2, RefusedWasLast DEF KnownInv
  <1> QED BY <1>0, <1>1, <1>2, ServerMail DEF Written

LEMMA KillsStep ==
  ASSUME Timely, KnownInv, KillsInv, [Next]_vars
  PROVE  KillsInv'
  <1> SUFFICES ASSUME KillUnderWay'
               PROVE  main' = "schedule" /\ NoOrder'
    BY DEF KillsInv
  <1>0. TypeInv
    BY DEF KnownInv
  <1>1. ASSUME NEW j \in Jobs, Cancel(j) PROVE main = "schedule" /\ NoOrder /\ main' = main
    BY <1>0, <1>1, QuietIsCalm DEF Cancel
  <1>2. main = "schedule" /\ NoOrder
    BY <1>0, <1>1, KillStep DEF KillsInv
  <1>3. ASSUME NEW w \in Workers, Schedule(w), ~ \E j \in Jobs : Cancel(j) PROVE FALSE
    BY <1>0, <1>3, KillStep, QuietIsCalm DEF Schedule
  <1> QED BY <1>0, <1>1, <1>2, <1>3, MainStep, NoOrderStep

\* While a job is being killed no worker begins to execute another.
LEMMA NothingBegins ==
  ASSUME Timely, KnownInv, KillsInv, KillUnderWay, [Next]_vars, NEW k \in Jobs
  PROVE  /\ Executing(k)' => Executing(k) /\ host'[k] = host[k]
         /\ host'[k] \in {host[k], NoWorker}
  <1>0. TypeInv
    BY DEF KnownInv
  <1>1. \A w \in Workers : ~ HandleNewJob(w) /\ ~ StartThread(w)
    BY <1>0, NoOrderMeans DEF KillsInv
  <1> QED BY <1>0, <1>1, ExecutionStep, HostStep

\* A cancelled job's thread is between clearing and reporting because it was
\* there before, or it has just cleared.
LEMMA ClearedStep ==
  ASSUME Timely, TypeInv, [Next]_vars, NEW j \in Jobs, thread'[j] \in {"clearing", "cleared"},
         outcome'[j] = "CANCELLED"
  PROVE  /\ outcome[j] = "CANCELLED" /\ thread[j] \in {"finally", "clearing", "cleared"}
         /\ thread[j] = "finally" => ClearJob(j)
  <1>0. TypeOK
    BY DEF TypeInv
  <1> DEFINE Same == thread'[j] = thread[j] /\ outcome'[j] = outcome[j]
  <1>1. CASE UNCHANGED <<thread, outcome>>
    BY <1>1
  <1>2. ASSUME NEW k \in Jobs, JobThread(k) \/ Throw(k)
        PROVE  Same \/ (j = k /\ (ClearJob(j) \/ ClearThread(j)))
    <2>1. CASE j # k
      BY <1>0, <1>2, <2>1 DEF JobThread, StartParsing, StartRunning, StartMetrics, Advance, Succeed, Throw,
                RaiseKill, ClearJob, ClearThread, ReportOutcome, NotifyFinished, EndTry, TypeOK
    <2>2. CASE j = k /\ ~ ClearJob(j) /\ ~ ClearThread(j)
      <3>1. thread'[j] \notin {"clearing", "cleared"} \/ Same
        BY <1>0, <1>2, <2>2 DEF JobThread, StartParsing, StartRunning, StartMetrics, Advance, Succeed, Throw,
                  RaiseKill, ReportOutcome, NotifyFinished, EndTry, TypeOK
      <3> QED BY <3>1
    <2> QED BY <2>1, <2>2
  <1>3. CASE \E w \in Workers : HandleNewJob(w) \/ StartThread(w)
    <2>1. /\ UNCHANGED outcome
          /\ UNCHANGED thread \/ \E k : thread' = [thread EXCEPT ![k] = "ready"]
      BY <1>3 DEF HandleNewJob, StartThread
    <2> QED BY <1>0, <2>1 DEF TypeOK
  <1>4. CASE \E w \in Workers : CrashWorker(w)
    BY <1>4 DEF CrashWorker
  <1>5. CASE Main \/ UNCHANGED vars
    BY <1>1, <1>5 DEF Main, Schedule, Check, Attach, SendJob, vars, workerVars, threadVars
  <1>6. CASE \E w \in Workers : ReaderThread(w) \/ Connect(w) \/ AttendanceTimeout(w) \/ LoseConnection(w)
    BY <1>1, <1>6 DEF ReaderThread, HandleJobFinished, HandleStateChange, HandleJobAccepted, HandleJobRefused,
                      HandleReply, Receive, Connect, AttendanceTimeout, LoseConnection, workerVars, threadVars
  <1>7. CASE \E w \in Workers : (\E k \in Jobs : ObserveJob(w, k)) \/ HandleCancelJob(w) \/ KillThread(w) \/ StopThread(w)
    BY <1>1, <1>7 DEF ObserveJob, HandleCancelJob, KillThread, StopThread, threadVars
  <1>8. CASE \E k \in Jobs : Cancel(k)
    BY <1>1, <1>8 DEF Cancel, workerVars, threadVars
  <1>9. CASE ClearJob(j) \/ ClearThread(j)
    BY <1>9 DEF ClearJob, ClearThread, ThreadUnchanged
  <1> QED BY <1>2, <1>3, <1>4, <1>5, <1>6, <1>7, <1>8, <1>9, TimelyNext DEF Communicator

LEMMA ConfirmedStep ==
  ASSUME Timely, KnownInv, KillsInv, ConfirmedInv, [Next]_vars
  PROVE  ConfirmedInv'
  <1>0. TypeInv /\ TypeOK
    BY DEF KnownInv, TypeInv
  <1>1. \A k \in Jobs : Executing(k) => host[k] \in Workers /\ actualJob[host[k]] = k
    BY DEF KnownInv, ExecutesActual
  <1>2. ASSUME NEW j \in Jobs, thread'[j] \in {"clearing", "cleared"}, outcome'[j] = "CANCELLED",
               NEW k \in Jobs, Executing(k)'
        PROVE  host'[k] # host'[j]
    <2>1. outcome[j] = "CANCELLED" /\ thread[j] \in {"finally", "clearing", "cleared"}
          /\ (thread[j] = "finally" => ClearJob(j))
      BY <1>0, <1>2, ClearedStep
    <2>2. KillUnderWay
      BY <2>1 DEF KillUnderWay, FinallyPhases
    <2>3. Executing(k) /\ host'[k] = host[k] /\ host'[j] \in {host[j], NoWorker} /\ host[k] \in Workers
      BY <1>1, <1>2, <2>2, NothingBegins
    <2>4. CASE thread[j] \in {"clearing", "cleared"}
      BY <2>1, <2>3, <2>4, JobProtocolAssumption DEF ConfirmedInv
    <2>5. CASE thread[j] = "finally"
      <3>1. Executing(j) /\ j # k
        BY <1>2, <2>5 DEF Executing, TryPhases
      <3> QED BY <1>1, <2>3, <3>1, JobProtocolAssumption
    <2> QED BY <2>1, <2>4, <2>5
  <1>3. ASSUME NEW w \in Workers, NEW m \in Content(toServer'[w]), m.kind = "STATECHANGE"
        PROVE  /\ m.state # "NEW"
               /\ m.state = "CANCELLED" => \A k \in Jobs : Executing(k)' => host'[k] # w
    <2>1. CASE m \in Content(toServer[w])
      <3>1. m.state = "CANCELLED" => KillUnderWay
        BY <1>3, <2>1 DEF KillUnderWay
      <3> QED BY <1>3, <2>1, <3>1, NothingBegins DEF ConfirmedInv
    <2>2. ASSUME NEW j \in Jobs, m.state = outcome[j], ReportOutcome(j), host[j] = w
          PROVE  /\ m.state # "NEW"
                 /\ m.state = "CANCELLED" => \A k \in Jobs : Executing(k)' => host'[k] # w
      <3>1. m.state # "NEW" /\ thread[j] = "cleared"
        BY <1>0, <2>2 DEF TypeOK, FinalStates, ReportOutcome
      <3>2. m.state = "CANCELLED" => KillUnderWay
        BY <2>2, <3>1 DEF KillUnderWay, FinallyPhases
      <3> QED BY <2>2, <3>1, <3>2, NothingBegins DEF ConfirmedInv
    <2> QED BY <1>0, <1>3, <2>1, <2>2, ServerMail DEF Written
  <1> QED BY <1>2, <1>3 DEF ConfirmedInv

\* A job that the server takes back or ends as cancelled is withdrawn then.
LEMMA BecomesWithdrawn ==
  ASSUME Timely, KnownInv, CancelInv, [Next]_vars, NEW j \in Jobs,
         csState'[j] \in {"NEW", "CANCELLED"}, csState'[j] # csState[j]
  PROVE  ~ Executing(j) /\ main = "schedule" /\ NoOrder /\ ~ \E w \in Workers : Schedule(w)
  <1>0. TypeInv /\ TypeOK /\ LifeInv
    BY DEF KnownInv, TypeInv
  <1>2. ASSUME NEW w \in Workers, Schedule(w) PROVE FALSE
    BY <1>0, <1>2 DEF Schedule, TypeOK
  <1>3. ASSUME NEW w \in Workers, HandleJobRefused(w), wdJob[w] = j
        PROVE  ~ Executing(j) /\ main = "schedule" /\ NoOrder
    <2>1. Head(toServer[w]) \in Content(toServer[w]) /\ Head(toServer[w]).kind = "JOBREFUSED"
      BY <1>0, <1>3, ReceiveRemoves DEF HandleJobRefused, HandleReply
    <2>2. /\ main = "schedule" /\ NoOrder /\ next > 1
          /\ jobWorker[next - 1] = w /\ ~ Begun(next - 1)
      BY <2>1 DEF CancelInv, RefusalsInv
    <2>3. j = next - 1
      BY <1>3, <2>2, JobProtocolAssumption DEF CancelInv, HoldersInv, Jobs, NoJob
    <2> QED BY <2>2, <2>3 DEF Begun, Executing, TryPhases
  <1>4. ASSUME NEW w \in Workers, HandleStateChange(w), wdJob[w] = j, Head(toServer[w]).state \in {"NEW", "CANCELLED"}
        PROVE  ~ Executing(j) /\ main = "schedule" /\ NoOrder
    <2>1. Head(toServer[w]) \in Content(toServer[w]) /\ Head(toServer[w]).kind = "STATECHANGE"
      BY <1>0, <1>4, ReceiveRemoves DEF HandleStateChange
    <2>2. Head(toServer[w]).state = "CANCELLED" /\ \A k \in Jobs : Executing(k) => host[k] # w
      BY <1>4, <2>1 DEF CancelInv, ConfirmedInv
    <2>3. main = "schedule" /\ NoOrder
      BY <2>1, <2>2 DEF KillUnderWay, CancelInv, KillsInv
    <2>4. Executing(j) => host[j] = w
      BY <1>4, JobProtocolAssumption DEF KnownInv, ExecutesActual, CancelInv, HoldersInv, Jobs, NoJob
    <2> QED BY <2>2, <2>3, <2>4
  <1>5. ASSUME Cancel(j), csState[j] = "NEW" \/ jobWorker[j] = NoWorker
        PROVE  ~ Executing(j) /\ main = "schedule" /\ NoOrder
    <2>1. main = "schedule" /\ NoOrder
      BY <1>0, <1>5, QuietIsCalm DEF Cancel
    <2>2. CASE csState[j] = "NEW"
      BY <2>1, <2>2 DEF CancelInv, WithdrawnInv, Withdrawn
    <2>3. CASE jobWorker[j] = NoWorker
      <3>1. ~ Begun(j)
        BY <1>0, <2>3, JobProtocolAssumption DEF LifeInv, TypeOK, Jobs, KnownInv, HandInv, UnchosenIsNotBegun
      <3> QED BY <2>1, <3>1 DEF Begun, Executing, TryPhases
    <2> QED BY <1>5, <2>2, <2>3
  <1> QED BY <1>0, <1>2, <1>3, <1>4, <1>5, WithdrawalStep

LEMMA WithdrawnStep ==
  ASSUME Timely, KnownInv, CancelInv, [Next]_vars
  PROVE  WithdrawnInv'
  <1>0. TypeInv /\ TypeOK /\ NoJob \notin Jobs
    BY DEF KnownInv, TypeInv, NoJob, Jobs
  <1> SUFFICES ASSUME NEW j \in Jobs, csState'[j] \in {"NEW", "CANCELLED"}
               PROVE  Withdrawn(j)'
    BY DEF WithdrawnInv
  <1>1. CASE csState'[j] = csState[j]
    <2>1. Withdrawn(j)
      BY <1>1 DEF CancelInv, WithdrawnInv
    <2>2. ASSUME NEW w \in Workers, HandleNewJob(w), Head(toWorker[w]).job = j PROVE FALSE
      <3>1. Head(toWorker[w]) \in Content(toWorker[w]) /\ Head(toWorker[w]).kind = "NEWJOB"
        BY <1>0, <2>2, TakeRemoves DEF HandleNewJob
      <3> QED BY <2>1, <2>2, <3>1 DEF Withdrawn
    <2>3. ~ Executing(j)'
      BY <1>0, <2>1, <2>2, ExecutionStep DEF Withdrawn, StartThread
    <2>4. ASSUME NEW w \in Workers, comm'[w] = "start", actualThread'[w] = j PROVE FALSE
      <3>1. CASE HandleNewJob(w) /\ actualJob[w] = NoJob
        <4>1. actualThread' = [actualThread EXCEPT ![w] = Head(toWorker[w]).job]
          BY <3>1 DEF HandleNewJob
        <4>2. actualThread'[w] = Head(toWorker[w]).job
          BY <1>0, <4>1 DEF TypeOK
        <4> QED BY <2>2, <2>4, <3>1, <4>2
      <3>2. CASE HandleNewJob(w) /\ actualJob[w] # NoJob
        BY <2>1, <2>4, <3>2 DEF HandleNewJob, Withdrawn
      <3>3. CASE ~ HandleNewJob(w)
        <4>1. comm[w] = "start" /\ actualThread[w] = j
          BY <1>0, <2>4, <3>3, BeginStep
        <4> QED BY <2>1, <4>1 DEF Withdrawn
      <3> QED BY <3>1, <3>2, <3>3
    <2>5. ASSUME NEW w \in Workers, NEW m \in Content(toWorker'[w]), m.kind = "NEWJOB" PROVE m.job # j
      <3>1. SendJob /\ m = NewJob(Scheduled) => main # "schedule" /\ m.job = Scheduled
        BY DEF SendJob, NewJob
      <3>2. m # Msg("CANCELJOB")
        BY <2>5 DEF Msg
      <3> QED BY <1>0, <2>1, <2>5, <3>1, <3>2, WorkerMail DEF Withdrawn
    <2>6. ASSUME main' # "schedule" PROVE j # next' - 1
      <3>1. CASE UNCHANGED next /\ main # "schedule"
        BY <2>1, <3>1 DEF Withdrawn, Scheduled
      <3>2. ASSUME NEW w \in Workers, Schedule(w) PROVE j # next' - 1
        <4>1. next' - 1 = next /\ csState'[next] = "SCHEDULED"
          BY <1>0, <3>2 DEF Schedule, TypeOK, Jobs
        <4> QED BY <4>1
      <3> QED BY <1>0, <2>6, <3>1, <3>2, MainStep
    <2> QED BY <2>3, <2>4, <2>5, <2>6 DEF Withdrawn, Scheduled
  <1>2. CASE csState'[j] # csState[j]
    <2>1. ~ Executing(j) /\ main = "schedule" /\ NoOrder /\ ~ \E w \in Workers : Schedule(w)
      BY <1>2, BecomesWithdrawn
    <2>2. \A w \in Workers : ~ HandleNewJob(w) /\ ~ StartThread(w)
      BY <1>0, <2>1, NoOrderMeans
    <2>3. ~ Executing(j)' /\ main' = "schedule" /\ NoOrder'
      BY <1>0, <2>1, <2>2, ExecutionStep, MainStep, NoOrderStep
    <2> QED BY <2>3 DEF Withdrawn, NoOrder
  <1> QED BY <1>1, <1>2

\* Initially there is nothing anywhere.
LEMMA CancelInit == Init => CancelInv
  <1> SUFFICES ASSUME Init PROVE CancelInv
    OBVIOUS
  <1>1. \A w \in Workers : Content(toWorker[w]) = {} /\ Content(toServer[w]) = {} /\ comm[w] = "read"
    BY ContentEmpty DEF Init
  <1>2. main = "schedule" /\ next = 1 /\ \A j \in Jobs : thread[j] = "none"
    BY DEF Init
  <1>3. HoldersInv
    BY <1>1 DEF Init, HoldersInv
  <1>4. OrdersInv /\ RefusalsInv /\ KillsInv
    BY <1>1, <1>2 DEF OrdersInv, RefusalsInv, KillsInv, NoOrder
  <1>5. ConfirmedInv /\ WithdrawnInv
    BY <1>1, <1>2 DEF ConfirmedInv, WithdrawnInv, Withdrawn, Executing, TryPhases
  <1> QED BY <1>3, <1>4, <1>5 DEF CancelInv

LEMMA CancelStep ==
  ASSUME Timely, KnownInv, KnownInv', CancelInv, [Next]_vars
  PROVE  CancelInv'
  <1>1. HoldersInv'
    BY HoldersStep DEF KnownInv, CancelInv
  <1>2. OrdersInv' /\ RefusalsInv' /\ KillsInv' /\ ConfirmedInv'
    BY OrdersStep, RefusalsStep, KillsStep, ConfirmedStep DEF CancelInv
  <1>3. WithdrawnInv'
    BY WithdrawnStep
  <1> QED BY <1>1, <1>2, <1>3 DEF CancelInv

\* If the server and the user pause long enough, a job that the server records
\* as cancelled executes nowhere - whatever else is cancelled, throws, breaks,
\* restarts or is refused (cancelJob, STATECHANGE, setState(CANCELLED)).
THEOREM CancelledHasStopped == Timely /\ Spec => []CancelledIsStopped
  <1>1. Init => KnownInv /\ CancelInv
    <2> SUFFICES ASSUME Init PROVE KnownInv
      BY CancelInit
    <2>1. HandInv
      BY JobProtocolAssumption DEF Init, HandInv, SentOnce, UnchosenIsNotBegun, ScheduledIsUnsent, InFlight, Begun,
                                   Jobs, NoJob
    <2>2. ExecutesActual /\ LifeInv
      BY JobProtocolAssumption DEF Init, ExecutesActual, Executing, TryPhases, LifeInv, Jobs, NoJob
    <2> QED BY <2>1, <2>2, TypeInit DEF KnownInv
  <1>2. Timely /\ KnownInv /\ CancelInv /\ [Next]_vars => (KnownInv /\ CancelInv)'
    <2> SUFFICES ASSUME Timely, KnownInv, CancelInv, [Next]_vars
                 PROVE  (KnownInv /\ CancelInv)'
      OBVIOUS
    <2>1. TypeInv' /\ ExecutesActual' /\ LifeInv'
      BY TypeStep, ExecutesStep, LifeStep DEF KnownInv
    <2>2. HandInv'
      BY <2>1, HandStep DEF KnownInv
    <2> QED BY <2>1, <2>2, CancelStep DEF KnownInv
  <1>3. CancelInv => CancelledIsStopped
    BY DEF CancelInv, WithdrawnInv, Withdrawn, CancelledIsStopped
  <1>4. Timely => Timely'
    OBVIOUS
  <1> QED BY <1>1, <1>2, <1>3, <1>4, PTL DEF Spec

=============================================================================
