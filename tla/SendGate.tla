------------------------------- MODULE SendGate -------------------------------
(***************************************************************************)
(* How the threads at one end of a connection share its PrintWriter:       *)
(* doWait and doNotify of WorkerClientThread and of Communicator (the same *)
(* code), the lines of a message written between them, and how the other   *)
(* end puts messages together again.  A message is a key line, the line    *)
(* that says what it is, some more lines, and the end line.  At the worker *)
(* the JobThread may be stopped (Experimentor.killJob) wherever it is, and *)
(* the Communicator's thread may leave connect without doNotify.           *)
(***************************************************************************)
EXTENDS Naturals, Sequences, FiniteSets

CONSTANTS
    Threads,      \* the threads that send on the connection
    Ends,         \* the ends of the connection to look at
    Impatient,    \* at the server: those that do not call doWait (CANCELJOB)
    Stoppable,    \* at the worker: JobThreads, which Thread.stop may strike
    Connecting,   \* at the worker: the thread that calls connect
    Length,       \* Length[t]: lines of t's messages before the end line
    MaxMessages   \* how many messages a thread sends, at most

ASSUME SendGateAssumption ==
    /\ Ends \subseteq {"server", "worker"}
    /\ Impatient \subseteq Threads /\ Stoppable \subseteq Threads /\ Connecting \subseteq Threads
    /\ Length \in [Threads -> Nat \ {0}]
    /\ MaxMessages \in Nat

VARIABLES
    end,         \* whose threads they are
    wasSignalled,
    at,          \* where the thread is
    written,     \* lines of its current message that it has written
    sent,        \* messages it has finished or given up
    strayed,     \* history: it has left with the gate, which was not opened since
    heard,       \* messages of the thread whose key line came first at the other end
    \* the thread at the other end that reads the connection
    collected,   \* listOfMessages: whose line, which line of the message
    reading      \* it is alive

otherEnd == <<heard, collected, reading>>
vars == <<end, wasSignalled, at, written, sent, strayed, otherEnd>>

\* A thread in "wait" is in the monitor's wait set; it is "woken" between
\* notify and the moment it has the monitor again; it is in "notify" between
\* the end line and doNotify.
Places == {"idle", "wait", "woken", "write", "notify"}

TypeOK ==
    /\ end \in Ends
    /\ wasSignalled \in BOOLEAN
    /\ at \in [Threads -> Places]
    /\ written \in [Threads -> Nat] /\ \A t \in Threads : written[t] <= Length[t]
    /\ sent \in [Threads -> Nat]
    /\ strayed \subseteq Threads
    /\ heard \in [Threads -> Nat]
    /\ collected \in Seq(Threads \X Nat)
    /\ reading \in BOOLEAN

Init ==
    /\ end \in Ends
    /\ wasSignalled = TRUE
    /\ at = [t \in Threads |-> "idle"]
    /\ written = [t \in Threads |-> 0]
    /\ sent = [t \in Threads |-> 0]
    /\ strayed = {}
    /\ heard = [t \in Threads |-> 0]
    /\ collected = <<>>
    /\ reading = TRUE

-----------------------------------------------------------------------------
\* doWait, in one piece unless it has to wait.
DoWait(t) ==
    /\ ~ (end = "server" /\ t \in Impatient)
    /\ at[t] = "idle"
    /\ sent[t] < MaxMessages
    /\ at' = [at EXCEPT ![t] = IF wasSignalled THEN "write" ELSE "wait"]
    /\ wasSignalled' = FALSE
    /\ UNCHANGED <<end, written, sent, strayed, otherEnd>>

\* doWait returns from wait; it does not look at wasSignalled again.
Wake(t) ==
    /\ at[t] = "woken"
    /\ at' = [at EXCEPT ![t] = "write"]
    /\ wasSignalled' = FALSE
    /\ UNCHANGED <<end, written, sent, strayed, otherEnd>>

\* update, killWorker: straight to the writer.
Barge(t) ==
    /\ end = "server" /\ t \in Impatient
    /\ at[t] = "idle"
    /\ sent[t] < MaxMessages
    /\ at' = [at EXCEPT ![t] = "write"]
    /\ UNCHANGED <<end, wasSignalled, written, sent, strayed, otherEnd>>

\* Mutant of WriteLine: one line too many is written.
WriteLineBeyond(t) ==
    /\ at[t] = "write"
    /\ written[t] <= Length[t]
    /\ written' = [written EXCEPT ![t] = @ + 1]
    /\ collected' = IF reading THEN Append(collected, <<t, written[t] + 1>>) ELSE collected
    /\ UNCHANGED <<end, wasSignalled, at, sent, strayed, heard, reading>>

\* println of the next line, which the other end collects.
WriteLine(t) ==
    /\ at[t] = "write"
    /\ written[t] < Length[t]
    /\ written' = [written EXCEPT ![t] = @ + 1]
    /\ collected' = IF reading THEN Append(collected, <<t, written[t] + 1>>) ELSE collected
    /\ UNCHANGED <<end, wasSignalled, at, sent, strayed, heard, reading>>

\* println of the end line: the other end handles what it has collected, by
\* the first line alone.  If it has collected nothing, handleMessages throws
\* and the thread ends.
WriteEnd(t) ==
    /\ at[t] = "write"
    /\ written[t] = Length[t]
    /\ at' = [at EXCEPT ![t] = "notify"]
    /\ reading' = (reading /\ collected # <<>>)
    /\ heard' = IF collected # <<>> /\ collected[1][2] = 1
                THEN [heard EXCEPT ![collected[1][1]] = @ + 1] ELSE heard
    /\ collected' = <<>>
    /\ UNCHANGED <<end, wasSignalled, written, sent, strayed>>

\* Mutant of DoNotify: wasSignalled is not set.
DoNotifyUnsignalled(t) ==
    /\ at[t] = "notify"
    /\ \/ \E u \in Threads : at[u] = "wait" /\ at' = [at EXCEPT ![t] = "idle", ![u] = "woken"]
       \/ (\A u \in Threads : at[u] # "wait") /\ at' = [at EXCEPT ![t] = "idle"]
    /\ written' = [written EXCEPT ![t] = 0]
    /\ sent' = [sent EXCEPT ![t] = @ + 1]
    /\ strayed' = {}
    /\ UNCHANGED <<end, wasSignalled, otherEnd>>

\* Mutant of DoNotify: the gate is opened, nobody is woken.
DoNotifyNobody(t) ==
    /\ at[t] = "notify"
    /\ wasSignalled' = TRUE
    /\ at' = [at EXCEPT ![t] = "idle"]
    /\ written' = [written EXCEPT ![t] = 0]
    /\ sent' = [sent EXCEPT ![t] = @ + 1]
    /\ strayed' = {}
    /\ UNCHANGED <<end, otherEnd>>

\* doNotify wakes one of those that wait, if anybody does.
DoNotify(t) ==
    /\ at[t] = "notify"
    /\ wasSignalled' = TRUE
    /\ \/ \E u \in Threads : at[u] = "wait" /\ at' = [at EXCEPT ![t] = "idle", ![u] = "woken"]
       \/ (\A u \in Threads : at[u] # "wait") /\ at' = [at EXCEPT ![t] = "idle"]
    /\ written' = [written EXCEPT ![t] = 0]
    /\ sent' = [sent EXCEPT ![t] = @ + 1]
    /\ strayed' = {}
    /\ UNCHANGED <<end, otherEnd>>

\* The thread gives up its message and is no more between doWait and doNotify.
GiveUp(t) ==
    /\ at' = [at EXCEPT ![t] = "idle"]
    /\ written' = [written EXCEPT ![t] = 0]
    /\ sent' = [sent EXCEPT ![t] = @ + 1]
    /\ strayed' = IF at[t] = "wait" THEN strayed ELSE strayed \cup {t}
    /\ UNCHANGED <<end, otherEnd>>

\* Thread.stop strikes while the thread sends, also between the two statements of
\* doNotify; the JobThread goes on in its finally block.
Stop(t) ==
    /\ end = "worker" /\ t \in Stoppable
    /\ at[t] # "idle"
    /\ GiveUp(t)
    /\ wasSignalled' = wasSignalled \/ wasSignalled' = (wasSignalled \/ at[t] = "notify")

\* connect returns after doWait, if SysInformation cannot read what it is to send.
ReturnEarly(t) ==
    /\ end = "worker" /\ t \in Connecting
    /\ at[t] = "write"
    /\ GiveUp(t)
    /\ UNCHANGED wasSignalled

-----------------------------------------------------------------------------
Thread(t) ==
    \/ DoWait(t)
    \/ Wake(t)
    \/ Barge(t)
    \/ WriteLine(t)
    \/ WriteEnd(t)
    \/ DoNotify(t)

Next == \E t \in Threads : Thread(t) \/ Stop(t) \/ ReturnEarly(t)

Spec == Init /\ [][Next]_vars

\* Every thread that has something to send gets on with it, if it is not stopped.
Fairness == \A t \in Threads : WF_vars(Thread(t))

FairSpec == Spec /\ Fairness

-----------------------------------------------------------------------------
(* Properties.                                                             *)

\* doWait and doNotify lose the gate only with a thread that leaves in between:
\* as long as no thread holds it or has been woken to take it, it is open and
\* nobody waits in front of it, although notify is lost when nobody waits and
\* wasSignalled is cleared by threads that did not need it; unless a thread that
\* held it was stopped or returned early, and nobody has opened the gate since.
GateNotLost ==
    \/ \E t \in Threads : at[t] \in {"woken", "write", "notify"}
    \/ wasSignalled /\ \A t \in Threads : at[t] # "wait"
    \/ strayed # {}

\* Whoever waits in doWait comes out of it, however the threads take turns and
\* whomever notify picks, if the gate does not stay where a thread left it.
NobodyWaitsForever ==
    <>[](strayed = {}) => \A t \in Threads : at[t] = "wait" ~> at[t] # "wait"

-----------------------------------------------------------------------------
(* What comments say and the code does not do.                             *)

\* JOBACCEPTED is sent "to verify that the worker accepted the received job": a
\* message sent through doWait and doNotify is understood at the other end.
SentIsHeard == \A t \in Threads : at[t] = "idle" => heard[t] >= sent[t]

=============================================================================
