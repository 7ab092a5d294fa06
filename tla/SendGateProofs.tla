---------------------------- MODULE SendGateProofs ----------------------------
(* The gate of SendGate is lost only with a thread that leaves between doWait *)
(* and doNotify, for any number of threads, patient or not, and of messages.  *)
EXTENDS SendGate, SequenceTheorems, TLAPS

\* The initial state has the types.
LEMMA InitTyped == Init => TypeOK
  BY SendGateAssumption DEF Init, TypeOK, Places

\* Every step of a thread keeps the types.
LEMMA StepTyped == TypeOK /\ [Next]_vars => TypeOK'
<1> SUFFICES ASSUME TypeOK, [Next]_vars PROVE TypeOK'
  OBVIOUS
<1> USE SendGateAssumption DEF TypeOK, Places
<1>1. CASE UNCHANGED vars
  BY <1>1 DEF vars, otherEnd
<1>2. ASSUME NEW t \in Threads, DoWait(t) PROVE TypeOK'
  BY <1>2 DEF DoWait, otherEnd
<1>3. ASSUME NEW t \in Threads, Wake(t) PROVE TypeOK'
  BY <1>3 DEF Wake, otherEnd
<1>4. ASSUME NEW t \in Threads, Barge(t) PROVE TypeOK'
  BY <1>4 DEF Barge, otherEnd
<1>5. ASSUME NEW t \in Threads, WriteLine(t) PROVE TypeOK'
  <2>1. written' \in [Threads -> Nat] /\ \A u \in Threads : written'[u] <= Length[u]
    BY <1>5 DEF WriteLine
  <2>2. <<t, written[t] + 1>> \in Threads \X Nat
    OBVIOUS
  <2>3. collected' \in Seq(Threads \X Nat)
    BY <1>5, <2>2, AppendProperties DEF WriteLine
  <2> QED
    BY <1>5, <2>1, <2>3 DEF WriteLine
<1>6. ASSUME NEW t \in Threads, WriteEnd(t) PROVE TypeOK'
  <2>1. heard' \in [Threads -> Nat]
    <3>1. CASE collected # <<>> /\ collected[1][2] = 1
      <4>1. collected[1] \in Threads \X Nat
        BY <3>1, ElementOfSeq, EmptySeq, LenProperties
      <4>2. collected[1][1] \in Threads
        BY <4>1
      <4>3. PICK u \in Threads : u = collected[1][1]
        BY <4>2
      <4>4. heard' = [heard EXCEPT ![u] = heard[u] + 1]
        BY <1>6, <3>1, <4>3 DEF WriteEnd
      <4>5. heard[u] + 1 \in Nat
        BY <4>3
      <4> QED
        BY <4>4, <4>5
    <3>2. CASE ~ (collected # <<>> /\ collected[1][2] = 1)
      BY <1>6, <3>2 DEF WriteEnd
    <3> QED
      BY <3>1, <3>2
  <2>2. collected' \in Seq(Threads \X Nat)
    BY <1>6, EmptySeq DEF WriteEnd
  <2>3. reading' \in BOOLEAN /\ at' \in [Threads -> Places]
    BY <1>6 DEF WriteEnd
  <2> QED
    BY <1>6, <2>1, <2>2, <2>3 DEF WriteEnd
<1>7. ASSUME NEW t \in Threads, DoNotify(t) PROVE TypeOK'
  <2>1. at' \in [Threads -> Places]
    BY <1>7 DEF DoNotify
  <2>2. written' \in [Threads -> Nat] /\ \A u \in Threads : written'[u] <= Length[u]
    BY <1>7 DEF DoNotify
  <2>3. sent' \in [Threads -> Nat]
    BY <1>7 DEF DoNotify
  <2> QED
    BY <1>7, <2>1, <2>2, <2>3 DEF DoNotify, otherEnd
<1>8. ASSUME NEW t \in Threads, Stop(t) \/ ReturnEarly(t) PROVE TypeOK'
  <2>1. GiveUp(t) /\ wasSignalled' \in BOOLEAN
    BY <1>8 DEF Stop, ReturnEarly
  <2>2. at' \in [Threads -> Places] /\ sent' \in [Threads -> Nat]
    BY <2>1 DEF GiveUp
  <2>3. written' \in [Threads -> Nat] /\ \A u \in Threads : written'[u] <= Length[u]
    BY <2>1 DEF GiveUp
  <2>4. strayed' \subseteq Threads
    BY <2>1 DEF GiveUp
  <2> QED
    BY <2>1, <2>2, <2>3, <2>4 DEF GiveUp, otherEnd
<1> QED
  BY <1>1, <1>2, <1>3, <1>4, <1>5, <1>6, <1>7, <1>8 DEF Next, Thread

\* Whatever the threads do, TypeOK holds.
THEOREM TypeCorrect == Spec => []TypeOK
<1>1. TypeOK /\ [Next]_vars => TypeOK'
  BY StepTyped
<1> QED
  BY InitTyped, <1>1, PTL DEF Spec

\* A step leaves the gate open or in somebody's hands, or somebody has left with it.
LEMMA StepKeepsGate == TypeOK /\ GateNotLost /\ [Next]_vars => GateNotLost'
<1> SUFFICES ASSUME TypeOK, GateNotLost, [Next]_vars PROVE GateNotLost'
  OBVIOUS
<1> USE DEF TypeOK, Places, GateNotLost
<1>1. CASE UNCHANGED vars
  BY <1>1 DEF vars
<1>2. ASSUME NEW t \in Threads, DoWait(t) PROVE GateNotLost'
  <2>1. CASE wasSignalled
    <3>1. at'[t] = "write"
      BY <1>2, <2>1 DEF DoWait
    <3> QED
      BY <3>1
  \* The gate is closed, so that somebody has it, who is not t, or left with it.
  <2>2. CASE ~ wasSignalled /\ strayed # {}
    BY <1>2, <2>2 DEF DoWait
  <2>3. CASE ~ wasSignalled /\ strayed = {}
    <3>1. PICK u \in Threads : at[u] \in {"woken", "write", "notify"}
      BY <2>3
    <3>2. at'[u] = at[u]
      BY <1>2, <3>1 DEF DoWait
    <3> QED
      BY <3>1, <3>2
  <2> QED
    BY <2>1, <2>2, <2>3
<1>3. ASSUME NEW t \in Threads, Wake(t) \/ Barge(t) PROVE GateNotLost'
  <2>1. at'[t] = "write"
    BY <1>3 DEF Wake, Barge
  <2> QED
    BY <2>1
<1>4. ASSUME NEW t \in Threads, WriteLine(t) \/ WriteEnd(t) PROVE GateNotLost'
  <2>1. at'[t] \in {"write", "notify"}
    BY <1>4 DEF WriteLine, WriteEnd
  <2> QED
    BY <2>1
\* Whoever waits is woken; if nobody does the gate is open.
<1>5. ASSUME NEW t \in Threads, DoNotify(t) PROVE GateNotLost'
  <2>1. CASE \E u \in Threads : at[u] = "wait" /\ at' = [at EXCEPT ![t] = "idle", ![u] = "woken"]
    <3>1. PICK u \in Threads : at' = [at EXCEPT ![t] = "idle", ![u] = "woken"]
      BY <2>1
    <3>2. at'[u] = "woken"
      BY <3>1
    <3> QED
      BY <3>2
  <2>2. CASE (\A u \in Threads : at[u] # "wait") /\ at' = [at EXCEPT ![t] = "idle"]
    <3>1. \A u \in Threads : at'[u] # "wait"
      BY <2>2
    <3>2. wasSignalled'
      BY <1>5 DEF DoNotify
    <3> QED
      BY <3>1, <3>2
  <2> QED
    BY <1>5, <2>1, <2>2 DEF DoNotify
\* A thread that leaves the wait set did not hold the gate.
<1>6. ASSUME NEW t \in Threads, Stop(t) \/ ReturnEarly(t) PROVE GateNotLost'
  <2>1. GiveUp(t)
    BY <1>6 DEF Stop, ReturnEarly
  <2>2. CASE strayed # {} \/ at[t] # "wait"
    BY <2>1, <2>2 DEF GiveUp
  <2>3. CASE strayed = {} /\ at[t] = "wait"
    <3>1. PICK u \in Threads : at[u] \in {"woken", "write", "notify"}
      BY <2>3
    <3>2. at'[u] = at[u]
      BY <2>1, <2>3, <3>1 DEF GiveUp
    <3> QED
      BY <3>1, <3>2
  <2> QED
    BY <2>2, <2>3
<1> QED
  BY <1>1, <1>2, <1>3, <1>4, <1>5, <1>6 DEF Next, Thread

\* The gate is lost only with a thread that was stopped or returned early between
\* doWait and doNotify: for any number of threads and messages, in any order in
\* which waiting threads are woken.
THEOREM GateIsLostByLeavingOnly == Spec => []GateNotLost
<1>1. Init => GateNotLost
  BY DEF Init, GateNotLost
<1>2. TypeOK /\ GateNotLost /\ [Next]_vars => GateNotLost'
  BY StepKeepsGate
<1> QED
  BY TypeCorrect, <1>1, <1>2, PTL DEF Spec

=============================================================================
