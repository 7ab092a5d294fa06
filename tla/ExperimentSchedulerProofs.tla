---------------------- MODULE ExperimentSchedulerProofs ----------------------
(***************************************************************************)
(* Proofs about ExperimentScheduler, for any experiments, numbers of jobs  *)
(* and workers; a theorem that needs it says that the server does not crash *)
(* or that the user does nothing but start experiments.                    *)
(***************************************************************************)
EXTENDS ExperimentScheduler, SequenceTheorems, FiniteSetTheorems, TLAPS

-----------------------------------------------------------------------------
(* Jobs, and lists of them.                                                *)

\* A job belongs to one experiment.
LEMMA JobsBelong ==
    /\ \A e \in Experiments : JobsOf(e) \subseteq Jobs
    /\ \A e \in Experiments : \A j \in JobsOf(e) : ExperimentOf(j) = e
    /\ \A j \in Jobs : ExperimentOf(j) \in Experiments /\ j \in JobsOf(ExperimentOf(j))
  BY DEF Jobs, JobsOf, ExperimentOf

\* A set of naturals that is not empty has a smallest element.
LEMMA SmallestOfSet ==
  ASSUME NEW I \in SUBSET Nat, I # {}
  PROVE  \E m \in I : \A i \in I : m <= i
<1> DEFINE T == {0 .. i : i \in I}
<1>1. T \subseteq FiniteSubsetsOf(Nat)
  <2>1. ASSUME NEW i \in I
        PROVE  0 .. i \in SUBSET Nat /\ IsFiniteSet(0 .. i)
    <3>1. i \in Nat /\ 0 \in Int /\ i \in Int
      OBVIOUS
    <3> QED BY <3>1, FS_Interval
  <2> QED BY <2>1 DEF FiniteSubsetsOf
<1>2. T # {}
  OBVIOUS
<1>. HIDE DEF T
<1>3. PICK t \in T : \A u \in T : ~ (<<u, t>> \in StrictSubsetOrdering(Nat))
  BY <1>1, <1>2, FS_StrictSubsetOrderingWellFounded, WFMin
<1>4. PICK m \in I : t = 0 .. m
  BY DEF T
<1>5. ASSUME NEW i \in I
      PROVE  m <= i
  <2>1. 0 .. i \in T
    BY DEF T
  <2>2. ~ (<<0 .. i, 0 .. m>> \in StrictSubsetOrdering(Nat))
    BY <1>3, <1>4, <2>1
  <2>3. ~ (0 .. i \subseteq 0 .. m /\ 0 .. i # 0 .. m)
    BY <2>2 DEF StrictSubsetOrdering
  <2>4. SUFFICES ASSUME i < m PROVE FALSE
    OBVIOUS
  <2>5. m \notin 0 .. i /\ m \in 0 .. m /\ 0 .. i \subseteq 0 .. m
    BY <2>4
  <2> QED BY <2>3, <2>5
<1> QED BY <1>5

\* RemoveAt moves the elements behind one place to the front.
LEMMA ListWithout ==
  ASSUME NEW S, NEW s \in Seq(S), NEW p \in 1 .. Len(s)
  PROVE  /\ RemoveAt(s, p) \in Seq(S)
         /\ Len(RemoveAt(s, p)) = Len(s) - 1
         /\ \A k \in 1 .. Len(s) - 1 : RemoveAt(s, p)[k] = IF k < p THEN s[k] ELSE s[k + 1]
<1> DEFINE a == SubSeq(s, 1, p - 1)
           z == SubSeq(s, p + 1, Len(s))
           r == RemoveAt(s, p)
<1>1. Len(s) \in Nat
  BY LenProperties
<1>2. a \in Seq(S) /\ Len(a) = p - 1 /\ \A k \in 1 .. p - 1 : a[k] = s[k]
  BY <1>1, SubSeqProperties
<1>3. z \in Seq(S) /\ Len(z) = Len(s) - p /\ \A k \in 1 .. Len(s) - p : z[k] = s[p + k]
  BY <1>1, SubSeqProperties
<1>4. r = a \o z
  BY DEF RemoveAt
<1>. HIDE DEF a, z, r
<1>5. /\ a \o z \in Seq(S) /\ Len(a \o z) = Len(a) + Len(z)
      /\ \A k \in 1 .. Len(a) + Len(z) : (a \o z)[k] = IF k <= Len(a) THEN a[k] ELSE z[k - Len(a)]
  BY <1>2, <1>3, ConcatProperties
<1>6. ASSUME NEW k \in 1 .. Len(s) - 1
      PROVE  r[k] = IF k < p THEN s[k] ELSE s[k + 1]
  <2>1. k \in 1 .. Len(a) + Len(z)
    BY <1>1, <1>2, <1>3
  <2>2. CASE k < p
    BY <1>1, <1>2, <1>3, <1>4, <1>5, <2>1, <2>2
  <2>3. CASE ~ (k < p)
    <3>1. (a \o z)[k] = z[k - Len(a)] /\ k - Len(a) \in 1 .. Len(s) - p /\ p + (k - Len(a)) = k + 1
      BY <1>1, <1>2, <1>3, <1>5, <2>1, <2>3
    <3> QED BY <1>3, <1>4, <2>3, <3>1
  <2> QED BY <2>2, <2>3
<1> QED BY <1>1, <1>2, <1>3, <1>4, <1>5, <1>6 DEF r

\* RemoveFirst takes one element from a list, which is then gone if it was there
\* once, and leaves the others.
LEMMA RemoveFirstKeeps ==
  ASSUME NEW S, NEW s \in Seq(S), NEW x
  PROVE  /\ RemoveFirst(s, x) \in Seq(S)
         /\ ToSet(RemoveFirst(s, x)) \subseteq ToSet(s)
         /\ \A y \in ToSet(s) : y # x => y \in ToSet(RemoveFirst(s, x))
         /\ IsInjective(s) => IsInjective(RemoveFirst(s, x)) /\ x \notin ToSet(RemoveFirst(s, x))
<1>1. CASE ~ \E i \in 1 .. Len(s) : s[i] = x
  <2>1. RemoveFirst(s, x) = s
    BY <1>1 DEF RemoveFirst
  <2>2. DOMAIN s = 1 .. Len(s)
    BY LenProperties
  <2> QED BY <1>1, <2>1, <2>2 DEF ToSet
<1>2. CASE \E i \in 1 .. Len(s) : s[i] = x
  <2> DEFINE I == {i \in 1 .. Len(s) : s[i] = x}
             p == Min(I)
             r == RemoveFirst(s, x)
  <2>1. Len(s) \in Nat /\ DOMAIN s = 1 .. Len(s) /\ \A i \in 1 .. Len(s) : s[i] \in S
    BY LenProperties, ElementOfSeq
  <2>2. p \in 1 .. Len(s) /\ s[p] = x
    <3>1. I # {} /\ I \subseteq Nat
      BY <1>2, <2>1
    <3>2. \E m \in I : \A i \in I : m <= i
      BY <3>1, SmallestOfSet
    <3>3. p \in I
      BY <3>2 DEF Min
    <3> QED BY <3>3
  <2>3. r = RemoveAt(s, p)
    BY <1>2, <2>2 DEF RemoveFirst, SelectInSeq
  <2>. HIDE DEF p, r
  <2>4. /\ r \in Seq(S) /\ Len(r) = Len(s) - 1
        /\ \A k \in 1 .. Len(s) - 1 : r[k] = IF k < p THEN s[k] ELSE s[k + 1]
    BY <2>2, <2>3, ListWithout
  <2>5. DOMAIN r = 1 .. Len(s) - 1
    BY <2>1, <2>4, LenProperties
  <2>6. ASSUME NEW y \in ToSet(r)
        PROVE  y \in ToSet(s)
    <3>1. PICK k \in 1 .. Len(s) - 1 : r[k] = y
      BY <2>5 DEF ToSet
    <3>2. k \in 1 .. Len(s) /\ k + 1 \in 1 .. Len(s)
      BY <2>1, <3>1
    <3>3. y = s[k] \/ y = s[k + 1]
      BY <2>4, <3>1
    <3> QED BY <2>1, <3>2, <3>3 DEF ToSet
  <2>7. ASSUME NEW y \in ToSet(s), y # x
        PROVE  y \in ToSet(r)
    <3>1. PICK i \in 1 .. Len(s) : s[i] = y
      BY <2>1, <2>7 DEF ToSet
    <3>2. CASE i < p
      <4>1. i \in 1 .. Len(s) - 1 /\ r[i] = y
        BY <2>1, <2>2, <2>4, <3>1, <3>2
      <4> QED BY <2>5, <4>1 DEF ToSet
    <3>3. CASE i > p
      <4>1. i - 1 \in 1 .. Len(s) - 1 /\ r[i - 1] = y
        <5>1. i - 1 \in 1 .. Len(s) - 1 /\ ~ (i - 1 < p) /\ (i - 1) + 1 = i
          BY <2>1, <2>2, <3>1, <3>3
        <5> QED BY <2>4, <3>1, <5>1
      <4> QED BY <2>5, <4>1 DEF ToSet
    <3> QED BY <2>2, <2>7, <3>1, <3>2, <3>3
  <2>8. ASSUME IsInjective(s)
        PROVE  IsInjective(r) /\ x \notin ToSet(r)
    <3>1. \A i, k \in 1 .. Len(s) : s[i] = s[k] => i = k
      BY <2>1, <2>8 DEF IsInjective
    <3>2. ASSUME NEW i \in 1 .. Len(s) - 1, NEW k \in 1 .. Len(s) - 1, r[i] = r[k]
          PROVE  i = k
      <4>1. i \in 1 .. Len(s) /\ i + 1 \in 1 .. Len(s) /\ k \in 1 .. Len(s) /\ k + 1 \in 1 .. Len(s)
        BY <2>1
      <4>2. \A d \in 1 .. Len(s) - 1 : r[d] = s[IF d < p THEN d ELSE d + 1]
        BY <2>4
      <4>3. (IF i < p THEN i ELSE i + 1) = (IF k < p THEN k ELSE k + 1)
        BY <3>1, <3>2, <4>1, <4>2
      <4> QED BY <2>1, <2>2, <4>3
    <3>3. ASSUME NEW k \in 1 .. Len(s) - 1
          PROVE  r[k] # x
      BY <2>1, <2>2, <2>4, <3>1, <3>3
    <3> QED BY <2>5, <3>2, <3>3 DEF IsInjective, ToSet
  <2> QED BY <2>4, <2>6, <2>7, <2>8 DEF r
<1> QED BY <1>1, <1>2

\* The jobs of one experiment are finitely many.
LEMMA JobsAreFinite ==
  /\ \A e \in Experiments : IsFiniteSet(JobsOf(e)) /\ Cardinality(JobsOf(e)) = JobCount
<1>1. JobCount \in Nat \ {0}
  BY ExperimentSchedulerAssumption
<1>2. IsFiniteSet(1 .. JobCount) /\ Cardinality(1 .. JobCount) = JobCount
  BY <1>1, FS_Interval
<1>3. ASSUME NEW e \in Experiments
      PROVE  IsFiniteSet(JobsOf(e)) /\ Cardinality(JobsOf(e)) = JobCount
  <2>1. IsFiniteSet({e}) /\ Cardinality({e}) = 1
    BY FS_Singleton
  <2>2. /\ IsFiniteSet({e} \X (1 .. JobCount))
        /\ Cardinality({e} \X (1 .. JobCount)) = Cardinality({e}) * Cardinality(1 .. JobCount)
    BY <1>2, <2>1, FS_Product
  <2> QED BY <1>1, <1>2, <2>1, <2>2 DEF JobsOf
<1> QED BY <1>3

\* InOrder lists every job of a set once: the order of the numbers can be had,
\* since a job's place in it is the number of jobs up to it.
LEMMA InOrderLists ==
  ASSUME NEW e \in Experiments, NEW js \in SUBSET JobsOf(e)
  PROVE  /\ InOrder(js) \in Seq(js)
         /\ ToSet(InOrder(js)) = js
         /\ IsInjective(InOrder(js))
<1> DEFINE n == Cardinality(js)
           upTo(j) == {i \in js : i[2] <= j[2]}
           rank == [j \in js |-> Cardinality(upTo(j))]
           inverse == [k \in 1 .. n |-> CHOOSE j \in js : rank[j] = k]
<1>1. IsFiniteSet(js) /\ n \in Nat
  BY JobsAreFinite, FS_Subset, FS_CardinalityType
<1>2. \A i, j \in js : /\ i[2] \in Int /\ j[2] \in Int
                       /\ i # j => i[2] # j[2]
  BY ExperimentSchedulerAssumption DEF JobsOf
<1>3. \A j \in js : IsFiniteSet(upTo(j)) /\ Cardinality(upTo(j)) \in 1 .. n
  <2>1. ASSUME NEW j \in js
        PROVE  IsFiniteSet(upTo(j)) /\ Cardinality(upTo(j)) \in 1 .. n
    <3>1. upTo(j) \in SUBSET js /\ upTo(j) # {}
      BY <1>2
    <3>. HIDE DEF upTo
    <3>2. IsFiniteSet(upTo(j)) /\ Cardinality(upTo(j)) <= n
      BY <1>1, <3>1, FS_Subset
    <3>3. Cardinality(upTo(j)) \in Nat /\ Cardinality(upTo(j)) # 0
      BY <3>1, <3>2, FS_EmptySet, FS_CardinalityType
    <3> QED BY <1>1, <3>2, <3>3
  <2> QED BY <2>1
<1>4. ASSUME NEW i \in js, NEW j \in js, i[2] < j[2]
      PROVE  rank[i] < rank[j]
  <2>1. upTo(i) \in SUBSET upTo(j) /\ j \in upTo(j) /\ j \notin upTo(i)
    BY <1>2, <1>4
  <2>2. IsFiniteSet(upTo(i)) /\ IsFiniteSet(upTo(j)) /\ Cardinality(upTo(i)) \in 1 .. n
        /\ Cardinality(upTo(j)) \in 1 .. n
    BY <1>3
  <2>3. rank[i] = Cardinality(upTo(i)) /\ rank[j] = Cardinality(upTo(j))
    OBVIOUS
  <2>. HIDE DEF upTo, rank
  <2>4. Cardinality(upTo(i)) <= Cardinality(upTo(j)) /\ Cardinality(upTo(i)) # Cardinality(upTo(j))
    BY <2>1, <2>2, FS_Subset
  <2> QED BY <2>2, <2>3, <2>4
<1>5. rank \in [js -> 1 .. n]
  BY <1>3
<1>. HIDE DEF rank, upTo, n
<1>6. rank \in Injection(js, 1 .. n)
  BY <1>2, <1>4, <1>5 DEF Injection, IsInjective
<1>7. IsFiniteSet(1 .. n) /\ Cardinality(1 .. n) = n
  BY <1>1, FS_Interval
<1>8. rank \in Surjection(js, 1 .. n)
  BY <1>6, <1>7, FS_Injection DEF n
<1>9. \A k \in 1 .. n : inverse[k] \in js /\ rank[inverse[k]] = k
  BY <1>8 DEF Surjection
<1>10. inverse \in [1 .. n -> js]
  BY <1>9
<1>. HIDE DEF inverse
<1>11. \A i, k \in DOMAIN inverse : i < k => inverse[i][2] < inverse[k][2]
  <2>1. ASSUME NEW i \in 1 .. n, NEW k \in 1 .. n, i < k
        PROVE  inverse[i][2] < inverse[k][2]
    <3>1. inverse[i][2] \in Int /\ inverse[k][2] \in Int
      BY <1>2, <1>9
    <3>2. ~ (inverse[k][2] < inverse[i][2])
      BY <1>4, <1>9, <2>1
    <3>3. inverse[k][2] # inverse[i][2]
      BY <1>2, <1>9, <2>1
    <3> QED BY <3>1, <3>2, <3>3
  <2> QED BY <1>10, <2>1
<1> DEFINE f == InOrder(js)
<1>12. /\ f \in [1 .. n -> js]
       /\ \A i, k \in DOMAIN f : i < k => f[i][2] < f[k][2]
  BY <1>10, <1>11 DEF InOrder, n
<1>. HIDE DEF f
<1>13. f \in Injection(1 .. n, js)
  <2>1. ASSUME NEW i \in 1 .. n, NEW k \in 1 .. n, f[i] = f[k]
        PROVE  i = k
    <3>1. f[i][2] \in Int
      BY <1>2, <1>12
    <3>2. ~ (i < k) /\ ~ (k < i)
      BY <1>12, <2>1, <3>1
    <3> QED BY <1>1, <3>2
  <2> QED BY <1>12, <2>1 DEF Injection, IsInjective
<1>14. f \in Surjection(1 .. n, js)
  BY <1>1, <1>7, <1>13, FS_Injection DEF n
<1>15. f \in Seq(js)
  BY <1>1, <1>12, IsASeq
<1>16. ToSet(f) = js
  BY <1>12, <1>14 DEF Surjection, ToSet
<1>17. IsInjective(f)
  BY <1>13 DEF Injection
<1> QED BY <1>15, <1>16, <1>17 DEF f

-----------------------------------------------------------------------------
(* The steps, and the types.                                               *)

\* A change of a job's state: what a worker reports, refuses, or the user
\* cancels.  Only a job that no worker has is cancelled at once.
Changes(j, s) ==
    /\ SetJobState(j, s)
    /\ busy' \subseteq Workers
    /\ s \in JobStates \ {"SCHEDULED"}
    /\ s = "NEW" => \E w \in busy : wdJob[w] = j
    /\ s = "CANCELLED" \/ \E w \in Workers : wdJob[w] = j
    /\ UserMay = {} => \E w \in Workers : wdJob[w] = j

\* Steps that leave the jobs, and what is stored of them, as they are.
Elsewhere ==
    \/ \E e \in known, w \in Workers : ScheduleThrows(e, w)
    \/ \E e \in known : StartNext(e)
    \/ GiveUp
    \/ \E e \in Experiments : AddExperiment(e)
    \/ \E e \in Experiments, w \in Workers : Reassign(e, w)
    \/ UNCHANGED vars

Kinds ==
    \/ \E e \in known, w \in Workers : HandOut(e, w)
    \/ \E j \in Jobs, s \in JobStates : Changes(j, s)
    \/ \E j \in Jobs : Announce(j) \/ Write(j)
    \/ \E e \in Experiments : CancelExperiment(e)
    \/ \E w \in Workers : JobFinished(w)
    \/ \E knownWorkers \in SUBSET Workers : Restart(knownWorkers)
    \/ Elsewhere

LEMMA StepKinds ==
  ASSUME TypeOK, [Next]_vars
  PROVE  Kinds
<1>0. None \notin Jobs /\ None \notin Workers
  BY ExperimentSchedulerAssumption
<1>1. CASE Schedule
  BY <1>1 DEF Schedule, Kinds, Elsewhere
<1>2. ASSUME NEW w \in Workers, NEW s \in JobStates, WorkerReports(w, s)
      PROVE  Kinds
  <2>1. wdJob[w] \in Jobs
    BY <1>2 DEF TypeOK, WorkerReports
  <2>2. s \in JobStates \ {"SCHEDULED"} /\ s # "NEW"
    BY <1>2, ExperimentSchedulerAssumption DEF WorkerReports
  <2>3. busy' \subseteq Workers
    BY <1>2 DEF TypeOK, WorkerReports
  <2>4. Changes(wdJob[w], s)
    BY <1>2, <2>2, <2>3 DEF WorkerReports, Changes
  <2> QED BY <2>1, <2>4 DEF Kinds
<1>3. ASSUME NEW w \in Workers, WorkerRefuses(w)
      PROVE  Kinds
  <2>1. wdJob[w] \in Jobs /\ w \in busy
    BY <1>3 DEF TypeOK, WorkerRefuses
  <2>2. "NEW" \in JobStates \ {"SCHEDULED"} /\ busy \subseteq Workers
    BY DEF JobStates, PredefinedStates, TypeOK
  <2>3. Changes(wdJob[w], "NEW")
    BY <1>3, <2>1, <2>2 DEF WorkerRefuses, Changes
  <2> QED BY <2>1, <2>2, <2>3 DEF Kinds
<1>4. ASSUME NEW w \in Workers, JobFinished(w)
      PROVE  Kinds
  BY <1>4 DEF Kinds
<1>5. ASSUME NEW j \in Jobs, Announce(j) \/ Write(j)
      PROVE  Kinds
  BY <1>5 DEF Kinds
<1>6. CASE User
  <2>0. /\ {"CANCELLED", "CANCELLING"} \subseteq JobStates \ {"SCHEDULED", "NEW"}
        /\ busy \subseteq Workers
    BY DEF JobStates, PredefinedStates, FinalStates, TypeOK
  <2>1. ASSUME NEW j \in Jobs, CancelJob(j)
        PROVE  Kinds
    <3>1. CASE jobState[j] = "NEW" \/ jobWorker[j] = None
      <4>1. Changes(j, "CANCELLED")
        BY <2>0, <2>1, <3>1 DEF CancelJob, Changes
      <4> QED BY <2>0, <4>1 DEF Kinds
    <3>2. CASE ~ (jobState[j] = "NEW" \/ jobWorker[j] = None)
      <4> DEFINE k == wdJob[jobWorker[j]]
      <4>1. k # None /\ SetJobState(k, "CANCELLING") /\ UserMay # {} /\ busy' = busy
        BY <2>1, <3>2 DEF CancelJob
      <4>2. jobWorker[j] \in Workers /\ k \in Jobs
        BY <3>2, <4>1 DEF TypeOK
      <4>3. Changes(k, "CANCELLING")
        BY <2>0, <4>1, <4>2 DEF Changes
      <4> QED BY <2>0, <4>2, <4>3 DEF Kinds
    <3> QED BY <3>1, <3>2
  <2>2. ASSUME NEW j \in Jobs, RemoveJob(j)
        PROVE  Kinds
    <3>1. Changes(j, "CANCELLED")
      BY <2>0, <2>2 DEF RemoveJob, Changes
    <3> QED BY <2>0, <3>1 DEF Kinds
  <2> QED BY <1>6, <2>1, <2>2 DEF User, Kinds, Elsewhere
<1>7. ASSUME NEW knownWorkers \in SUBSET Workers, Restart(knownWorkers)
      PROVE  Kinds
  BY <1>7 DEF Kinds
<1>8. CASE UNCHANGED vars
  BY <1>8 DEF Kinds, Elsewhere
<1> QED BY <1>1, <1>2, <1>3, <1>4, <1>5, <1>6, <1>7, <1>8 DEF Next

LEMMA OutcomeFinishes ==
  \A e, f : Outcome(e, f) \in FinishStates
  BY DEF Outcome, FinishStates

\* setState keeps the experiment's state and the Scheduler's lists of their types.
LEMMA SetExperimentStateTypes ==
  ASSUME TypeOK, NEW e \in Experiments, NEW s \in ExperimentStates, SetExperimentState(e, s)
  PROVE  /\ expState' \in [Experiments -> ExperimentStates]
         /\ queue' \subseteq known
         /\ active' \in Seq(known)
         /\ waitingFor' \in [Workers -> known \cup {None}]
<1>1. expState' \in [Experiments -> ExperimentStates]
  BY DEF TypeOK, SetExperimentState
<1>4. waitingFor' \in [Workers -> known \cup {None}]
  BY DEF TypeOK, SetExperimentState
<1>0. queue \subseteq known /\ active \in Seq(known)
  BY DEF TypeOK
<1>5. CASE expState[e] # s /\ e \in known /\ s = "active"
  <2>1. queue' = queue \ {e} /\ active' = <<e>> \o active
    BY <1>5 DEF SetExperimentState
  <2>2. <<e>> \in Seq(known)
    BY <1>5
  <2> QED BY <1>0, <1>1, <1>4, <2>1, <2>2, ConcatProperties
<1>6. CASE ~ (expState[e] # s /\ e \in known /\ s = "active")
  <2>1. UNCHANGED <<queue, active>>
    BY <1>6 DEF SetExperimentState
  <2> QED BY <1>0, <1>1, <1>4, <2>1
<1> QED BY <1>5, <1>6

\* What the JobObserver sets the experiment's state to.
LEMMA ObserverSetsState ==
  ASSUME NEW j, NEW s, ObserveJobState(j, s)
  PROVE  \E t \in {"waiting", "active"} \cup FinishStates :
             /\ SetExperimentState(ExperimentOf(j), t)
             /\ t \in FinishStates =>
                    /\ Cardinality(finished'[ExperimentOf(j)]) = JobCount
                    /\ t = Outcome(ExperimentOf(j), finished'[ExperimentOf(j)])
<1> DEFINE e == ExperimentOf(j)
           t == IF Cardinality(finished'[e]) = JobCount THEN Outcome(e, finished'[e])
                ELSE IF running'[e] = <<>> /\ ~ begun'[e] THEN "waiting" ELSE "active"
<1>1. SetExperimentState(e, t)
  BY DEF ObserveJobState
<1>2. t \in {"waiting", "active"} \cup FinishStates
  BY OutcomeFinishes
<1>3. t \in FinishStates => Cardinality(finished'[e]) = JobCount /\ t = Outcome(e, finished'[e])
  BY DEF FinishStates
<1> QED BY <1>1, <1>2, <1>3

\* A list of elements of S is a list of elements of any larger set.
LEMMA SeqOfMore ==
  ASSUME NEW S, NEW T, S \subseteq T, NEW s \in Seq(S)
  PROVE  s \in Seq(T)
<1>1. Len(s) \in Nat /\ s \in [1 .. Len(s) -> S]
  BY LenProperties, ElementOfSeq
<1>2. s = [i \in 1 .. Len(s) |-> s[i]] /\ \A i \in 1 .. Len(s) : s[i] \in T
  BY <1>1
<1> QED BY <1>1, <1>2, IsASeq

LEMMA ListOfJobs ==
  ASSUME NEW e \in Experiments, NEW s \in Seq(JobsOf(e))
  PROVE  s \in Seq(Jobs)
  BY JobsBelong, SeqOfMore

\* The JobObserver keeps the lists of their types.
LEMMA ObserveJobStateTypes ==
  ASSUME TypeOK, NEW j \in Jobs, NEW s \in JobStates, ObserveJobState(j, s)
  PROVE  /\ expState' \in [Experiments -> ExperimentStates]
         /\ assigned' \in [Experiments -> SUBSET Workers]
         /\ unstarted' \in [Experiments -> Seq(Jobs)] /\ running' \in [Experiments -> Seq(Jobs)]
         /\ finished' \in [Experiments -> SUBSET Jobs]
         /\ \A e \in Experiments : unstarted'[e] \in Seq(JobsOf(e)) /\ running'[e] \in Seq(JobsOf(e))
         /\ \A e \in Experiments : finished'[e] \subseteq JobsOf(e)
         /\ begun' \in [Experiments -> BOOLEAN]
         /\ queue' \subseteq known
         /\ active' \in Seq(known)
         /\ waitingFor' \in [Workers -> known \cup {None}]
         /\ uncounted' \subseteq Jobs
<1> DEFINE d == ExperimentOf(j)
<1>1. d \in Experiments /\ j \in JobsOf(d)
  BY JobsBelong
<1>. HIDE DEF d
<1>2. \E t \in ExperimentStates : SetExperimentState(d, t)
  BY ObserverSetsState DEF ExperimentStates, d
<1>3. \A x : /\ RemoveFirst(unstarted[d], x) \in Seq(JobsOf(d))
             /\ RemoveFirst(running[d], x) \in Seq(JobsOf(d))
  BY <1>1, RemoveFirstKeeps DEF TypeOK
<1>4. Append(running[d], j) \in Seq(JobsOf(d))
  BY <1>1, AppendProperties DEF TypeOK
<1>5. ASSUME NEW e \in Experiments
      PROVE  unstarted'[e] \in Seq(JobsOf(e)) /\ running'[e] \in Seq(JobsOf(e))
  <2>1. unstarted'[e] \in {unstarted[e], IF e = d THEN RemoveFirst(unstarted[d], j) ELSE unstarted[e]}
    BY DEF TypeOK, ObserveJobState, d
  <2>2. running'[e] \in {running[e], IF e = d THEN RemoveFirst(running[d], j) ELSE running[e],
                                     IF e = d THEN Append(running[d], j) ELSE running[e]}
    BY DEF TypeOK, ObserveJobState, d
  <2>3. unstarted[e] \in Seq(JobsOf(e)) /\ running[e] \in Seq(JobsOf(e))
    BY DEF TypeOK
  <2> QED BY <1>3, <1>4, <2>1, <2>2, <2>3
<1>6. /\ finished' \in [Experiments -> SUBSET Jobs]
      /\ \A e \in Experiments : finished'[e] \subseteq JobsOf(e)
  BY <1>1 DEF TypeOK, ObserveJobState, d
<1>7. begun' \in [Experiments -> BOOLEAN] /\ assigned' = assigned /\ uncounted' = uncounted
  BY <1>1 DEF TypeOK, ObserveJobState, d
<1>8. assigned' \in [Experiments -> SUBSET Workers] /\ uncounted' \subseteq Jobs
  BY <1>7 DEF TypeOK
<1>9. unstarted' \in [Experiments -> Seq(Jobs)] /\ running' \in [Experiments -> Seq(Jobs)]
  <2>2. \E f \in {unstarted, [unstarted EXCEPT ![d] = RemoveFirst(@, j)]} : unstarted' = f
    BY DEF ObserveJobState, d
  <2>3. \E f \in {running, [running EXCEPT ![d] = RemoveFirst(@, j)], [running EXCEPT ![d] = Append(@, j)]} :
            running' = f
    BY DEF ObserveJobState, d
  <2>4. /\ unstarted \in [Experiments -> Seq(Jobs)]
        /\ running \in [Experiments -> Seq(Jobs)]
    BY DEF TypeOK
  <2>5. /\ RemoveFirst(unstarted[d], j) \in Seq(Jobs) /\ RemoveFirst(running[d], j) \in Seq(Jobs)
        /\ Append(running[d], j) \in Seq(Jobs)
    BY <1>1, <1>3, <1>4, ListOfJobs
  <2> QED BY <2>2, <2>3, <2>4, <2>5
<1> QED BY <1>1, <1>2, <1>5, <1>6, <1>7, <1>8, <1>9, SetExperimentStateTypes

\* A job the ControlServer observes has a worker, which SetJobState frees.
ObservedHaveWorkers == \A j \in observed : jobWorker[j] \in Workers

TypeInv == TypeOK /\ ObservedHaveWorkers

LEMMA SetJobStateTypes ==
  ASSUME TypeInv, NEW j \in Jobs, NEW s \in JobStates, SetJobState(j, s), busy' \subseteq Workers
  PROVE  TypeInv'
<1>1. /\ unemployed' \subseteq Workers
      /\ wdJob' \in [Workers -> Jobs \cup {None}]
      /\ observed' \subseteq observed
  <2>1. CASE IsFinal(s) /\ j \in observed
    <3>1. jobWorker[j] \in Workers
      BY <2>1 DEF TypeInv, ObservedHaveWorkers
    <3>2. /\ wdJob' = [wdJob EXCEPT ![jobWorker[j]] = None]
          /\ unemployed' = unemployed \cup {jobWorker[j]}
          /\ observed' = observed \ {j}
      BY <2>1 DEF SetJobState
    <3> QED BY <3>1, <3>2 DEF TypeInv, TypeOK
  <2>2. CASE ~ (IsFinal(s) /\ j \in observed)
    BY <2>2 DEF SetJobState, TypeInv, TypeOK
  <2> QED BY <2>1, <2>2
<1>2. UNCHANGED <<expVars, known, queue, active, waitingFor, scheduling, jobWorker, dbVars>>
  BY DEF SetJobState
<1>3. jobState' \in [Jobs -> JobStates] /\ pending' \in [Jobs -> JobStates \cup {None, "write"}]
  BY DEF SetJobState, TypeInv, TypeOK
<1> QED BY <1>1, <1>2, <1>3 DEF TypeInv, TypeOK, ObservedHaveWorkers, expVars, dbVars

\* The first unstarted job is one of the experiment.
LEMMA NextJobIsUnstarted ==
  ASSUME TypeOK, NEW e \in Experiments, NextJob(e) # None
  PROVE  NextJob(e) \in ToSet(unstarted[e]) /\ NextJob(e) \in JobsOf(e) /\ NextJob(e) \in Jobs
<1>1. unstarted[e] \in Seq(JobsOf(e)) /\ unstarted[e] # <<>> /\ NextJob(e) = Head(unstarted[e])
  BY DEF TypeOK, NextJob
<1>2. Len(unstarted[e]) \in Nat /\ Len(unstarted[e]) # 0
  BY <1>1, EmptySeq, LenProperties
<1>3. Head(unstarted[e]) = unstarted[e][1] /\ 1 \in 1 .. Len(unstarted[e])
  BY <1>1, <1>2, HeadTailProperties
<1>4. DOMAIN unstarted[e] = 1 .. Len(unstarted[e])
  BY <1>1, LenProperties
<1>5. NextJob(e) \in ToSet(unstarted[e])
  BY <1>1, <1>3, <1>4 DEF ToSet
<1>6. NextJob(e) \in JobsOf(e)
  BY <1>1, <1>3, ElementOfSeq
<1> QED BY <1>5, <1>6, JobsBelong

\* The lists that are loaded are lists of the experiment's jobs.
LEMMA LoadTypes ==
  ASSUME NEW e \in Experiments, NEW S
  PROVE  /\ Load(e, S) \in Seq(JobsOf(e)) /\ Load(e, S) \in Seq(Jobs)
         /\ ToSet(Load(e, S)) = {j \in JobsOf(e) : stored[j] \in S}
         /\ IsInjective(Load(e, S))
<1> DEFINE js == {j \in JobsOf(e) : stored[j] \in S}
<1>1. js \in SUBSET JobsOf(e) /\ Load(e, S) = InOrder(js)
  BY DEF Load
<1>. HIDE DEF js
<1>2. InOrder(js) \in Seq(js) /\ ToSet(InOrder(js)) = js /\ IsInjective(InOrder(js))
  BY <1>1, InOrderLists
<1>3. InOrder(js) \in Seq(JobsOf(e))
  BY <1>1, <1>2, SeqOfMore
<1>4. InOrder(js) \in Seq(Jobs)
  BY <1>3, ListOfJobs
<1> QED BY <1>1, <1>2, <1>3, <1>4 DEF js

LEMMA TypesKept ==
  ASSUME TypeInv, [Next]_vars
  PROVE  TypeInv'
<1>0. Kinds /\ TypeOK
  BY StepKinds DEF TypeInv
<1>1. ASSUME NEW e \in known, NEW w \in Workers, HandOut(e, w)
      PROVE  TypeInv'
  <2> DEFINE j == NextJob(e)
  <2>1. e \in Experiments /\ j \in Jobs
    BY <1>0, <1>1, NextJobIsUnstarted DEF TypeOK, HandOut, Finds
  <2>2. "SCHEDULED" \in JobStates
    BY DEF JobStates, PredefinedStates
  <2>3. ObserveJobState(j, "SCHEDULED")
    BY <1>1 DEF HandOut
  <2>. HIDE DEF j
  <2>4. /\ jobState' \in [Jobs -> JobStates] /\ jobWorker' \in [Jobs -> Workers \cup {None}]
        /\ wdJob' \in [Workers -> Jobs \cup {None}] /\ unemployed' \subseteq Workers
        /\ observed' = observed \cup {j} /\ observed' \subseteq Jobs
        /\ stored' \in [Jobs -> JobStates] /\ storedWorker' \in [Jobs -> Workers \cup {None}]
        /\ scheduling' = FALSE /\ UNCHANGED <<known, pending, busy, storedAssigned, restarts>>
    BY <1>0, <1>1, <2>1, <2>2 DEF TypeOK, HandOut, Written, j
  <2>5. \A i \in observed' : jobWorker'[i] \in Workers
    BY <1>0, <1>1, <2>1, <2>4 DEF TypeInv, TypeOK, ObservedHaveWorkers, HandOut, j
  <2> QED BY <1>0, <2>1, <2>2, <2>3, <2>4, <2>5, ObserveJobStateTypes
             DEF TypeInv, TypeOK, ObservedHaveWorkers
<1>2. ASSUME NEW j \in Jobs, NEW s \in JobStates, Changes(j, s)
      PROVE  TypeInv'
  BY <1>2, SetJobStateTypes DEF Changes
<1>3. ASSUME NEW j \in Jobs, Announce(j)
      PROVE  TypeInv'
  <2>1. pending[j] \in JobStates /\ ObserveJobState(j, pending[j])
    BY <1>3 DEF Announce
  <2>2. pending' \in [Jobs -> JobStates \cup {None, "write"}]
    BY <1>0, <1>3 DEF Announce, TypeOK
  <2>3. UNCHANGED <<known, unemployed, scheduling, jobState, jobWorker, wdJob, observed, busy, dbVars>>
    BY <1>3 DEF Announce
  <2> QED BY <1>0, <2>1, <2>2, <2>3, ObserveJobStateTypes DEF TypeInv, TypeOK, ObservedHaveWorkers, dbVars
<1>4. ASSUME NEW j \in Jobs, Write(j)
      PROVE  TypeInv'
  BY <1>0, <1>4 DEF Write, TypeInv, TypeOK, ObservedHaveWorkers, expVars, schedulerVars
<1>5. ASSUME NEW e \in Experiments, CancelExperiment(e)
      PROVE  TypeInv'
  <2> DEFINE told == {k \in Told(e) : jobState[k] # "CANCELLING"}
  <2>0. Killed(e) \subseteq JobsOf(e) /\ Killed(e) \subseteq Jobs /\ told \subseteq Jobs
    BY JobsBelong DEF Killed, Told
  <2>1. jobState' \in [Jobs -> JobStates]
    BY <1>0, <1>5 DEF CancelExperiment, TypeOK, JobStates, PredefinedStates, FinalStates
  <2>2. stored' \in [Jobs -> JobStates]
    BY <1>0, <1>5, <2>1 DEF CancelExperiment, TypeOK, Written
  <2>3. /\ finished' \in [Experiments -> SUBSET Jobs]
        /\ \A d \in Experiments : finished'[d] \subseteq JobsOf(d)
    BY <1>0, <1>5, <2>0 DEF CancelExperiment, TypeOK
  <2>4. expState' \in [Experiments -> ExperimentStates]
    BY <1>0, <1>5 DEF CancelExperiment, TypeOK, ExperimentStates, FinishStates
  <2>5. active' \in Seq(known) /\ queue' \subseteq known
    <3>1. active' = active \/ (e \in known /\ active' = <<e>> \o active)
      BY <1>5 DEF CancelExperiment
    <3>2. e \in known => <<e>> \in Seq(known)
      OBVIOUS
    <3>3. active \in Seq(known) /\ queue \subseteq known /\ queue' \subseteq queue
      BY <1>0, <1>5 DEF CancelExperiment, TypeOK
    <3> QED BY <3>1, <3>2, <3>3, ConcatProperties
  <2>6. waitingFor' \in [Workers -> known \cup {None}]
    BY <1>0, <1>5 DEF CancelExperiment, TypeOK
  <2>7. UNCHANGED <<assigned, unstarted, running, begun, uncounted, known, scheduling, jobWorker,
                    pending, busy, storedWorker, storedAssigned, restarts>>
    BY <1>5 DEF CancelExperiment
  <2>8. /\ wdJob' \in [Workers -> Jobs \cup {None}] /\ unemployed' \subseteq Workers
        /\ observed' \subseteq observed
    BY <1>0, <1>5 DEF CancelExperiment, TypeOK
  <2> QED BY <1>0, <2>1, <2>2, <2>3, <2>4, <2>5, <2>6, <2>7, <2>8 DEF TypeInv, TypeOK, ObservedHaveWorkers
<1>6. ASSUME NEW w \in Workers, JobFinished(w)
      PROVE  TypeInv'
  BY <1>0, <1>6 DEF JobFinished, TypeInv, TypeOK, ObservedHaveWorkers, expVars, dbVars
<1>7. ASSUME NEW knownWorkers \in SUBSET Workers, Restart(knownWorkers)
      PROVE  TypeInv'
  <2>1. restarts' \in 0 .. MaxRestarts
    BY <1>0, <1>7, ExperimentSchedulerAssumption DEF Restart, TypeOK
  <2>2. /\ unstarted' \in [Experiments -> Seq(Jobs)] /\ running' \in [Experiments -> Seq(Jobs)]
        /\ \A e \in Experiments : unstarted'[e] \in Seq(JobsOf(e)) /\ running'[e] \in Seq(JobsOf(e))
    BY <1>7, LoadTypes DEF Restart
  <2>3. /\ finished' \in [Experiments -> SUBSET Jobs]
        /\ \A e \in Experiments : finished'[e] \subseteq JobsOf(e)
    BY <1>7, LoadTypes, JobsBelong DEF Restart
  <2>4. expState' \in [Experiments -> ExperimentStates]
    BY <1>0, <1>7 DEF Restart, TypeOK, ExperimentStates
  <2>5. /\ assigned' \in [Experiments -> SUBSET Workers] /\ begun' \in [Experiments -> BOOLEAN]
        /\ jobState' \in [Jobs -> JobStates] /\ jobWorker' \in [Jobs -> Workers \cup {None}]
        /\ uncounted' \subseteq Jobs
    BY <1>0, <1>7 DEF Restart, TypeOK
  <2>6. /\ known' = {} /\ queue' = {} /\ active' = <<>> /\ scheduling' = FALSE
        /\ waitingFor' \in [Workers -> {None}]
        /\ unemployed' = Workers /\ wdJob' \in [Workers -> {None}] /\ pending' \in [Jobs -> {None}]
        /\ observed' = {} /\ busy' \subseteq Workers
        /\ UNCHANGED <<stored, storedWorker, storedAssigned>>
    BY <1>0, <1>7 DEF Restart, TypeOK
  <2>7. active' \in Seq(known')
    BY <2>6, EmptySeq
  <2>8. /\ waitingFor' \in [Workers -> known' \cup {None}] /\ wdJob' \in [Workers -> Jobs \cup {None}]
        /\ pending' \in [Jobs -> JobStates \cup {None, "write"}] /\ unemployed' \subseteq Workers
        /\ known' \subseteq Experiments /\ queue' \subseteq known' /\ scheduling' \in BOOLEAN
        /\ observed' \subseteq Jobs /\ busy' \subseteq Workers
    BY <2>6
  <2>9. /\ stored' \in [Jobs -> JobStates] /\ storedWorker' \in [Jobs -> Workers \cup {None}]
        /\ storedAssigned' \in [Experiments -> SUBSET Workers]
    BY <1>0, <2>6 DEF TypeOK
  <2>10. ObservedHaveWorkers'
    BY <2>6 DEF ObservedHaveWorkers
  <2> QED BY <2>1, <2>2, <2>3, <2>4, <2>5, <2>7, <2>8, <2>9, <2>10 DEF TypeInv, TypeOK
<1>8. CASE Elsewhere
  <2>1. ASSUME NEW e \in known, NEW w \in Workers, ScheduleThrows(e, w)
        PROVE  TypeInv'
    BY <1>0, <2>1 DEF ScheduleThrows, TypeInv, TypeOK, ObservedHaveWorkers, expVars, jobVars, dbVars
  <2>2. ASSUME NEW e \in known, StartNext(e)
        PROVE  TypeInv'
    <3>1. expState' \in [Experiments -> ExperimentStates]
      BY <1>0, <2>2 DEF StartNext, TypeOK, ExperimentStates
    <3>2. active' \in Seq(known)
      <4>1. active' = active \/ active' = <<e>> \o active
        BY <2>2 DEF StartNext
      <4>2. active \in Seq(known) /\ <<e>> \in Seq(known)
        BY <1>0 DEF TypeOK
      <4> QED BY <4>1, <4>2, ConcatProperties
    <3>3. waitingFor' \in [Workers -> known \cup {None}] /\ queue' \subseteq known /\ scheduling' = TRUE
      BY <1>0, <2>2 DEF StartNext, TypeOK
    <3> QED BY <1>0, <2>2, <3>1, <3>2, <3>3
               DEF StartNext, TypeInv, TypeOK, ObservedHaveWorkers, jobVars, dbVars
  <2>3. CASE GiveUp
    BY <1>0, <2>3 DEF GiveUp, TypeInv, TypeOK, ObservedHaveWorkers, expVars, jobVars, dbVars
  <2>4. ASSUME NEW e \in Experiments, AddExperiment(e)
        PROVE  TypeInv'
    <3>1. active' \in Seq(known') /\ waitingFor' \in [Workers -> known' \cup {None}]
      <4>1. active \in Seq(known) /\ waitingFor \in [Workers -> known \cup {None}]
        BY <1>0 DEF TypeOK
      <4>2. known \subseteq known' /\ active' = active /\ waitingFor' = waitingFor
        BY <2>4 DEF AddExperiment
      <4>3. active \in Seq(known')
        BY <4>1, <4>2, SeqOfMore
      <4> QED BY <4>1, <4>2, <4>3
    <3>2. /\ expState' \in [Experiments -> ExperimentStates] /\ known' \subseteq Experiments
          /\ queue' \subseteq known'
      BY <1>0, <2>4 DEF AddExperiment, TypeOK, ExperimentStates
    <3> QED BY <1>0, <2>4, <3>1, <3>2
               DEF AddExperiment, TypeInv, TypeOK, ObservedHaveWorkers, jobVars, dbVars
  <2>5. ASSUME NEW e \in Experiments, NEW w \in Workers, Reassign(e, w)
        PROVE  TypeInv'
    <3>1. assigned' \in [Experiments -> SUBSET Workers] /\ storedAssigned' \in [Experiments -> SUBSET Workers]
      BY <1>0, <2>5 DEF Reassign, TypeOK
    <3> QED BY <1>0, <2>5, <3>1 DEF Reassign, TypeInv, TypeOK, ObservedHaveWorkers, schedulerVars, jobVars
  <2>6. CASE UNCHANGED vars
    BY <1>0, <2>6 DEF TypeInv, TypeOK, ObservedHaveWorkers, vars, expVars, schedulerVars, jobVars, dbVars
  <2> QED BY <1>8, <2>1, <2>2, <2>3, <2>4, <2>5, <2>6 DEF Elsewhere
<1> QED BY <1>0, <1>1, <1>2, <1>3, <1>4, <1>5, <1>6, <1>7, <1>8 DEF Kinds

LEMMA TypesAtFirst == Init => TypeInv
<1> SUFFICES ASSUME Init PROVE TypeInv
  OBVIOUS
<1>1. JobCount \in Nat /\ MaxRestarts \in Nat /\ Assignments \subseteq [Experiments -> SUBSET Workers]
  BY ExperimentSchedulerAssumption
<1>2. ASSUME NEW e \in Experiments
      PROVE  unstarted[e] \in Seq(JobsOf(e)) /\ unstarted[e] \in Seq(Jobs)
  <2>1. [i \in 1 .. JobCount |-> <<e, i>>] \in Seq(JobsOf(e))
    BY <1>1, IsASeq DEF JobsOf
  <2> QED BY <2>1, ListOfJobs DEF Init
<1>3. "NEW" \in JobStates
  BY DEF JobStates, PredefinedStates
<1>4. active \in Seq(known) /\ <<>> \in Seq(Jobs) /\ \A e \in Experiments : <<>> \in Seq(JobsOf(e))
  BY EmptySeq DEF Init
<1>5. /\ unstarted \in [Experiments -> Seq(Jobs)] /\ running \in [Experiments -> Seq(Jobs)]
      /\ \A e \in Experiments : unstarted[e] \in Seq(JobsOf(e)) /\ running[e] \in Seq(JobsOf(e))
  BY <1>2, <1>4 DEF Init
<1>6. /\ finished \in [Experiments -> SUBSET Jobs] /\ \A e \in Experiments : finished[e] \subseteq JobsOf(e)
      /\ expState \in [Experiments -> ExperimentStates] /\ begun \in [Experiments -> BOOLEAN]
  BY DEF Init, ExperimentStates
<1>7. /\ assigned \in [Experiments -> SUBSET Workers] /\ storedAssigned = assigned
      /\ jobState \in [Jobs -> JobStates] /\ stored = jobState
      /\ jobWorker \in [Jobs -> {None}] /\ storedWorker = jobWorker
      /\ restarts \in 0 .. MaxRestarts
  BY <1>1, <1>3 DEF Init
<1>8. /\ known = {} /\ queue = {} /\ unemployed = Workers /\ scheduling = FALSE /\ uncounted = {}
      /\ observed = {} /\ busy = {} /\ waitingFor \in [Workers -> {None}] /\ wdJob \in [Workers -> {None}]
      /\ pending \in [Jobs -> {None}]
  BY DEF Init
<1>9. /\ waitingFor \in [Workers -> known \cup {None}] /\ wdJob \in [Workers -> Jobs \cup {None}]
      /\ pending \in [Jobs -> JobStates \cup {None, "write"}]
      /\ jobWorker \in [Jobs -> Workers \cup {None}] /\ storedWorker \in [Jobs -> Workers \cup {None}]
  BY <1>7, <1>8
<1>10. TypeOK
  BY <1>4, <1>5, <1>6, <1>7, <1>8, <1>9 DEF TypeOK
<1> QED BY <1>8, <1>10 DEF TypeInv, ObservedHaveWorkers

\* Every variable keeps its type, whatever the user does and whenever the server
\* crashes.
THEOREM TypesAlways == Spec => []TypeOK
<1>1. Init => TypeInv
  BY TypesAtFirst
<1>2. TypeInv /\ [Next]_vars => TypeInv'
  BY TypesKept
<1>3. TypeInv => TypeOK
  BY DEF TypeInv
<1> QED BY <1>1, <1>2, <1>3, PTL DEF Spec

-----------------------------------------------------------------------------
(* Jobs that have not been started.                                        *)

\* A job that waits to be started is listed once, no worker has it, and it is new
\* or has been cancelled.
UnstartedInv ==
    /\ \A e \in Experiments : IsInjective(unstarted[e])
    /\ \A e \in Experiments : \A j \in ToSet(unstarted[e]) :
           /\ jobState[j] \in {"NEW", "CANCELLED"}
           /\ UserMay = {} => jobState[j] = "NEW"
           /\ \A w \in Workers : wdJob[w] # j

\* The jobs in the list of an experiment belong to it.
LEMMA ListedJobs ==
  ASSUME NEW e \in Experiments, NEW s \in Seq(JobsOf(e)), NEW j \in ToSet(s)
  PROVE  j \in JobsOf(e) /\ j \in Jobs /\ ExperimentOf(j) = e
<1>1. DOMAIN s = 1 .. Len(s) /\ \A i \in 1 .. Len(s) : s[i] \in JobsOf(e)
  BY LenProperties, ElementOfSeq
<1>2. j \in JobsOf(e)
  BY <1>1 DEF ToSet
<1> QED BY <1>2, JobsBelong

\* The JobObserver takes a job from the unstarted ones when it has been scheduled.
LEMMA ObserverOfUnstarted ==
  ASSUME TypeOK, NEW j \in Jobs, NEW s \in JobStates, ObserveJobState(j, s),
         NEW e \in Experiments, IsInjective(unstarted[e])
  PROVE  /\ IsInjective(unstarted'[e])
         /\ ToSet(unstarted'[e]) \subseteq ToSet(unstarted[e])
         /\ s = "SCHEDULED" => j \notin ToSet(unstarted'[e])
         /\ \A k \in ToSet(unstarted[e]) : k # j \/ s # "SCHEDULED" => k \in ToSet(unstarted'[e])
<1> DEFINE d == ExperimentOf(j)
<1>1. d \in Experiments /\ j \in JobsOf(d)
  BY JobsBelong
<1>2. unstarted[e] \in Seq(JobsOf(e))
  BY DEF TypeOK
<1>3. unstarted'[e] = IF s = "SCHEDULED" /\ e = d THEN RemoveFirst(unstarted[e], j) ELSE unstarted[e]
  BY DEF TypeOK, ObserveJobState
<1>4. CASE s = "SCHEDULED" /\ e = d
  <2>1. unstarted'[e] = RemoveFirst(unstarted[e], j)
    BY <1>3, <1>4
  <2>2. /\ ToSet(RemoveFirst(unstarted[e], j)) \subseteq ToSet(unstarted[e])
        /\ \A k \in ToSet(unstarted[e]) : k # j => k \in ToSet(RemoveFirst(unstarted[e], j))
        /\ IsInjective(RemoveFirst(unstarted[e], j)) /\ j \notin ToSet(RemoveFirst(unstarted[e], j))
    BY <1>2, RemoveFirstKeeps
  <2> QED BY <1>4, <2>1, <2>2
<1>5. CASE ~ (s = "SCHEDULED" /\ e = d)
  <2>1. e # d => j \notin ToSet(unstarted[e])
    BY <1>2, ListedJobs
  <2> QED BY <1>3, <1>5, <2>1
<1> QED BY <1>4, <1>5

\* Steps that take no job to the unstarted ones, start none and leave those that
\* wait as they are.
LEMMA UnstartedSame ==
  ASSUME UnstartedInv, unstarted' = unstarted,
         \A j \in Jobs : \/ jobState'[j] = jobState[j]
                         \/ jobState'[j] = "CANCELLED" /\ UserMay # {}
                         \/ \E w \in Workers : wdJob[w] = j,
         \A w \in Workers : wdJob'[w] \in {wdJob[w], None},
         TypeOK
  PROVE  UnstartedInv'
<1>1. ASSUME NEW e \in Experiments, NEW j \in ToSet(unstarted[e])
      PROVE  j \in Jobs /\ j # None
  BY ListedJobs, ExperimentSchedulerAssumption DEF TypeOK
<1> QED BY <1>1 DEF UnstartedInv

LEMMA UnstartedKept ==
  ASSUME TypeInv, UnstartedInv, [Next]_vars
  PROVE  UnstartedInv'
<1>0. Kinds /\ TypeOK
  BY StepKinds DEF TypeInv
<1>1. ASSUME NEW e \in known, NEW w \in Workers, HandOut(e, w)
      PROVE  UnstartedInv'
  <2> DEFINE j == NextJob(e)
  <2>1. e \in Experiments /\ j \in Jobs /\ ObserveJobState(j, "SCHEDULED") /\ "SCHEDULED" \in JobStates
    BY <1>0, <1>1, NextJobIsUnstarted DEF TypeOK, HandOut, Finds, JobStates, PredefinedStates
  <2>2. /\ jobState' = [jobState EXCEPT ![j] = "SCHEDULED"]
        /\ wdJob' = [wdJob EXCEPT ![w] = j]
    BY <1>1 DEF HandOut
  <2>. HIDE DEF j
  <2>3. ASSUME NEW d \in Experiments
        PROVE  /\ IsInjective(unstarted'[d])
               /\ \A i \in ToSet(unstarted'[d]) : i # j /\ i \in ToSet(unstarted[d])
    BY <1>0, <2>1, ObserverOfUnstarted DEF UnstartedInv
  <2>4. ASSUME NEW d \in Experiments, NEW i \in ToSet(unstarted'[d])
        PROVE  /\ jobState'[i] = jobState[i]
               /\ \A v \in Workers : wdJob'[v] = wdJob[v] \/ wdJob'[v] = j
    <3>1. i \in ToSet(unstarted[d]) /\ i # j
      BY <2>3, <2>4
    <3>2. i \in Jobs
      BY <1>0, <3>1, ListedJobs DEF TypeOK
    <3> QED BY <1>0, <2>2, <3>1, <3>2 DEF TypeOK
  <2> QED BY <2>3, <2>4 DEF UnstartedInv
<1>2. ASSUME NEW j \in Jobs, NEW s \in JobStates, Changes(j, s)
      PROVE  UnstartedInv'
  <2>1. /\ unstarted' = unstarted
        /\ \A i \in Jobs : jobState'[i] = IF i = j THEN s ELSE jobState[i]
        /\ \A w \in Workers : wdJob'[w] \in {wdJob[w], None}
    BY <1>0, <1>2 DEF Changes, SetJobState, expVars, TypeOK
  <2>2. /\ s = "CANCELLED" \/ \E w \in Workers : wdJob[w] = j
        /\ UserMay = {} => \E w \in Workers : wdJob[w] = j
    BY <1>2 DEF Changes
  <2>3. \A i \in Jobs : \/ jobState'[i] = jobState[i]
                        \/ jobState'[i] = "CANCELLED" /\ UserMay # {}
                        \/ \E w \in Workers : wdJob[w] = i
    BY <2>1, <2>2
  <2> QED BY <1>0, <2>1, <2>3, UnstartedSame
<1>3. ASSUME NEW j \in Jobs, Announce(j)
      PROVE  UnstartedInv'
  <2>1. pending[j] \in JobStates /\ ObserveJobState(j, pending[j]) /\ UNCHANGED <<jobState, wdJob>>
    BY <1>3 DEF Announce
  <2> QED BY <1>0, <2>1, ObserverOfUnstarted DEF UnstartedInv
<1>4. ASSUME NEW j \in Jobs, Write(j)
      PROVE  UnstartedInv'
  BY <1>4 DEF Write, UnstartedInv, expVars
<1>5. ASSUME NEW e \in Experiments, CancelExperiment(e)
      PROVE  UnstartedInv'
  <2>1. unstarted' = unstarted /\ UserMay # {} /\ \A w \in Workers : wdJob'[w] \in {wdJob[w], None}
    BY <1>5 DEF CancelExperiment
  <2>2. ASSUME NEW i \in Jobs
        PROVE  \/ jobState'[i] \in {jobState[i], "CANCELLED"}
               \/ \E w \in Workers : wdJob[w] = i
    <3>1. ASSUME i \in Told(e)
          PROVE  \E w \in Workers : wdJob[w] = i
      <4>1. PICK k \in JobsOf(e) : jobWorker[k] # None /\ wdJob[jobWorker[k]] = i
        BY <3>1 DEF Told
      <4>2. jobWorker[k] \in Workers
        BY <1>0, <4>1, JobsBelong DEF TypeOK
      <4> QED BY <4>1, <4>2
    <3> QED BY <1>5, <3>1 DEF CancelExperiment
  <2> QED BY <1>0, <2>1, <2>2, UnstartedSame
<1>6. ASSUME NEW w \in Workers, JobFinished(w)
      PROVE  UnstartedInv'
  <2>1. unstarted' = unstarted /\ jobState' = jobState /\ \A v \in Workers : wdJob'[v] \in {wdJob[v], None}
    BY <1>0, <1>6 DEF JobFinished, expVars, TypeOK
  <2> QED BY <1>0, <2>1, UnstartedSame
<1>7. ASSUME NEW knownWorkers \in SUBSET Workers, Restart(knownWorkers)
      PROVE  UnstartedInv'
  <2>1. \A e \in Experiments : unstarted'[e] = Load(e, {"NEW"})
    BY <1>7 DEF Restart
  <2>2. ASSUME NEW e \in Experiments
        PROVE  /\ IsInjective(unstarted'[e])
               /\ \A j \in ToSet(unstarted'[e]) : stored[j] = "NEW" /\ j \in Jobs
    BY <2>1, LoadTypes, JobsBelong
  <2>3. jobState' = stored /\ \A w \in Workers : wdJob'[w] = None
    BY <1>7 DEF Restart
  <2> QED BY <2>2, <2>3, ExperimentSchedulerAssumption DEF UnstartedInv
<1>8. CASE Elsewhere
  <2>1. UNCHANGED <<unstarted, jobState, wdJob>>
    BY <1>8 DEF Elsewhere, ScheduleThrows, StartNext, GiveUp, AddExperiment, Reassign, vars, expVars, jobVars
  <2> QED BY <2>1 DEF UnstartedInv
<1> QED BY <1>0, <1>1, <1>2, <1>3, <1>4, <1>5, <1>6, <1>7, <1>8 DEF Kinds

LEMMA UnstartedAtFirst == Init => UnstartedInv
<1> SUFFICES ASSUME Init PROVE UnstartedInv
  OBVIOUS
<1>1. ASSUME NEW e \in Experiments
      PROVE  /\ IsInjective(unstarted[e])
             /\ \A j \in ToSet(unstarted[e]) : j \in Jobs
  <2>1. TypeOK
    BY TypesAtFirst DEF TypeInv
  <2>2. \A j \in ToSet(unstarted[e]) : j \in Jobs
    BY <2>1, ListedJobs DEF TypeOK
  <2>3. unstarted[e] = [i \in 1 .. JobCount |-> <<e, i>>]
    BY DEF Init
  <2>4. IsInjective(unstarted[e])
    BY <2>3 DEF IsInjective
  <2> QED BY <2>2, <2>4
<1> QED BY <1>1, ExperimentSchedulerAssumption DEF Init, UnstartedInv

-----------------------------------------------------------------------------
(* No job is handed out twice.                                             *)

\* No job of an experiment that may still be started was ever given to a worker,
\* and of a started one none that waits: a job that was, and is new again, was
\* refused, which takes it to no list, or is loaded with an experiment that has
\* been started before and cannot be again.
FreshInv ==
    \A e \in Experiments :
        /\ expState[e] \in {"new", "ready"} => \A j \in JobsOf(e) : storedWorker[j] = None
        /\ e \in known => \A j \in ToSet(unstarted[e]) : storedWorker[j] = None

\* An experiment whose JobObserver is called is no longer new.
LEMMA ObservedIsNotNew ==
  ASSUME TypeOK, NEW j \in Jobs, NEW s \in JobStates, ObserveJobState(j, s), NEW e \in Experiments
  PROVE  /\ expState'[e] \in {"new", "ready"} => expState[e] = expState'[e] /\ e # ExperimentOf(j)
         /\ e # ExperimentOf(j) => expState'[e] = expState[e]
<1>1. PICK t \in {"waiting", "active"} \cup FinishStates : SetExperimentState(ExperimentOf(j), t)
  BY ObserverSetsState
<1>2. expState' = [expState EXCEPT ![ExperimentOf(j)] = t] /\ t \notin {"new", "ready"}
  BY <1>1 DEF SetExperimentState, FinishStates
<1>3. expState'[e] = IF e = ExperimentOf(j) THEN t ELSE expState[e]
  BY <1>2 DEF TypeOK
<1> QED BY <1>2, <1>3

LEMMA FreshKept ==
  ASSUME TypeInv, UnstartedInv, FreshInv, [Next]_vars
  PROVE  FreshInv'
<1>0. Kinds /\ TypeOK
  BY StepKinds DEF TypeInv
<1>1. ASSUME NEW e \in known, NEW w \in Workers, HandOut(e, w)
      PROVE  FreshInv'
  <2> DEFINE j == NextJob(e)
  <2>1. e \in Experiments /\ j \in Jobs /\ ObserveJobState(j, "SCHEDULED") /\ "SCHEDULED" \in JobStates
    BY <1>0, <1>1, NextJobIsUnstarted DEF TypeOK, HandOut, Finds, JobStates, PredefinedStates
  <2>2. storedWorker' = [storedWorker EXCEPT ![j] = w] /\ known' = known
    BY <1>1 DEF HandOut
  <2>. HIDE DEF j
  <2>3. \A i \in Jobs : i # j => storedWorker'[i] = storedWorker[i]
    BY <1>0, <2>2 DEF TypeOK
  <2>4. ASSUME NEW d \in Experiments, expState'[d] \in {"new", "ready"}, NEW i \in JobsOf(d)
        PROVE  storedWorker'[i] = None
    <3>1. expState[d] \in {"new", "ready"} /\ d # ExperimentOf(j)
      BY <1>0, <2>1, <2>4, ObservedIsNotNew
    <3>2. i \in Jobs /\ i # j
      BY <3>1, JobsBelong
    <3> QED BY <2>3, <3>1, <3>2 DEF FreshInv
  <2>5. ASSUME NEW d \in Experiments, d \in known, NEW i \in ToSet(unstarted'[d])
        PROVE  storedWorker'[i] = None
    <3>1. i \in ToSet(unstarted[d]) /\ i # j
      BY <1>0, <2>1, ObserverOfUnstarted DEF UnstartedInv
    <3>2. i \in Jobs
      BY <1>0, <3>1, ListedJobs DEF TypeOK
    <3> QED BY <2>3, <2>5, <3>1, <3>2 DEF FreshInv
  <2> QED BY <2>2, <2>4, <2>5 DEF FreshInv
<1>2. ASSUME NEW j \in Jobs, NEW s \in JobStates, Changes(j, s)
      PROVE  FreshInv'
  BY <1>2 DEF Changes, SetJobState, FreshInv, expVars, dbVars
<1>3. ASSUME NEW j \in Jobs, Announce(j)
      PROVE  FreshInv'
  <2>1. pending[j] \in JobStates /\ ObserveJobState(j, pending[j]) /\ UNCHANGED <<known, storedWorker>>
    BY <1>3 DEF Announce, dbVars
  <2> QED BY <1>0, <2>1, ObservedIsNotNew, ObserverOfUnstarted DEF UnstartedInv, FreshInv
<1>4. ASSUME NEW j \in Jobs, Write(j)
      PROVE  FreshInv'
  BY <1>4 DEF Write, FreshInv, expVars, schedulerVars
<1>5. ASSUME NEW e \in Experiments, CancelExperiment(e)
      PROVE  FreshInv'
  <2>1. UNCHANGED <<unstarted, known, storedWorker>> /\ expState' = [expState EXCEPT ![e] = "cancelled"]
    BY <1>5 DEF CancelExperiment
  <2> QED BY <1>0, <2>1 DEF FreshInv, TypeOK
<1>6. ASSUME NEW w \in Workers, JobFinished(w)
      PROVE  FreshInv'
  BY <1>6 DEF JobFinished, FreshInv, expVars, dbVars
<1>7. ASSUME NEW knownWorkers \in SUBSET Workers, Restart(knownWorkers)
      PROVE  FreshInv'
  <2>1. /\ known' = {} /\ storedWorker' = storedWorker
        /\ expState' = [e \in Experiments |-> IF expState[e] = "ready" THEN "new" ELSE expState[e]]
    BY <1>7 DEF Restart
  <2> QED BY <2>1 DEF FreshInv
<1>8. CASE Elsewhere
  <2>1. ASSUME NEW e \in known, StartNext(e)
        PROVE  FreshInv'
    BY <1>0, <2>1 DEF StartNext, FreshInv, TypeOK, dbVars
  <2>2. ASSUME NEW e \in Experiments, AddExperiment(e)
        PROVE  FreshInv'
    <3>1. /\ expState[e] = "new" /\ expState' = [expState EXCEPT ![e] = "ready"]
          /\ known' = known \cup {e} /\ UNCHANGED <<unstarted, storedWorker>>
      BY <2>2 DEF AddExperiment, dbVars
    <3>2. \A j \in ToSet(unstarted[e]) : j \in JobsOf(e)
      BY <1>0, ListedJobs DEF TypeOK
    <3>3. \A d \in Experiments : expState'[d] = IF d = e THEN "ready" ELSE expState[d]
      BY <1>0, <3>1 DEF TypeOK
    <3> QED BY <3>1, <3>2, <3>3 DEF FreshInv
  <2>3. CASE UNCHANGED <<expState, known, unstarted, storedWorker>>
    BY <2>3 DEF FreshInv
  <2> QED BY <1>8, <2>1, <2>2, <2>3
          DEF Elsewhere, ScheduleThrows, GiveUp, Reassign, vars, expVars, schedulerVars, dbVars
<1> QED BY <1>0, <1>1, <1>2, <1>3, <1>4, <1>5, <1>6, <1>7, <1>8 DEF Kinds

LEMMA OnlyNewJobsAreHandedOut ==
  ASSUME TypeInv, UnstartedInv, FreshInv, [Next]_vars,
         NEW j \in Jobs, NEW w \in Workers, storedWorker[j] # None, wdJob'[w] = j
  PROVE  wdJob[w] = j
<1>0. Kinds /\ TypeOK /\ None \notin Jobs
  BY StepKinds, ExperimentSchedulerAssumption DEF TypeInv
<1>1. ASSUME NEW e \in known, NEW v \in Workers, HandOut(e, v)
      PROVE  wdJob[w] = j
  <2>1. e \in Experiments /\ NextJob(e) \in ToSet(unstarted[e]) /\ wdJob' = [wdJob EXCEPT ![v] = NextJob(e)]
    BY <1>0, <1>1, NextJobIsUnstarted DEF TypeOK, HandOut, Finds
  <2>2. storedWorker[NextJob(e)] = None
    BY <2>1 DEF FreshInv
  <2> QED BY <1>0, <2>1, <2>2 DEF TypeOK
<1>2. CASE \A v \in Workers : wdJob'[v] \in {wdJob[v], None}
  BY <1>0, <1>2
<1>3. ASSUME NEW i \in Jobs, NEW s \in JobStates, Changes(i, s)
      PROVE  \A v \in Workers : wdJob'[v] \in {wdJob[v], None}
  BY <1>0, <1>3 DEF Changes, SetJobState, TypeOK
<1>4. ASSUME NEW v \in Workers, JobFinished(v)
      PROVE  \A u \in Workers : wdJob'[u] \in {wdJob[u], None}
  BY <1>0, <1>4 DEF JobFinished, TypeOK
<1>5. ASSUME NEW i \in Jobs, Announce(i) \/ Write(i)
      PROVE  wdJob' = wdJob
  BY <1>5 DEF Announce, Write
<1>6. ASSUME NEW e \in Experiments, CancelExperiment(e)
      PROVE  \A v \in Workers : wdJob'[v] \in {wdJob[v], None}
  BY <1>6 DEF CancelExperiment
<1>7. ASSUME NEW knownWorkers \in SUBSET Workers, Restart(knownWorkers)
      PROVE  \A v \in Workers : wdJob'[v] = None
  BY <1>7 DEF Restart
<1>8. CASE Elsewhere
  <2>1. wdJob' = wdJob
    BY <1>8 DEF Elsewhere, ScheduleThrows, StartNext, GiveUp, AddExperiment, Reassign, vars, jobVars
  <2> QED BY <1>2, <2>1
<1> QED BY <1>0, <1>1, <1>2, <1>3, <1>4, <1>5, <1>6, <1>7, <1>8 DEF Kinds

\* A job that was once given to a worker is never given to another, nor to the
\* same again: not when a worker refuses it, nor when the server crashes, whatever
\* it then finds in the database, nor when the user cancels it.
THEOREM NoJobRunsTwiceAlways == Spec => NoJobRunsTwice
<1> DEFINE Inv == TypeInv /\ UnstartedInv /\ FreshInv
           Once == \A j \in Jobs, w \in Workers :
                       storedWorker[j] # None /\ wdJob'[w] = j => wdJob[w] = j
<1>1. Init => Inv
  <2>1. Init => FreshInv
    BY JobsBelong DEF Init, FreshInv
  <2> QED BY <2>1, TypesAtFirst, UnstartedAtFirst
<1>2. Inv /\ [Next]_vars => Inv'
  BY TypesKept, UnstartedKept, FreshKept
<1>3. Inv /\ [Next]_vars => [Once]_vars
  BY OnlyNewJobsAreHandedOut
<1> QED BY <1>1, <1>2, <1>3, PTL DEF Spec, NoJobRunsTwice

-----------------------------------------------------------------------------
(* Jobs and workers.                                                       *)

\* A job that the ControlServer observes has not ended and is the job of the worker
\* it was given to; the job of a worker is observed, and an unemployed worker has
\* none.
HeldInv ==
    /\ \A j \in observed : /\ jobWorker[j] \in Workers /\ wdJob[jobWorker[j]] = j
                            /\ ~ IsFinal(jobState[j])
    /\ \A w \in Workers :
           /\ w \in unemployed => wdJob[w] = None
           /\ wdJob[w] # None => wdJob[w] \in observed /\ jobWorker[wdJob[w]] = w

\* What schedule hands out was new.
LEMMA HandedOutWasNew ==
  ASSUME TypeInv, UnstartedInv, NEW e \in known, NEW w \in Workers, HandOut(e, w)
  PROVE  /\ NextJob(e) \in Jobs /\ jobState[NextJob(e)] = "NEW" /\ pending[NextJob(e)] = None
         /\ NextJob(e) \in ToSet(unstarted[e])
         /\ e \in Experiments /\ ExperimentOf(NextJob(e)) = e
         /\ ObserveJobState(NextJob(e), "SCHEDULED") /\ "SCHEDULED" \in JobStates
<1>1. TypeOK /\ e \in Experiments /\ NextJob(e) # None
  BY DEF TypeInv, TypeOK, HandOut, Finds
<1>2. /\ NextJob(e) \in ToSet(unstarted[e]) /\ NextJob(e) \in Jobs
      /\ ExperimentOf(NextJob(e)) = e
  BY <1>1, NextJobIsUnstarted, JobsBelong
<1>3. SetStateAccepts(jobState[NextJob(e)], "SCHEDULED") /\ pending[NextJob(e)] = None
      /\ ObserveJobState(NextJob(e), "SCHEDULED")
  BY DEF HandOut
<1>4. jobState[NextJob(e)] \in {"NEW", "CANCELLED"}
  BY <1>1, <1>2 DEF UnstartedInv
<1>5. jobState[NextJob(e)] # "CANCELLED"
  BY <1>3 DEF SetStateAccepts, IsStateTransitionAllowed, IsFinal, FinalStates
<1> QED BY <1>1, <1>2, <1>3, <1>4, <1>5 DEF JobStates, PredefinedStates

\* A job that cancel tells its worker to cancel is that worker's job.
LEMMA ToldAreHeld ==
  ASSUME TypeInv, HeldInv, NEW e \in Experiments, NEW k \in Told(e)
  PROVE  k \in Jobs /\ k \in observed /\ ~ IsFinal(jobState[k])
<1>1. PICK j \in JobsOf(e) : jobWorker[j] # None /\ wdJob[jobWorker[j]] = k
  BY DEF Told
<1>2. jobWorker[j] \in Workers /\ k \in Jobs /\ k # None
  BY <1>1, JobsBelong, ExperimentSchedulerAssumption DEF TypeInv, TypeOK, Told
<1> QED BY <1>1, <1>2 DEF HeldInv

LEMMA HeldKept ==
  ASSUME TypeInv, UnstartedInv, HeldInv, [Next]_vars
  PROVE  HeldInv'
<1>0. Kinds /\ TypeOK /\ None \notin Jobs /\ None \notin Workers /\ observed \subseteq Jobs
  BY StepKinds, ExperimentSchedulerAssumption DEF TypeInv, TypeOK
<1>1. ASSUME NEW e \in known, NEW w \in Workers, HandOut(e, w)
      PROVE  HeldInv'
  <2> DEFINE j == NextJob(e)
  <2>1. j \in Jobs /\ j # None /\ \A v \in Workers : wdJob[v] # j
    BY <1>0, <1>1, HandedOutWasNew DEF UnstartedInv
  <2>2. /\ jobState' = [jobState EXCEPT ![j] = "SCHEDULED"]
        /\ jobWorker' = [jobWorker EXCEPT ![j] = w]
        /\ wdJob' = [wdJob EXCEPT ![w] = j]
        /\ unemployed' = unemployed \ {w} /\ observed' = observed \cup {j}
    BY <1>1 DEF HandOut
  <2>3. w \in unemployed
    BY <1>1 DEF HandOut, Finds, Considers
  <2>. HIDE DEF j
  <2>4. /\ \A i \in Jobs : /\ jobState'[i] = IF i = j THEN "SCHEDULED" ELSE jobState[i]
                           /\ jobWorker'[i] = IF i = j THEN w ELSE jobWorker[i]
        /\ \A v \in Workers : wdJob'[v] = IF v = w THEN j ELSE wdJob[v]
    BY <1>0, <2>2 DEF TypeOK
  <2>5. wdJob[w] = None
    BY <2>3 DEF HeldInv
  <2>6. ~ IsFinal("SCHEDULED")
    BY DEF IsFinal, FinalStates
  <2>7. ASSUME NEW i \in observed'
        PROVE  jobWorker'[i] \in Workers /\ wdJob'[jobWorker'[i]] = i /\ ~ IsFinal(jobState'[i])
    <3>1. CASE i = j
      BY <2>1, <2>4, <2>6, <3>1
    <3>2. CASE i # j
      <4>1. i \in observed /\ i \in Jobs /\ i # None
        BY <1>0, <2>2, <3>2
      <4>2. jobWorker[i] \in Workers /\ wdJob[jobWorker[i]] = i /\ ~ IsFinal(jobState[i])
        BY <4>1 DEF HeldInv
      <4> QED BY <2>4, <2>5, <3>2, <4>1, <4>2
    <3> QED BY <3>1, <3>2
  <2>8. ASSUME NEW v \in Workers
        PROVE  /\ v \in unemployed' => wdJob'[v] = None
               /\ wdJob'[v] # None => wdJob'[v] \in observed' /\ jobWorker'[wdJob'[v]] = v
    <3>1. CASE v = w
      BY <2>1, <2>2, <2>4, <3>1
    <3>2. CASE v # w
      BY <1>0, <2>1, <2>2, <2>4, <3>2 DEF HeldInv
    <3> QED BY <3>1, <3>2
  <2> QED BY <2>7, <2>8 DEF HeldInv
<1>2. ASSUME NEW j \in Jobs, NEW s \in JobStates, Changes(j, s)
      PROVE  HeldInv'
  <2>1. SetJobState(j, s)
    BY <1>2 DEF Changes
  <2>2. /\ jobWorker' = jobWorker
        /\ \A i \in Jobs : jobState'[i] = IF i = j THEN s ELSE jobState[i]
    BY <1>0, <2>1 DEF SetJobState, TypeOK
  <2>3. CASE IsFinal(s) /\ j \in observed
    <3> DEFINE w == jobWorker[j]
    <3>1. w \in Workers /\ wdJob[w] = j /\ \A v \in Workers : wdJob[v] = j => v = w
      BY <1>0, <2>3 DEF HeldInv
    <3>2. /\ wdJob' = [wdJob EXCEPT ![w] = None]
          /\ unemployed' = unemployed \cup {w} /\ observed' = observed \ {j}
      BY <2>1, <2>3 DEF SetJobState
    <3>. HIDE DEF w
    <3>3. \A v \in Workers : wdJob'[v] = IF v = w THEN None ELSE wdJob[v]
      BY <1>0, <3>2 DEF TypeOK
    <3> QED BY <1>0, <2>2, <3>1, <3>2, <3>3 DEF HeldInv
  <2>4. CASE ~ (IsFinal(s) /\ j \in observed)
    <3>1. UNCHANGED <<wdJob, unemployed, observed>>
      BY <2>1, <2>4 DEF SetJobState
    <3> QED BY <1>0, <2>2, <2>4, <3>1 DEF HeldInv
  <2> QED BY <2>3, <2>4
<1>3. ASSUME NEW j \in Jobs, Announce(j) \/ Write(j)
      PROVE  HeldInv'
  <2>1. UNCHANGED <<jobState, wdJob, jobWorker, observed, unemployed>>
    BY <1>3 DEF Announce, Write, schedulerVars
  <2> QED BY <2>1 DEF HeldInv
<1>4. ASSUME NEW e \in Experiments, CancelExperiment(e)
      PROVE  HeldInv'
  <2>1. /\ \A w \in Workers : wdJob'[w] = IF wdJob[w] \in Killed(e) THEN None ELSE wdJob[w]
        /\ unemployed' = unemployed \cup {w \in Workers : wdJob[w] \in Killed(e)}
        /\ observed' = observed \ Killed(e) /\ jobWorker' = jobWorker
    BY <1>4 DEF CancelExperiment
  <2>2. \A j \in Jobs : j \notin Killed(e) => jobState'[j] \in {jobState[j], "CANCELLING"}
    BY <1>4 DEF CancelExperiment
  <2>3. ~ IsFinal("CANCELLING")
    BY DEF IsFinal, FinalStates
  <2> QED BY <1>0, <2>1, <2>2, <2>3 DEF HeldInv
<1>5. ASSUME NEW w \in Workers, JobFinished(w)
      PROVE  HeldInv'
  <2>1. /\ \A v \in Workers : wdJob'[v] = IF v = w THEN None ELSE wdJob[v]
        /\ unemployed' = unemployed \cup {w} /\ observed' = observed \ {wdJob[w]}
        /\ UNCHANGED <<jobState, jobWorker>>
    BY <1>0, <1>5 DEF JobFinished, TypeOK
  <2> QED BY <1>0, <2>1 DEF HeldInv
<1>6. ASSUME NEW knownWorkers \in SUBSET Workers, Restart(knownWorkers)
      PROVE  HeldInv'
  BY <1>6 DEF Restart, HeldInv
<1>7. CASE Elsewhere
  <2>1. UNCHANGED <<jobState, wdJob, jobWorker, observed, unemployed>>
    BY <1>7 DEF Elsewhere, ScheduleThrows, StartNext, GiveUp, AddExperiment, Reassign,
                vars, jobVars, schedulerVars
  <2> QED BY <2>1 DEF HeldInv
<1> QED BY <1>0, <1>1, <1>2, <1>3, <1>4, <1>5, <1>6, <1>7 DEF Kinds

LEMMA HeldAtFirst == Init => HeldInv
  BY ExperimentSchedulerAssumption DEF Init, HeldInv

-----------------------------------------------------------------------------
(* The results of jobs.                                                    *)

\* If the server may crash, the database holds the state of a job whose setState
\* has returned.
StoredInv == MaxRestarts > 0 => \A j \in Jobs : pending[j] = None => stored[j] = jobState[j]

LEMMA StoredKept ==
  ASSUME TypeInv, UnstartedInv, StoredInv, [Next]_vars
  PROVE  StoredInv'
<1>0. Kinds /\ TypeOK /\ None \notin JobStates /\ None # "write" /\ MaxRestarts \in Nat
  BY StepKinds, ExperimentSchedulerAssumption DEF TypeInv
<1>1. ASSUME NEW e \in known, NEW w \in Workers, HandOut(e, w)
      PROVE  StoredInv'
  <2>1. /\ NextJob(e) \in Jobs /\ pending' = pending
        /\ jobState' = [jobState EXCEPT ![NextJob(e)] = "SCHEDULED"]
        /\ stored' = Written([stored EXCEPT ![NextJob(e)] = "SCHEDULED"])
    BY <1>1, HandedOutWasNew DEF HandOut
  <2> QED BY <1>0, <2>1 DEF StoredInv, Written, TypeOK
<1>2. ASSUME NEW j \in Jobs, NEW s \in JobStates, Changes(j, s)
      PROVE  StoredInv'
  BY <1>0, <1>2 DEF Changes, SetJobState, StoredInv, dbVars, TypeOK
<1>3. ASSUME NEW j \in Jobs, Announce(j)
      PROVE  StoredInv'
  <2>1. /\ UNCHANGED <<jobState, stored>>
        /\ pending' = [pending EXCEPT ![j] = IF MaxRestarts = 0 THEN None ELSE "write"]
    BY <1>3 DEF Announce, dbVars
  <2> QED BY <1>0, <2>1 DEF StoredInv, TypeOK
<1>4. ASSUME NEW j \in Jobs, Write(j)
      PROVE  StoredInv'
  BY <1>0, <1>4 DEF Write, StoredInv, TypeOK
<1>5. ASSUME NEW e \in Experiments, CancelExperiment(e)
      PROVE  StoredInv'
  <2> DEFINE changed == Killed(e) \cup {k \in Told(e) : jobState[k] # "CANCELLING"}
  <2>1. /\ pending' = pending
        /\ stored' = Written([j \in Jobs |-> IF j \in changed THEN jobState'[j] ELSE stored[j]])
        /\ \A j \in Jobs : j \notin changed => jobState'[j] = jobState[j]
    BY <1>5 DEF CancelExperiment
  <2>. HIDE DEF changed
  <2> QED BY <1>0, <2>1 DEF StoredInv, Written
<1>6. ASSUME NEW w \in Workers, JobFinished(w)
      PROVE  StoredInv'
  BY <1>6 DEF JobFinished, StoredInv, dbVars
<1>7. ASSUME NEW knownWorkers \in SUBSET Workers, Restart(knownWorkers)
      PROVE  StoredInv'
  BY <1>7 DEF Restart, StoredInv
<1>8. CASE Elsewhere
  <2>1. UNCHANGED <<stored, jobState, pending>>
    BY <1>8 DEF Elsewhere, ScheduleThrows, StartNext, GiveUp, AddExperiment, Reassign, vars, jobVars, dbVars
  <2> QED BY <2>1 DEF StoredInv
<1> QED BY <1>0, <1>1, <1>2, <1>3, <1>4, <1>5, <1>6, <1>7, <1>8 DEF Kinds

\* The state of a job that has ended changes in no step, but may be lost with a
\* crash while setState has not returned.
LEMMA EndedJobsStay ==
  ASSUME TypeInv, UnstartedInv, StoredInv, HeldInv, [Next]_vars,
         NEW j \in Jobs, IsFinal(jobState[j]), pending[j] = None \/ MaxRestarts = 0
  PROVE  jobState'[j] = jobState[j]
<1>0. Kinds /\ TypeOK /\ None \notin Jobs /\ MaxRestarts \in Nat
  BY StepKinds, ExperimentSchedulerAssumption DEF TypeInv
<1>1. ASSUME NEW e \in known, NEW w \in Workers, HandOut(e, w)
      PROVE  jobState'[j] = jobState[j]
  <2>1. /\ NextJob(e) \in Jobs /\ jobState[NextJob(e)] = "NEW"
        /\ jobState' = [jobState EXCEPT ![NextJob(e)] = "SCHEDULED"]
    BY <1>1, HandedOutWasNew DEF HandOut
  <2>2. ~ IsFinal("NEW")
    BY DEF IsFinal, FinalStates
  <2> QED BY <1>0, <2>1, <2>2 DEF TypeOK
<1>2. ASSUME NEW i \in Jobs, NEW s \in JobStates, Changes(i, s)
      PROVE  jobState'[j] = jobState[j]
  BY <1>0, <1>2 DEF Changes, SetJobState, IsStateTransitionAllowed, TypeOK
<1>3. ASSUME NEW e \in Experiments, CancelExperiment(e)
      PROVE  jobState'[j] = jobState[j]
  <2>1. j \notin Killed(e)
    BY DEF Killed, IsFinal, FinalStates
  <2>2. j \notin Told(e)
    BY ToldAreHeld
  <2> QED BY <1>3, <2>1, <2>2 DEF CancelExperiment
<1>4. ASSUME NEW knownWorkers \in SUBSET Workers, Restart(knownWorkers)
      PROVE  jobState'[j] = jobState[j]
  BY <1>0, <1>4 DEF Restart, StoredInv, TypeOK
<1>5. ASSUME NEW w \in Workers, JobFinished(w)
      PROVE  jobState'[j] = jobState[j]
  BY <1>5 DEF JobFinished
<1>6. ASSUME NEW i \in Jobs, Announce(i) \/ Write(i)
      PROVE  jobState'[j] = jobState[j]
  BY <1>6 DEF Announce, Write
<1>7. CASE Elsewhere
  BY <1>7 DEF Elsewhere, ScheduleThrows, StartNext, GiveUp, AddExperiment, Reassign, vars, jobVars
<1> QED BY <1>0, <1>1, <1>2, <1>3, <1>4, <1>5, <1>6, <1>7 DEF Kinds

\* The result of a job stays as it is, whatever the user does and whenever the
\* server crashes, once setState has returned.
THEOREM ResultsSurviveAlways == Spec => ResultsSurvive
<1> DEFINE Inv == TypeInv /\ UnstartedInv /\ StoredInv /\ HeldInv
           Stay == \A j \in Jobs : IsFinal(jobState[j]) /\ pending[j] = None => jobState'[j] = jobState[j]
<1>1. Init => Inv
  <2>1. Init => StoredInv
    BY DEF Init, StoredInv
  <2> QED BY <2>1, TypesAtFirst, UnstartedAtFirst, HeldAtFirst
<1>2. Inv /\ [Next]_vars => Inv'
  BY TypesKept, UnstartedKept, StoredKept, HeldKept
<1>3. Inv /\ [Next]_vars => [Stay]_vars
  BY EndedJobsStay
<1> QED BY <1>1, <1>2, <1>3, PTL DEF Spec, ResultsSurvive

-----------------------------------------------------------------------------
(* Assigned workers.                                                       *)

\* A worker is waited for by an experiment to which it is assigned.
AwaitedInv == \A w \in Workers : waitingFor[w] # None => w \in assigned[waitingFor[w]]

\* The JobObserver makes nobody wait for a worker.
LEMMA ObserverAwaitsNobody ==
  ASSUME TypeOK, NEW j \in Jobs, NEW s \in JobStates, ObserveJobState(j, s)
  PROVE  assigned' = assigned /\ \A w \in Workers : waitingFor'[w] \in {waitingFor[w], None}
<1>1. PICK t \in {"waiting", "active"} \cup FinishStates : SetExperimentState(ExperimentOf(j), t)
  BY ObserverSetsState
<1>2. \A w \in Workers : waitingFor'[w] \in {waitingFor[w], None}
  BY <1>1 DEF SetExperimentState, TypeOK
<1> QED BY <1>2 DEF ObserveJobState

LEMMA AssignedKept ==
  ASSUME MaxRestarts = 0, "reassign" \notin UserMay,
         TypeInv, UnstartedInv, AwaitedInv, AssignedWorkersOnly, [Next]_vars
  PROVE  AwaitedInv' /\ AssignedWorkersOnly'
<1>0. Kinds /\ TypeOK /\ None \notin Experiments
  BY StepKinds, ExperimentSchedulerAssumption DEF TypeInv
<1>1. ASSUME NEW e \in known, NEW w \in Workers, HandOut(e, w)
      PROVE  AwaitedInv' /\ AssignedWorkersOnly'
  <2> DEFINE j == NextJob(e)
  <2>1. /\ j \in Jobs /\ e \in Experiments /\ ExperimentOf(j) = e
        /\ ObserveJobState(j, "SCHEDULED") /\ "SCHEDULED" \in JobStates
    BY <1>1, HandedOutWasNew
  <2>2. Considers(e, w) /\ jobWorker' = [jobWorker EXCEPT ![j] = w]
    BY <1>1 DEF HandOut, Finds
  <2>. HIDE DEF j
  <2>3. assigned' = assigned /\ \A v \in Workers : waitingFor'[v] \in {waitingFor[v], None}
    BY <1>0, <2>1, ObserverAwaitsNobody
  <2>4. w \in assigned[e] \/ assigned[e] = {}
    BY <2>2 DEF Considers, Awaited, AwaitedInv
  <2>5. ASSUME NEW d \in Experiments, assigned'[d] # {}, NEW i \in JobsOf(d), jobWorker'[i] # None
        PROVE  jobWorker'[i] \in assigned'[d]
    <3>1. i \in Jobs /\ (i = j => d = e)
      BY <2>1, JobsBelong
    <3> QED BY <1>0, <2>2, <2>3, <2>4, <2>5, <3>1 DEF AssignedWorkersOnly, TypeOK
  <2> QED BY <2>3, <2>5 DEF AwaitedInv, AssignedWorkersOnly
<1>2. ASSUME NEW j \in Jobs, Announce(j)
      PROVE  AwaitedInv' /\ AssignedWorkersOnly'
  <2>1. pending[j] \in JobStates /\ ObserveJobState(j, pending[j]) /\ jobWorker' = jobWorker
    BY <1>2 DEF Announce
  <2>2. assigned' = assigned /\ \A v \in Workers : waitingFor'[v] \in {waitingFor[v], None}
    BY <1>0, <2>1, ObserverAwaitsNobody
  <2> QED BY <2>1, <2>2 DEF AwaitedInv, AssignedWorkersOnly
<1>3. ASSUME NEW e \in known, StartNext(e)
      PROVE  AwaitedInv' /\ AssignedWorkersOnly'
  <2>1. /\ UNCHANGED <<assigned, jobWorker>>
        /\ waitingFor' = [w \in Workers |-> IF w \in assigned[e] THEN e ELSE waitingFor[w]]
    BY <1>3 DEF StartNext, jobVars
  <2> QED BY <2>1 DEF AwaitedInv, AssignedWorkersOnly
<1>4. ASSUME NEW e \in Experiments, CancelExperiment(e)
      PROVE  AwaitedInv' /\ AssignedWorkersOnly'
  <2>1. /\ UNCHANGED <<assigned, jobWorker>>
        /\ \A w \in Workers : waitingFor'[w] \in {waitingFor[w], None}
    BY <1>4 DEF CancelExperiment
  <2> QED BY <2>1 DEF AwaitedInv, AssignedWorkersOnly
<1>5. CASE UNCHANGED <<assigned, jobWorker, waitingFor>>
  BY <1>5 DEF AwaitedInv, AssignedWorkersOnly
<1>6. ASSUME NEW j \in Jobs, NEW s \in JobStates, Changes(j, s)
      PROVE  UNCHANGED <<assigned, jobWorker, waitingFor>>
  BY <1>6 DEF Changes, SetJobState, expVars
<1>7. ASSUME NEW j \in Jobs, Write(j)
      PROVE  UNCHANGED <<assigned, jobWorker, waitingFor>>
  BY <1>7 DEF Write, expVars, schedulerVars
<1>8. ASSUME NEW w \in Workers, JobFinished(w)
      PROVE  UNCHANGED <<assigned, jobWorker, waitingFor>>
  BY <1>8 DEF JobFinished, expVars
<1>9. ASSUME NEW knownWorkers \in SUBSET Workers
      PROVE  ~ Restart(knownWorkers)
  BY <1>0 DEF Restart, TypeOK
<1>10. CASE Elsewhere
  <2>1. \/ \E e \in known : StartNext(e)
        \/ UNCHANGED <<assigned, jobWorker, waitingFor>>
    BY <1>10 DEF Elsewhere, ScheduleThrows, GiveUp, AddExperiment, Reassign, vars, expVars, schedulerVars, jobVars
  <2> QED BY <1>3, <1>5, <2>1
<1> QED BY <1>0, <1>1, <1>2, <1>4, <1>5, <1>6, <1>7, <1>8, <1>9, <1>10 DEF Kinds

\* While the server does not crash and nobody assigns workers anew, an experiment
\* to which workers are assigned runs its jobs on these only.
THEOREM AssignedWorkersOnlyAlways ==
  ASSUME MaxRestarts = 0, "reassign" \notin UserMay
  PROVE  Spec => []AssignedWorkersOnly
<1> DEFINE Inv == TypeInv /\ UnstartedInv /\ AwaitedInv /\ AssignedWorkersOnly
<1>1. Init => Inv
  <2>1. Init => AwaitedInv /\ AssignedWorkersOnly
    BY JobsBelong DEF Init, AwaitedInv, AssignedWorkersOnly
  <2> QED BY <2>1, TypesAtFirst, UnstartedAtFirst
<1>2. Inv /\ [Next]_vars => Inv'
  BY TypesKept, UnstartedKept, AssignedKept
<1> QED BY <1>1, <1>2, PTL DEF Spec

-----------------------------------------------------------------------------
(* The outcome of an experiment.                                           *)

\* The sizes of two sets without a common element add up.
LEMMA SizesAddUp ==
  ASSUME NEW A, NEW B, IsFiniteSet(A), IsFiniteSet(B), A \cap B = {}
  PROVE  /\ IsFiniteSet(A \cup B)
         /\ Cardinality(A \cup B) = Cardinality(A) + Cardinality(B)
         /\ Cardinality(A) \in Nat /\ Cardinality(B) \in Nat
<1>1. Cardinality(A \cap B) = 0
  BY FS_EmptySet
<1>2. Cardinality(A) \in Nat /\ Cardinality(B) \in Nat
  BY FS_CardinalityType
<1>3. /\ IsFiniteSet(A \cup B)
      /\ Cardinality(A \cup B) = Cardinality(A) + Cardinality(B) - Cardinality(A \cap B)
  BY FS_Union
<1> QED BY <1>1, <1>2, <1>3

\* The jobs of e that are in state s.
InState(e, s) == {j \in JobsOf(e) : jobState[j] = s}

\* If all jobs have ended, the four counters add up to the number of jobs.
LEMMA CountersAddUp ==
  ASSUME NEW e \in Experiments, uncounted = {}, \A j \in JobsOf(e) : IsFinal(jobState[j])
  PROVE  /\ \A s \in FinalStates : /\ Count(JobsOf(e), s) \in Nat
                                   /\ Count(JobsOf(e), s) = 0 <=> InState(e, s) = {}
         /\ JobCount = Count(JobsOf(e), "SUCCESS") + Count(JobsOf(e), "FAILED")
                       + Count(JobsOf(e), "CANCELLED") + Count(JobsOf(e), "ABORTED")
<1>0. IsFiniteSet(JobsOf(e)) /\ Cardinality(JobsOf(e)) = JobCount
  BY JobsAreFinite
<1>1. \A s \in FinalStates : IsFiniteSet(InState(e, s)) /\ Count(JobsOf(e), s) = Cardinality(InState(e, s))
  <2>1. ASSUME NEW s \in FinalStates
        PROVE  IsFiniteSet(InState(e, s)) /\ Count(JobsOf(e), s) = Cardinality(InState(e, s))
    <3>1. InState(e, s) \in SUBSET JobsOf(e)
      BY DEF InState
    <3>2. {j \in JobsOf(e) \ uncounted : jobState[j] = s} = InState(e, s)
      BY DEF InState
    <3> QED BY <1>0, <3>1, <3>2, FS_Subset DEF Count
  <2> QED BY <2>1
<1>2. \A s \in FinalStates : Count(JobsOf(e), s) \in Nat /\ (Count(JobsOf(e), s) = 0 <=> InState(e, s) = {})
  BY <1>1, FS_CardinalityType, FS_EmptySet
<1> DEFINE A == InState(e, "SUCCESS")
           B == InState(e, "FAILED")
           C == InState(e, "CANCELLED")
           D == InState(e, "ABORTED")
<1>3. /\ A \cap B = {} /\ (A \cup B) \cap C = {} /\ (A \cup B \cup C) \cap D = {}
      /\ A \cup B \cup C \cup D = JobsOf(e)
  BY DEF InState, IsFinal, FinalStates
<1>4. /\ IsFiniteSet(A) /\ IsFiniteSet(B) /\ IsFiniteSet(C) /\ IsFiniteSet(D)
      /\ Count(JobsOf(e), "SUCCESS") = Cardinality(A) /\ Count(JobsOf(e), "FAILED") = Cardinality(B)
      /\ Count(JobsOf(e), "CANCELLED") = Cardinality(C) /\ Count(JobsOf(e), "ABORTED") = Cardinality(D)
  BY <1>1 DEF FinalStates
<1>. HIDE DEF A, B, C, D
<1>5. IsFiniteSet(A \cup B) /\ Cardinality(A \cup B) = Cardinality(A) + Cardinality(B)
  BY <1>3, <1>4, SizesAddUp
<1>6. IsFiniteSet(A \cup B \cup C) /\ Cardinality(A \cup B \cup C) = Cardinality(A \cup B) + Cardinality(C)
  BY <1>3, <1>4, <1>5, SizesAddUp
<1>7. Cardinality(A \cup B \cup C \cup D) = Cardinality(A \cup B \cup C) + Cardinality(D)
  BY <1>3, <1>4, <1>6, SizesAddUp
<1>8. JobCount = Cardinality(A) + Cardinality(B) + Cardinality(C) + Cardinality(D)
  BY <1>0, <1>3, <1>5, <1>6, <1>7
<1> QED BY <1>2, <1>4, <1>8

\* What an experiment's final state says of its jobs.
Says(e, t, states) ==
    /\ t \in FinishStates
    /\ \A j \in JobsOf(e) : IsFinal(states[j])
    /\ t = "cancelled" => \A j \in JobsOf(e) : states[j] = "CANCELLED"
    /\ t = "success" => /\ \E j \in JobsOf(e) : states[j] = "SUCCESS"
                        /\ \A j \in JobsOf(e) : states[j] # "FAILED"
    /\ t = "failed" => \A j \in JobsOf(e) : states[j] # "SUCCESS"
    /\ t = "partial success" => /\ \E j \in JobsOf(e) : states[j] = "SUCCESS"
                                /\ \E j \in JobsOf(e) : states[j] = "FAILED"

\* The outcome is computed from the counters.
LEMMA OutcomeByCases ==
  ASSUME NEW e, NEW f, expState[e] # "cancelling"
  PROVE  LET significant == JobCount - Count(f, "CANCELLED") - Count(f, "ABORTED")
         IN  \/ Count(f, "CANCELLED") = JobCount /\ Outcome(e, f) = "cancelled"
             \/ Count(f, "FAILED") = significant /\ Outcome(e, f) = "failed"
             \/ /\ Count(f, "FAILED") # significant /\ Count(f, "SUCCESS") = significant
                /\ Outcome(e, f) = "success"
             \/ /\ Count(f, "FAILED") # significant /\ Count(f, "SUCCESS") # significant
                /\ Outcome(e, f) = "partial success"
<1> DEFINE significant == JobCount - Count(f, "CANCELLED") - Count(f, "ABORTED")
<1>1. Count(f, "CANCELLED") = JobCount => Outcome(e, f) = "cancelled"
  BY Zenon DEF Outcome
<1>2. ASSUME Count(f, "CANCELLED") # JobCount, Count(f, "FAILED") = significant
      PROVE  Outcome(e, f) = "failed"
  BY Zenon, <1>2 DEF Outcome
<1>3. ASSUME Count(f, "CANCELLED") # JobCount, Count(f, "FAILED") # significant
      PROVE  Outcome(e, f) = IF Count(f, "SUCCESS") = significant THEN "success" ELSE "partial success"
  BY Zenon, <1>3 DEF Outcome
<1> QED BY <1>1, <1>2, <1>3

LEMMA OutcomeSays ==
  ASSUME NEW e \in Experiments, uncounted = {}, \A j \in JobsOf(e) : IsFinal(jobState[j]),
         expState[e] # "cancelling"
  PROVE  Says(e, Outcome(e, JobsOf(e)), jobState)
<1> DEFINE t == Outcome(e, JobsOf(e))
           S == Count(JobsOf(e), "SUCCESS")
           F == Count(JobsOf(e), "FAILED")
           C == Count(JobsOf(e), "CANCELLED")
           A == Count(JobsOf(e), "ABORTED")
<1>1. /\ JobCount = S + F + C + A /\ S \in Nat /\ F \in Nat /\ C \in Nat /\ A \in Nat
      /\ S = 0 <=> InState(e, "SUCCESS") = {}
      /\ F = 0 <=> InState(e, "FAILED") = {}
      /\ A = 0 <=> InState(e, "ABORTED") = {}
  BY CountersAddUp DEF FinalStates
<1>2. \/ C = JobCount /\ t = "cancelled"
      \/ F = JobCount - C - A /\ t = "failed"
      \/ F # JobCount - C - A /\ S = JobCount - C - A /\ t = "success"
      \/ F # JobCount - C - A /\ S # JobCount - C - A /\ t = "partial success"
  BY OutcomeByCases
<1>3. t \in FinishStates
  BY OutcomeFinishes
<1>. HIDE DEF t, S, F, C, A
<1>4. /\ t = "cancelled" => S = 0 /\ F = 0 /\ A = 0
      /\ t = "success" => S # 0 /\ F = 0
      /\ t = "failed" => S = 0
      /\ t = "partial success" => S # 0 /\ F # 0
  <2>1. /\ C = JobCount => S = 0 /\ F = 0 /\ A = 0
        /\ F = JobCount - C - A => S = 0
        /\ S = JobCount - C - A => F = 0
        /\ F # JobCount - C - A => S # 0
        /\ S # JobCount - C - A => F # 0
    BY <1>1
  <2> QED BY <1>2, <2>1
<1>5. /\ t = "cancelled" => \A j \in JobsOf(e) : jobState[j] = "CANCELLED"
      /\ t = "success" => /\ \E j \in JobsOf(e) : jobState[j] = "SUCCESS"
                          /\ \A j \in JobsOf(e) : jobState[j] # "FAILED"
      /\ t = "failed" => \A j \in JobsOf(e) : jobState[j] # "SUCCESS"
      /\ t = "partial success" => /\ \E j \in JobsOf(e) : jobState[j] = "SUCCESS"
                                  /\ \E j \in JobsOf(e) : jobState[j] = "FAILED"
  BY <1>1, <1>4 DEF InState, IsFinal, FinalStates
<1> QED BY <1>3, <1>5 DEF Says, t

\* What is left to announce is the job's state, and the finished jobs are those
\* whose end has been announced.
FinishedInv ==
    /\ \A j \in Jobs : pending[j] \in JobStates => pending[j] = jobState[j]
    /\ \A e \in Experiments : \A j \in JobsOf(e) :
           j \in finished[e] <=> IsFinal(jobState[j]) /\ pending[j] \notin JobStates

\* The JobObserver takes a job that has ended to the finished ones.
LEMMA ObserverOfFinished ==
  ASSUME TypeOK, NEW j \in Jobs, NEW s \in JobStates, ObserveJobState(j, s)
  PROVE  \A e \in Experiments : \A i \in JobsOf(e) :
             i \in finished'[e] <=> i \in finished[e] \/ (i = j /\ IsFinal(s))
<1>1. ExperimentOf(j) \in Experiments /\ \A e \in Experiments : j \in JobsOf(e) <=> e = ExperimentOf(j)
  BY JobsBelong
<1>2. finished' = IF IsFinal(s) THEN [finished EXCEPT ![ExperimentOf(j)] = @ \cup {j}] ELSE finished
  BY DEF ObserveJobState
<1> QED BY <1>1, <1>2 DEF TypeOK

LEMMA FinishedKept ==
  ASSUME TypeInv, UnstartedInv, HeldInv, FinishedInv, [Next]_vars
  PROVE  FinishedInv'
<1>0. /\ Kinds /\ TypeOK /\ None \notin Jobs /\ None \notin JobStates /\ MaxRestarts \in Nat
      /\ \A e \in Experiments : JobsOf(e) \subseteq Jobs
  BY StepKinds, JobsBelong, ExperimentSchedulerAssumption DEF TypeInv
<1>1. "write" \notin JobStates
  BY DEF JobStates, PredefinedStates, FinalStates, Custom
<1>2. ASSUME NEW e \in known, NEW w \in Workers, HandOut(e, w)
      PROVE  FinishedInv'
  <2> DEFINE j == NextJob(e)
  <2>1. /\ j \in Jobs /\ jobState[j] = "NEW" /\ pending[j] = None /\ "SCHEDULED" \in JobStates
        /\ ObserveJobState(j, "SCHEDULED")
        /\ jobState' = [jobState EXCEPT ![j] = "SCHEDULED"] /\ pending' = pending
    BY <1>2, HandedOutWasNew DEF HandOut
  <2>. HIDE DEF j
  <2>2. ~ IsFinal("SCHEDULED") /\ ~ IsFinal("NEW")
    BY DEF IsFinal, FinalStates
  <2>3. \A d \in Experiments : \A i \in JobsOf(d) : i \in finished'[d] <=> i \in finished[d]
    BY <1>0, <2>1, <2>2, ObserverOfFinished
  <2>4. \A i \in Jobs : jobState'[i] = IF i = j THEN "SCHEDULED" ELSE jobState[i]
    BY <1>0, <2>1 DEF TypeOK
  <2> QED BY <1>0, <2>1, <2>2, <2>3, <2>4 DEF FinishedInv
<1>3. ASSUME NEW j \in Jobs, NEW s \in JobStates, Changes(j, s)
      PROVE  FinishedInv'
  <2>1. /\ finished' = finished /\ ~ IsFinal(jobState[j])
        /\ \A i \in Jobs : /\ jobState'[i] = IF i = j THEN s ELSE jobState[i]
                           /\ pending'[i] = IF i = j THEN s ELSE pending[i]
    BY <1>0, <1>3 DEF Changes, SetJobState, IsStateTransitionAllowed, expVars, TypeOK
  <2> QED BY <1>0, <2>1 DEF FinishedInv
<1>4. ASSUME NEW j \in Jobs, Announce(j)
      PROVE  FinishedInv'
  <2>1. /\ pending[j] \in JobStates /\ ObserveJobState(j, pending[j]) /\ jobState' = jobState
        /\ pending' = [pending EXCEPT ![j] = IF MaxRestarts = 0 THEN None ELSE "write"]
    BY <1>4 DEF Announce
  <2>2. \A i \in Jobs : pending'[i] = IF i = j THEN pending'[j] ELSE pending[i]
    BY <1>0, <2>1 DEF TypeOK
  <2>3. pending'[j] \notin JobStates
    BY <1>0, <1>1, <2>1 DEF TypeOK
  <2>4. \A e \in Experiments : \A i \in JobsOf(e) :
             i \in finished'[e] <=> i \in finished[e] \/ (i = j /\ IsFinal(pending[j]))
    BY <1>0, <2>1, ObserverOfFinished
  <2> QED BY <1>0, <2>1, <2>2, <2>3, <2>4 DEF FinishedInv
<1>5. ASSUME NEW j \in Jobs, Write(j)
      PROVE  FinishedInv'
  <2>1. /\ pending[j] = "write" /\ pending' = [pending EXCEPT ![j] = None]
        /\ UNCHANGED <<finished, jobState>>
    BY <1>5 DEF Write, expVars
  <2> QED BY <1>0, <1>1, <2>1 DEF FinishedInv, TypeOK
<1>6. ASSUME NEW e \in Experiments, CancelExperiment(e)
      PROVE  FinishedInv'
  <2> DEFINE told == {k \in Told(e) : jobState[k] # "CANCELLING"}
  <2>1. pending' = pending /\ \A i \in JobsOf(e) \cup told : pending[i] = None
    BY <1>0, <1>6 DEF CancelExperiment
  <2>2. ASSUME NEW i \in told
        PROVE  ~ IsFinal(jobState[i]) /\ i \notin Killed(e)
    BY ToldAreHeld DEF Killed
  <2>3. /\ IsFinal("CANCELLED") /\ ~ IsFinal("CANCELLING") /\ ~ IsFinal("NEW")
    BY DEF IsFinal, FinalStates
  <2>4. \A i \in Jobs : /\ i \in Killed(e) => jobState'[i] = "CANCELLED"
                        /\ i \in told /\ i \notin Killed(e) => jobState'[i] = "CANCELLING"
                        /\ i \notin told /\ i \notin Killed(e) => jobState'[i] = jobState[i]
    <3>1. jobState' = [i \in Jobs |-> CASE i \in Killed(e) -> "CANCELLED"
                                         [] i \in told      -> "CANCELLING"
                                         [] OTHER           -> jobState[i]]
      BY <1>6 DEF CancelExperiment
    <3>2. \A i \in Jobs : jobState'[i] = CASE i \in Killed(e) -> "CANCELLED"
                                            [] i \in told      -> "CANCELLING"
                                            [] OTHER           -> jobState[i]
      BY <3>1
    <3>3. \A i \in told : i \notin Killed(e)
      BY <2>2
    <3>. HIDE DEF told
    <3> QED BY Zenon, <3>2, <3>3
  <2>5. /\ \A d \in Experiments : finished'[d] = IF d = e THEN finished[e] \cup Killed(e) ELSE finished[d]
        /\ \A i \in Killed(e) : i \in JobsOf(e) /\ jobState[i] = "NEW"
        /\ \A d \in Experiments : d # e => \A i \in JobsOf(d) : i \notin Killed(e)
    BY <1>0, <1>6, JobsBelong DEF CancelExperiment, TypeOK, Killed
  <2>. HIDE DEF told
  <2>6. ASSUME NEW i \in Jobs, pending'[i] \in JobStates
        PROVE  pending'[i] = jobState'[i]
    <3>1. i \notin told /\ i \notin Killed(e) /\ pending[i] \in JobStates
      BY <1>0, <2>1, <2>5, <2>6
    <3> QED BY <2>1, <2>4, <3>1 DEF FinishedInv
  <2>7. ASSUME NEW d \in Experiments, NEW i \in JobsOf(d)
        PROVE  i \in finished'[d] <=> IsFinal(jobState'[i]) /\ pending'[i] \notin JobStates
    <3>0. i \in Jobs
      BY <1>0
    <3>1. CASE i \in Killed(e)
      BY <1>0, <2>1, <2>3, <2>4, <2>5, <3>0, <3>1
    <3>2. CASE i \in told
      BY <2>1, <2>2, <2>3, <2>4, <2>5, <3>0, <3>2 DEF FinishedInv
    <3>3. CASE i \notin told /\ i \notin Killed(e)
      BY <2>1, <2>4, <2>5, <3>0, <3>3 DEF FinishedInv
    <3> QED BY <3>1, <3>2, <3>3
  <2> QED BY <2>6, <2>7 DEF FinishedInv
<1>7. ASSUME NEW w \in Workers, JobFinished(w)
      PROVE  FinishedInv'
  BY <1>7 DEF JobFinished, FinishedInv, expVars
<1>8. ASSUME NEW knownWorkers \in SUBSET Workers, Restart(knownWorkers)
      PROVE  FinishedInv'
  <2>1. jobState' = stored /\ \A j \in Jobs : pending'[j] = None
    BY <1>8 DEF Restart
  <2>2. \A e \in Experiments : finished'[e] = {j \in JobsOf(e) : stored[j] \in FinalStates}
    BY <1>8, LoadTypes DEF Restart
  <2> QED BY <1>0, <2>1, <2>2 DEF FinishedInv, IsFinal
<1>9. CASE Elsewhere
  <2>1. UNCHANGED <<finished, jobState, pending>>
    BY <1>9 DEF Elsewhere, ScheduleThrows, StartNext, GiveUp, AddExperiment, Reassign, vars, expVars, jobVars
  <2> QED BY <2>1 DEF FinishedInv
<1> QED BY <1>0, <1>2, <1>3, <1>4, <1>5, <1>6, <1>7, <1>8, <1>9 DEF Kinds

LEMMA FinishedAtFirst == Init => FinishedInv
<1>1. ~ IsFinal("NEW")
  BY DEF IsFinal, FinalStates
<1> QED BY <1>1, JobsBelong, ExperimentSchedulerAssumption DEF Init, FinishedInv

\* Every job that ended has been counted, and the state of an experiment that has
\* ended tells of its jobs.
OutcomeInv ==
    /\ uncounted = {}
    /\ \A e \in Experiments : expState[e] # "cancelling"
    /\ \A e \in Experiments : expState[e] \in FinishStates => Says(e, expState[e], jobState)

\* All steps but those that set an experiment's state to one of FinishStates.
LEMMA OutcomeStays ==
  ASSUME OutcomeInv, uncounted' = uncounted,
         \A j \in Jobs : IsFinal(jobState[j]) => jobState'[j] = jobState[j],
         \A e \in Experiments : \/ expState'[e] = expState[e]
                                \/ expState'[e] \notin FinishStates \cup {"cancelling"}
                                \/ Says(e, expState'[e], jobState') /\ expState'[e] # "cancelling"
  PROVE  OutcomeInv'
<1>1. ASSUME NEW e \in Experiments, NEW t, Says(e, t, jobState)
      PROVE  Says(e, t, jobState')
  <2>1. \A j \in JobsOf(e) : jobState'[j] = jobState[j]
    BY <1>1, JobsBelong DEF Says
  <2> QED BY <1>1, <2>1 DEF Says
<1> QED BY <1>1 DEF OutcomeInv, FinishStates

\* What the JobObserver sets an experiment's state to.
LEMMA ObserverTells ==
  ASSUME TypeOK, OutcomeInv, NEW j \in Jobs, NEW s \in JobStates, ObserveJobState(j, s),
         \A i \in finished'[ExperimentOf(j)] : IsFinal(jobState[i]),
         \A e \in Experiments : finished'[e] \subseteq JobsOf(e)
  PROVE  /\ uncounted' = uncounted
         /\ \A e \in Experiments :
               \/ expState'[e] = expState[e]
               \/ expState'[e] \notin FinishStates \cup {"cancelling"}
               \/ e = ExperimentOf(j) /\ Says(e, expState'[e], jobState) /\ expState'[e] # "cancelling"
<1> DEFINE d == ExperimentOf(j)
<1>1. PICK t \in {"waiting", "active"} \cup FinishStates :
          /\ SetExperimentState(d, t)
          /\ t \in FinishStates => Cardinality(finished'[d]) = JobCount /\ t = Outcome(d, finished'[d])
  BY ObserverSetsState
<1>2. d \in Experiments
  BY JobsBelong
<1>3. \A e \in Experiments : expState'[e] = IF e = d THEN t ELSE expState[e]
  BY <1>1 DEF SetExperimentState, TypeOK
<1>4. uncounted' = uncounted
  BY DEF ObserveJobState
<1>5. CASE t \in FinishStates
  <2>1. IsFiniteSet(JobsOf(d)) /\ Cardinality(JobsOf(d)) = JobCount
    BY <1>2, JobsAreFinite
  <2>2. finished'[d] \in SUBSET JobsOf(d) /\ Cardinality(finished'[d]) = Cardinality(JobsOf(d))
    BY <1>1, <1>2, <1>5, <2>1
  <2>3. finished'[d] = JobsOf(d)
    BY <2>1, <2>2, FS_Subset
  <2>4. Says(d, t, jobState)
    BY <1>1, <1>2, <1>5, <2>3, OutcomeSays DEF OutcomeInv
  <2> QED BY <1>3, <1>4, <1>5, <2>4 DEF FinishStates
<1>6. CASE t \notin FinishStates
  BY <1>1, <1>3, <1>4, <1>6
<1> QED BY <1>5, <1>6

LEMMA OutcomeKept ==
  ASSUME MaxRestarts = 0, "cancelExperiment" \notin UserMay,
         TypeInv, UnstartedInv, HeldInv, StoredInv, FinishedInv, OutcomeInv, [Next]_vars
  PROVE  OutcomeInv'
<1>0. Kinds /\ TypeOK
  BY StepKinds DEF TypeInv
<1>1. \A j \in Jobs : IsFinal(jobState[j]) => jobState'[j] = jobState[j]
  BY EndedJobsStay
<1>2. /\ \A e \in Experiments : JobsOf(e) \subseteq Jobs
      /\ \A e \in Experiments : finished[e] \subseteq JobsOf(e) /\ finished'[e] \subseteq JobsOf(e)
  BY JobsBelong, TypesKept DEF TypeInv, TypeOK
<1>3. ASSUME NEW e \in known, NEW w \in Workers, HandOut(e, w)
      PROVE  OutcomeInv'
  <2> DEFINE j == NextJob(e)
  <2>1. /\ j \in Jobs /\ jobState[j] = "NEW" /\ e \in Experiments /\ ExperimentOf(j) = e
        /\ ObserveJobState(j, "SCHEDULED") /\ "SCHEDULED" \in JobStates
    BY <1>3, HandedOutWasNew
  <2>. HIDE DEF j
  <2>2. ~ IsFinal("SCHEDULED") /\ ~ IsFinal("NEW")
    BY DEF IsFinal, FinalStates
  <2>3. \A i \in finished'[e] : IsFinal(jobState[i])
    <3>1. finished' = finished
      BY <2>1, <2>2 DEF ObserveJobState
    <3> QED BY <1>2, <2>1, <3>1 DEF FinishedInv
  <2>4. ~ Says(e, expState'[e], jobState)
    <3>1. j \in JobsOf(e) /\ ~ IsFinal(jobState[j])
      BY <2>1, <2>2, JobsBelong
    <3> QED BY <3>1 DEF Says
  <2>5. /\ uncounted' = uncounted
        /\ \A d \in Experiments : \/ expState'[d] = expState[d]
                                  \/ expState'[d] \notin FinishStates \cup {"cancelling"}
    BY <1>0, <1>2, <2>1, <2>3, <2>4, ObserverTells
  <2> QED BY <1>1, <2>5, OutcomeStays
<1>4. ASSUME NEW j \in Jobs, Announce(j)
      PROVE  OutcomeInv'
  <2>1. pending[j] \in JobStates /\ ObserveJobState(j, pending[j]) /\ jobState' = jobState
    BY <1>4 DEF Announce
  <2>2. pending[j] = jobState[j] /\ ExperimentOf(j) \in Experiments
    BY <2>1, JobsBelong DEF FinishedInv
  <2>3. \A i \in finished'[ExperimentOf(j)] : IsFinal(jobState[i])
    <3>1. \A i \in JobsOf(ExperimentOf(j)) :
              i \in finished'[ExperimentOf(j)] =>
                  i \in finished[ExperimentOf(j)] \/ (i = j /\ IsFinal(pending[j]))
      BY <1>0, <2>1, <2>2, ObserverOfFinished
    <3> QED BY <1>2, <2>2, <3>1 DEF FinishedInv
  <2>4. /\ uncounted' = uncounted
        /\ \A e \in Experiments :
               \/ expState'[e] = expState[e]
               \/ expState'[e] \notin FinishStates \cup {"cancelling"}
               \/ Says(e, expState'[e], jobState') /\ expState'[e] # "cancelling"
    BY <1>0, <1>2, <2>1, <2>3, ObserverTells
  <2> QED BY <1>1, <2>4, OutcomeStays
<1>5. ASSUME NEW e \in Experiments
      PROVE  ~ CancelExperiment(e)
  BY DEF CancelExperiment
<1>6. CASE UNCHANGED <<uncounted, expState>>
  BY <1>1, <1>6, OutcomeStays
<1>7. ASSUME NEW j \in Jobs, NEW s \in JobStates, Changes(j, s)
      PROVE  UNCHANGED <<uncounted, expState>>
  BY <1>7 DEF Changes, SetJobState, expVars
<1>8. ASSUME NEW j \in Jobs, Write(j)
      PROVE  UNCHANGED <<uncounted, expState>>
  BY <1>8 DEF Write, expVars
<1>9. ASSUME NEW w \in Workers, JobFinished(w)
      PROVE  UNCHANGED <<uncounted, expState>>
  BY <1>9 DEF JobFinished, expVars
<1>10. ASSUME NEW knownWorkers \in SUBSET Workers
       PROVE  ~ Restart(knownWorkers)
  BY <1>0 DEF Restart, TypeOK
<1>11. CASE Elsewhere
  <2>1. ASSUME NEW e \in Experiments, NEW t \in {"active", "ready"},
               expState' = [expState EXCEPT ![e] = t], uncounted' = uncounted
        PROVE  OutcomeInv'
    <3>1. \A d \in Experiments : \/ expState'[d] = expState[d]
                                 \/ expState'[d] \notin FinishStates \cup {"cancelling"}
      BY <1>0, <2>1 DEF TypeOK, FinishStates
    <3> QED BY <1>1, <2>1, <3>1, OutcomeStays
  <2>2. ASSUME NEW e \in known, StartNext(e)
        PROVE  OutcomeInv'
    <3>1. e \in Experiments /\ expState' = [expState EXCEPT ![e] = "active"] /\ uncounted' = uncounted
      BY <1>0, <2>2 DEF StartNext, TypeOK
    <3> QED BY <2>1, <3>1
  <2>3. ASSUME NEW e \in Experiments, AddExperiment(e)
        PROVE  OutcomeInv'
    BY <2>1, <2>3 DEF AddExperiment
  <2>4. \/ \E e \in known : StartNext(e)
        \/ \E e \in Experiments : AddExperiment(e)
        \/ UNCHANGED <<uncounted, expState>>
    BY <1>11 DEF Elsewhere, ScheduleThrows, GiveUp, Reassign, vars, expVars
  <2> QED BY <1>6, <2>2, <2>3, <2>4
<1> QED BY <1>0, <1>3, <1>4, <1>5, <1>6, <1>7, <1>8, <1>9, <1>10, <1>11 DEF Kinds

\* While the server does not crash and the user cancels no experiment as a whole,
\* the state of an experiment that has ended is what its counters say, for any
\* number of jobs, in whatever order they end and whatever comes late: what the
\* JobObserver has counted is what the jobs have come to.
THEOREM OutcomeMatchesJobsAlways ==
  ASSUME MaxRestarts = 0, "cancelExperiment" \notin UserMay
  PROVE  Spec => []OutcomeMatchesJobs
<1> DEFINE Inv == TypeInv /\ UnstartedInv /\ HeldInv /\ StoredInv /\ FinishedInv /\ OutcomeInv
<1>1. Init => Inv
  <2>1. Init => StoredInv /\ OutcomeInv
    BY DEF Init, StoredInv, OutcomeInv, FinishStates
  <2> QED BY <2>1, TypesAtFirst, UnstartedAtFirst, HeldAtFirst, FinishedAtFirst
<1>2. Inv /\ [Next]_vars => Inv'
  BY TypesKept, UnstartedKept, HeldKept, StoredKept, FinishedKept, OutcomeKept
<1>3. Inv => OutcomeMatchesJobs
  <2>1. ASSUME OutcomeInv, NEW e \in Experiments
        PROVE  LET results == {jobState[j] : j \in JobsOf(e)}
               IN  /\ expState[e] \in FinishStates => results \subseteq FinalStates
                   /\ expState[e] = "cancelled" => results = {"CANCELLED"}
                   /\ expState[e] = "success" => "SUCCESS" \in results /\ "FAILED" \notin results
                   /\ expState[e] = "failed" => "SUCCESS" \notin results
                   /\ expState[e] = "partial success" => {"SUCCESS", "FAILED"} \subseteq results
    <3>1. PICK j \in JobsOf(e) : TRUE
      <4>1. <<e, 1>> \in JobsOf(e)
        BY ExperimentSchedulerAssumption DEF JobsOf
      <4> QED BY <4>1
    <3> QED BY <2>1, <3>1 DEF OutcomeInv, Says, IsFinal, FinishStates
  <2> QED BY <2>1 DEF OutcomeMatchesJobs
<1> QED BY <1>1, <1>2, <1>3, PTL DEF Spec

-----------------------------------------------------------------------------
(* The lists of an experiment.                                             *)

\* A job that a worker has was given to it, and a new job that was never given to
\* a worker waits to be started.
WaitingInv ==
    /\ \A j \in Jobs, w \in Workers : wdJob[w] = j => storedWorker[j] # None
    /\ \A e \in Experiments : \A j \in JobsOf(e) :
           jobState[j] = "NEW" /\ storedWorker[j] = None => j \in ToSet(unstarted[e])

LEMMA WaitingKept ==
  ASSUME TypeInv, UnstartedInv, FinishedInv, WaitingInv, [Next]_vars
  PROVE  WaitingInv'
<1>0. /\ Kinds /\ TypeOK /\ None \notin Jobs \cup Workers
      /\ \A e \in Experiments : JobsOf(e) \subseteq Jobs
  BY StepKinds, JobsBelong, ExperimentSchedulerAssumption DEF TypeInv
<1>1. ASSUME NEW e \in known, NEW w \in Workers, HandOut(e, w)
      PROVE  WaitingInv'
  <2> DEFINE j == NextJob(e)
  <2>1. /\ j \in Jobs /\ ObserveJobState(j, "SCHEDULED") /\ "SCHEDULED" \in JobStates
        /\ jobState' = [jobState EXCEPT ![j] = "SCHEDULED"]
        /\ wdJob' = [wdJob EXCEPT ![w] = j] /\ storedWorker' = [storedWorker EXCEPT ![j] = w]
    BY <1>1, HandedOutWasNew DEF HandOut
  <2>. HIDE DEF j
  <2>2. /\ \A i \in Jobs : i # j => jobState'[i] = jobState[i] /\ storedWorker'[i] = storedWorker[i]
        /\ storedWorker'[j] = w /\ w # None
        /\ \A v \in Workers : wdJob'[v] \in {wdJob[v], j}
    BY <1>0, <2>1 DEF TypeOK
  <2>3. ASSUME NEW d \in Experiments, NEW i \in JobsOf(d), jobState'[i] = "NEW", storedWorker'[i] = None
        PROVE  i \in ToSet(unstarted'[d])
    <3>1. i \in Jobs /\ i # j /\ i \in ToSet(unstarted[d])
      BY <1>0, <2>2, <2>3 DEF WaitingInv
    <3>2. \A k \in ToSet(unstarted[d]) : k # j => k \in ToSet(unstarted'[d])
      BY <1>0, <2>1, ObserverOfUnstarted DEF UnstartedInv
    <3> QED BY <3>1, <3>2
  <2>4. ASSUME NEW i \in Jobs, NEW v \in Workers, wdJob'[v] = i
        PROVE  storedWorker'[i] # None
    BY <2>2, <2>4 DEF WaitingInv
  <2> QED BY <2>3, <2>4 DEF WaitingInv
<1>2. ASSUME NEW j \in Jobs, NEW s \in JobStates, Changes(j, s)
      PROVE  WaitingInv'
  <2>1. /\ UNCHANGED <<unstarted, storedWorker>>
        /\ \A i \in Jobs : jobState'[i] = IF i = j THEN s ELSE jobState[i]
        /\ \A w \in Workers : wdJob'[w] \in {wdJob[w], None}
        /\ s = "NEW" => \E w \in Workers : wdJob[w] = j
    BY <1>0, <1>2 DEF Changes, SetJobState, expVars, dbVars, TypeOK
  <2> QED BY <1>0, <2>1 DEF WaitingInv
<1>3. ASSUME NEW j \in Jobs, Announce(j)
      PROVE  WaitingInv'
  <2>1. /\ pending[j] \in JobStates /\ ObserveJobState(j, pending[j])
        /\ UNCHANGED <<jobState, wdJob, storedWorker>>
    BY <1>3 DEF Announce, dbVars
  <2>2. pending[j] = jobState[j]
    BY <2>1 DEF FinishedInv
  <2>3. ASSUME NEW d \in Experiments, NEW i \in JobsOf(d), jobState'[i] = "NEW", storedWorker'[i] = None
        PROVE  i \in ToSet(unstarted'[d])
    <3>1. i \in ToSet(unstarted[d])
      BY <2>1, <2>3 DEF WaitingInv
    <3>2. i # j \/ pending[j] # "SCHEDULED"
      BY <2>1, <2>2, <2>3
    <3>3. \A k \in ToSet(unstarted[d]) : k # j \/ pending[j] # "SCHEDULED" => k \in ToSet(unstarted'[d])
      BY <1>0, <2>1, ObserverOfUnstarted DEF UnstartedInv
    <3> QED BY <3>1, <3>2, <3>3
  <2> QED BY <2>1, <2>3 DEF WaitingInv
<1>4. ASSUME NEW j \in Jobs, Write(j)
      PROVE  WaitingInv'
  BY <1>4 DEF Write, WaitingInv, expVars
<1>5. ASSUME NEW e \in Experiments, CancelExperiment(e)
      PROVE  WaitingInv'
  <2>1. /\ UNCHANGED <<unstarted, storedWorker>>
        /\ \A w \in Workers : wdJob'[w] \in {wdJob[w], None}
        /\ \A j \in Jobs : jobState'[j] \in {jobState[j], "CANCELLED", "CANCELLING"}
    BY <1>5 DEF CancelExperiment
  <2>2. \A j \in Jobs : jobState'[j] = "NEW" => jobState[j] = "NEW"
    BY <2>1
  <2> QED BY <1>0, <2>1, <2>2 DEF WaitingInv
<1>6. ASSUME NEW w \in Workers, JobFinished(w)
      PROVE  WaitingInv'
  <2>1. /\ UNCHANGED <<unstarted, jobState, storedWorker>>
        /\ \A v \in Workers : wdJob'[v] \in {wdJob[v], None}
    BY <1>0, <1>6 DEF JobFinished, TypeOK, expVars, dbVars
  <2> QED BY <1>0, <2>1 DEF WaitingInv
<1>7. ASSUME NEW knownWorkers \in SUBSET Workers, Restart(knownWorkers)
      PROVE  WaitingInv'
  <2>1. /\ jobState' = stored /\ \A w \in Workers : wdJob'[w] = None
        /\ \A e \in Experiments : unstarted'[e] = Load(e, {"NEW"})
    BY <1>7 DEF Restart
  <2>2. \A e \in Experiments : \A j \in JobsOf(e) : stored[j] = "NEW" => j \in ToSet(unstarted'[e])
    BY <2>1, LoadTypes
  <2> QED BY <1>0, <2>1, <2>2 DEF WaitingInv
<1>8. CASE Elsewhere
  <2>1. UNCHANGED <<unstarted, jobState, wdJob, storedWorker>>
    BY <1>8 DEF Elsewhere, ScheduleThrows, StartNext, GiveUp, AddExperiment, Reassign,
                vars, expVars, jobVars, dbVars
  <2> QED BY <2>1 DEF WaitingInv
<1> QED BY <1>0, <1>1, <1>2, <1>3, <1>4, <1>5, <1>6, <1>7, <1>8 DEF Kinds

LEMMA WaitingAtFirst == Init => WaitingInv
<1> SUFFICES ASSUME Init PROVE WaitingInv
  OBVIOUS
<1>1. ASSUME NEW e \in Experiments
      PROVE  \A j \in JobsOf(e) : j \in ToSet(unstarted[e])
  <2>1. unstarted[e] = [i \in 1 .. JobCount |-> <<e, i>>]
    BY DEF Init
  <2> QED BY <2>1 DEF ToSet, JobsOf
<1> QED BY <1>1, ExperimentSchedulerAssumption DEF Init, WaitingInv

\* Whatever the user does, workers refuse or report late, and whenever the server
\* crashes: the lists of an experiment say what has become of its jobs whenever no
\* notification is on its way, and no job that was never given away is forgotten.
THEOREM ListsMatchJobsAlways == Spec => []ListsMatchJobs
<1> DEFINE Inv == TypeInv /\ UnstartedInv /\ HeldInv /\ FinishedInv /\ WaitingInv
<1>1. Init => Inv
  BY TypesAtFirst, UnstartedAtFirst, HeldAtFirst, FinishedAtFirst, WaitingAtFirst
<1>2. Inv /\ [Next]_vars => Inv'
  BY TypesKept, UnstartedKept, HeldKept, FinishedKept, WaitingKept
<1>3. Inv => ListsMatchJobs
  <2>1. ASSUME Inv, NEW e \in Experiments, Settled(e)
        PROVE  /\ finished[e] = {j \in JobsOf(e) : IsFinal(jobState[j])}
               /\ {j \in JobsOf(e) : jobState[j] = "NEW" /\ storedWorker[j] = None} \subseteq ToSet(unstarted[e])
               /\ \A j \in ToSet(unstarted[e]) : jobState[j] \in {"NEW", "CANCELLED"}
               /\ IsInjective(unstarted[e])
    <3>1. TypeOK /\ None \notin JobStates
      BY <2>1, ExperimentSchedulerAssumption DEF TypeInv
    <3>2. /\ {j \in JobsOf(e) : jobState[j] = "NEW" /\ storedWorker[j] = None} \subseteq ToSet(unstarted[e])
          /\ \A j \in ToSet(unstarted[e]) : jobState[j] \in {"NEW", "CANCELLED"}
          /\ IsInjective(unstarted[e])
      BY <2>1 DEF UnstartedInv, WaitingInv
    <3>3. finished[e] = {j \in JobsOf(e) : IsFinal(jobState[j])}
      BY <2>1, <3>1 DEF FinishedInv, Settled, TypeOK
    <3> QED BY <3>2, <3>3
  <2> QED BY <2>1 DEF ListsMatchJobs
<1> QED BY <1>1, <1>2, <1>3, PTL DEF Spec

-----------------------------------------------------------------------------
(* What was given to workers, if the user only starts experiments.         *)

\* A job that a worker has, that has ended or whose state is being announced was
\* given to a worker.
GivenInv ==
    \A j \in Jobs :
        \/ \E w \in Workers : wdJob[w] = j
        \/ IsFinal(jobState[j]) \/ IsFinal(stored[j]) \/ pending[j] \in JobStates
        => storedWorker[j] # None

LEMMA GivenKept ==
  ASSUME UserMay = {}, TypeInv, UnstartedInv, GivenInv, [Next]_vars
  PROVE  GivenInv'
<1>0. Kinds /\ TypeOK /\ None \notin Jobs \cup JobStates \cup Workers
  BY StepKinds, ExperimentSchedulerAssumption DEF TypeInv
<1>1. "write" \notin JobStates /\ ~ IsFinal("SCHEDULED")
  BY DEF JobStates, PredefinedStates, FinalStates, Custom, IsFinal
<1>2. ASSUME NEW e \in known, NEW w \in Workers, HandOut(e, w)
      PROVE  GivenInv'
  <2> DEFINE j == NextJob(e)
  <2>1. /\ j \in Jobs /\ pending[j] = None /\ pending' = pending
        /\ jobState' = [jobState EXCEPT ![j] = "SCHEDULED"]
        /\ wdJob' = [wdJob EXCEPT ![w] = j]
        /\ stored' = stored \/ stored' = [stored EXCEPT ![j] = "SCHEDULED"]
        /\ storedWorker' = [storedWorker EXCEPT ![j] = w]
    BY <1>2, HandedOutWasNew DEF HandOut, Written
  <2>. HIDE DEF j
  <2>2. /\ \A i \in Jobs : i # j => /\ jobState'[i] = jobState[i] /\ stored'[i] = stored[i]
                                    /\ storedWorker'[i] = storedWorker[i] /\ pending'[i] = pending[i]
        /\ storedWorker'[j] = w
        /\ \A v \in Workers : wdJob'[v] = IF v = w THEN j ELSE wdJob[v]
    BY <1>0, <2>1 DEF TypeOK
  <2> QED BY <1>0, <2>1, <2>2 DEF GivenInv
<1>3. ASSUME NEW j \in Jobs, NEW s \in JobStates, Changes(j, s)
      PROVE  GivenInv'
  <2>1. /\ \E w \in Workers : wdJob[w] = j
        /\ \A i \in Jobs : i # j => jobState'[i] = jobState[i] /\ pending'[i] = pending[i]
        /\ \A w \in Workers : wdJob'[w] \in {wdJob[w], None}
        /\ UNCHANGED <<stored, storedWorker>>
    BY <1>0, <1>3 DEF Changes, SetJobState, dbVars, TypeOK
  <2> QED BY <1>0, <2>1 DEF GivenInv
<1>4. ASSUME NEW j \in Jobs, Announce(j)
      PROVE  GivenInv'
  <2>1. /\ UNCHANGED <<jobState, wdJob, stored, storedWorker>>
        /\ \A i \in Jobs : pending'[i] \in {pending[i], None, "write"}
    BY <1>0, <1>4 DEF Announce, dbVars, TypeOK
  <2> QED BY <1>0, <1>1, <2>1 DEF GivenInv
<1>5. ASSUME NEW j \in Jobs, Write(j)
      PROVE  GivenInv'
  <2>1. /\ UNCHANGED <<jobState, wdJob, storedWorker>>
        /\ \A i \in Jobs : pending'[i] \in {pending[i], None} /\ stored'[i] \in {stored[i], jobState[i]}
    BY <1>0, <1>5 DEF Write, TypeOK
  <2> QED BY <1>0, <1>1, <2>1 DEF GivenInv
<1>6. ASSUME NEW w \in Workers, JobFinished(w)
      PROVE  GivenInv'
  <2>1. /\ UNCHANGED <<jobState, pending, stored, storedWorker>>
        /\ \A v \in Workers : wdJob'[v] \in {wdJob[v], None}
    BY <1>0, <1>6 DEF JobFinished, dbVars, TypeOK
  <2> QED BY <1>0, <2>1 DEF GivenInv
<1>7. ASSUME NEW knownWorkers \in SUBSET Workers, Restart(knownWorkers)
      PROVE  GivenInv'
  <2>1. /\ UNCHANGED <<stored, storedWorker>> /\ jobState' = stored
        /\ \A v \in Workers : wdJob'[v] = None
        /\ \A j \in Jobs : pending'[j] = None
    BY <1>7 DEF Restart
  <2> QED BY <1>0, <2>1 DEF GivenInv
<1>8. CASE Elsewhere
  <2>1. UNCHANGED <<jobState, wdJob, pending, stored, storedWorker>>
    <3>1. ASSUME NEW e \in Experiments, NEW w \in Workers, Reassign(e, w)
          PROVE  FALSE
      BY <3>1 DEF Reassign
    <3> QED BY <1>8, <3>1 DEF Elsewhere, ScheduleThrows, StartNext, GiveUp, AddExperiment, vars, jobVars, dbVars
  <2> QED BY <2>1 DEF GivenInv
<1>9. ASSUME NEW e \in Experiments
      PROVE  ~ CancelExperiment(e)
  BY DEF CancelExperiment
<1> QED BY <1>0, <1>2, <1>3, <1>4, <1>5, <1>6, <1>7, <1>8, <1>9 DEF Kinds

\* The invariants that hold if the user only starts experiments, with those that
\* hold in any case.
PlainInv == TypeInv /\ UnstartedInv /\ FreshInv /\ HeldInv /\ FinishedInv /\ GivenInv

LEMMA PlainAtFirst == Init => PlainInv
<1>1. ~ IsFinal("NEW")
  BY DEF IsFinal, FinalStates
<1>2. Init => FreshInv /\ GivenInv
  BY <1>1, JobsBelong, ExperimentSchedulerAssumption DEF Init, FreshInv, GivenInv
<1> QED BY <1>2, TypesAtFirst, UnstartedAtFirst, HeldAtFirst, FinishedAtFirst DEF PlainInv

LEMMA PlainKept ==
  ASSUME UserMay = {}, PlainInv, [Next]_vars
  PROVE  PlainInv'
  BY TypesKept, UnstartedKept, FreshKept, HeldKept, FinishedKept, GivenKept DEF PlainInv

-----------------------------------------------------------------------------
(* Experiments that have finished, if the user only starts experiments.    *)

\* No state of a job of an experiment that has finished is announced any more,
\* nor will be: the job was given away, and no worker has it unless it has ended.
\* The queue holds the experiments that are ready.
EndedInv ==
    \A e \in Experiments :
        /\ expState[e] \in FinishStates =>
               \A j \in JobsOf(e) : /\ storedWorker[j] # None /\ pending[j] \notin JobStates
                                    /\ IsFinal(jobState[j]) \/ \A w \in Workers : wdJob[w] # j
        /\ e \in queue => expState[e] = "ready"

\* The JobObserver finishes an experiment when all its jobs are finished ones, and
\* otherwise, after the first job was given away, makes it active.
LEMMA ObserverFinishes ==
  ASSUME TypeOK, NEW j \in Jobs, NEW s \in JobStates, ObserveJobState(j, s),
         \A e \in Experiments : finished'[e] \subseteq JobsOf(e)
  PROVE  /\ \A e \in Experiments : e # ExperimentOf(j) => expState'[e] = expState[e]
         /\ expState'[ExperimentOf(j)] \in FinishStates => finished'[ExperimentOf(j)] = JobsOf(ExperimentOf(j))
         /\ queue' \subseteq queue
         /\ \/ expState'[ExperimentOf(j)] \in FinishStates
            \/ expState'[ExperimentOf(j)] = "waiting" /\ s # "SCHEDULED"
            \/ /\ expState'[ExperimentOf(j)] = "active"
               /\ \/ expState[ExperimentOf(j)] = "active"
                  \/ ExperimentOf(j) \notin known
                  \/ ExperimentOf(j) \notin queue'
<1> DEFINE d == ExperimentOf(j)
           t == IF Cardinality(finished'[d]) = JobCount THEN Outcome(d, finished'[d])
                ELSE IF running'[d] = <<>> /\ ~ begun'[d] THEN "waiting" ELSE "active"
<1>1. d \in Experiments /\ SetExperimentState(d, t)
  BY JobsBelong DEF ObserveJobState
<1>2. s = "SCHEDULED" => begun'[d]
  <2>1. begun' = [begun EXCEPT ![d] = @ \/ s \in {"SCHEDULED", "INITIALIZING"}]
    BY DEF ObserveJobState
  <2> QED BY <1>1, <2>1 DEF TypeOK
<1>3. /\ t \in FinishStates \/ (t = "waiting" /\ s # "SCHEDULED") \/ t = "active"
      /\ t \in FinishStates => Cardinality(finished'[d]) = JobCount
  BY <1>2, OutcomeFinishes DEF FinishStates
<1>. HIDE DEF t
<1>4. \A e \in Experiments : expState'[e] = IF e = d THEN t ELSE expState[e]
  BY <1>1 DEF SetExperimentState, TypeOK
<1>5. t \in FinishStates => finished'[d] = JobsOf(d)
  <2>1. IsFiniteSet(JobsOf(d)) /\ Cardinality(JobsOf(d)) = JobCount /\ finished'[d] \in SUBSET JobsOf(d)
    BY <1>1, JobsAreFinite
  <2> QED BY <1>3, <2>1, FS_Subset
<1>6. /\ queue' \subseteq queue
      /\ t = "active" /\ expState[d] # "active" /\ d \in known => d \notin queue'
  BY <1>1 DEF SetExperimentState
<1> QED BY <1>1, <1>3, <1>4, <1>5, <1>6

LEMMA EndedKept ==
  ASSUME UserMay = {}, PlainInv, EndedInv, [Next]_vars
  PROVE  /\ EndedInv'
         /\ \A e \in Experiments : expState[e] \in FinishStates => expState'[e] = expState[e]
<1>0. /\ TypeInv /\ TypeOK /\ UnstartedInv /\ FreshInv /\ FinishedInv /\ GivenInv /\ Kinds
      /\ None \notin Jobs \cup JobStates \cup Workers
      /\ queue \subseteq known /\ known \subseteq Experiments
  BY StepKinds, ExperimentSchedulerAssumption DEF PlainInv, TypeInv, TypeOK
<1>1. /\ FinishedInv' /\ GivenInv'
      /\ \A e \in Experiments : finished'[e] \subseteq JobsOf(e)
      /\ \A e \in Experiments : JobsOf(e) \subseteq Jobs
  BY PlainKept, JobsBelong DEF PlainInv, TypeInv, TypeOK
<1>2. "write" \notin JobStates /\ ~ IsFinal("SCHEDULED") /\ ~ IsFinal("NEW") /\ "SCHEDULED" \in JobStates
  BY DEF JobStates, PredefinedStates, FinalStates, Custom, IsFinal
<1>3. ASSUME NEW e \in known, NEW w \in Workers, HandOut(e, w)
      PROVE  /\ EndedInv'
             /\ \A d \in Experiments : expState[d] \in FinishStates => expState'[d] = expState[d]
  <2> DEFINE j == NextJob(e)
  <2>1. /\ j \in Jobs /\ jobState[j] = "NEW" /\ pending' = pending /\ e \in Experiments
        /\ ExperimentOf(j) = e /\ ObserveJobState(j, "SCHEDULED") /\ j \in ToSet(unstarted[e])
        /\ jobState' = [jobState EXCEPT ![j] = "SCHEDULED"]
        /\ wdJob' = [wdJob EXCEPT ![w] = j] /\ storedWorker' = [storedWorker EXCEPT ![j] = w]
    BY <1>0, <1>3, HandedOutWasNew DEF HandOut
  <2>. HIDE DEF j
  <2>2. /\ \A i \in Jobs : i # j => jobState'[i] = jobState[i] /\ storedWorker'[i] = storedWorker[i]
        /\ jobState'[j] = "SCHEDULED"
        /\ \A v \in Workers : wdJob'[v] \in {wdJob[v], j}
    BY <1>0, <2>1 DEF TypeOK
  <2>3. storedWorker[j] = None /\ j \in JobsOf(e)
    BY <1>0, <2>1, JobsBelong DEF FreshInv
  <2>4. expState[e] \notin FinishStates
    BY <2>1, <2>3 DEF EndedInv
  <2>5. expState'[e] \notin FinishStates
    <3>1. j \notin finished'[e]
      BY <1>1, <1>2, <2>1, <2>2, <2>3 DEF FinishedInv
    <3> QED BY <1>0, <1>1, <1>2, <2>1, <2>3, <3>1, ObserverFinishes
  <2>6. /\ \A d \in Experiments : d # e => expState'[d] = expState[d]
        /\ queue' \subseteq queue
        /\ e \in queue' => expState[e] = "active"
    BY <1>0, <1>1, <1>2, <2>1, <2>5, ObserverFinishes
  <2>7. ASSUME NEW d \in Experiments, expState'[d] \in FinishStates, NEW i \in JobsOf(d)
        PROVE  /\ storedWorker'[i] # None /\ pending'[i] \notin JobStates
               /\ IsFinal(jobState'[i]) \/ \A v \in Workers : wdJob'[v] # i
    <3>1. d # e /\ expState[d] \in FinishStates /\ i \in Jobs
      BY <1>1, <2>5, <2>6, <2>7
    <3>2. i # j
      BY <2>1, <3>1, JobsBelong
    <3> QED BY <2>1, <2>2, <3>1, <3>2 DEF EndedInv
  <2>8. \A d \in Experiments : d \in queue' => expState'[d] = "ready"
    BY <2>1, <2>6 DEF EndedInv
  <2>9. \A d \in Experiments : expState[d] \in FinishStates => expState'[d] = expState[d]
    BY <2>4, <2>6
  <2> QED BY <2>7, <2>8, <2>9 DEF EndedInv
<1>4. ASSUME NEW j \in Jobs, Announce(j)
      PROVE  /\ EndedInv'
             /\ \A d \in Experiments : expState[d] \in FinishStates => expState'[d] = expState[d]
  <2> DEFINE e == ExperimentOf(j)
  <2>1. /\ pending[j] \in JobStates /\ ObserveJobState(j, pending[j])
        /\ UNCHANGED <<jobState, wdJob, storedWorker>> /\ e \in Experiments /\ j \in JobsOf(e)
        /\ \A i \in Jobs : pending'[i] \in {pending[i], None, "write"}
    BY <1>0, <1>4, JobsBelong DEF Announce, dbVars, TypeOK
  <2>2. expState[e] \notin FinishStates /\ e \notin queue
    <3>1. storedWorker[j] # None
      BY <1>0, <2>1 DEF GivenInv
    <3> QED BY <1>0, <2>1, <3>1 DEF EndedInv, FreshInv
  <2>3. /\ \A d \in Experiments : d # e => expState'[d] = expState[d]
        /\ expState'[e] \in FinishStates => finished'[e] = JobsOf(e)
        /\ queue' \subseteq queue
    BY <1>0, <1>1, <2>1, ObserverFinishes
  <2>. HIDE DEF e
  <2>4. ASSUME NEW d \in Experiments, expState'[d] \in FinishStates, NEW i \in JobsOf(d)
        PROVE  /\ storedWorker'[i] # None /\ pending'[i] \notin JobStates
               /\ IsFinal(jobState'[i]) \/ \A v \in Workers : wdJob'[v] # i
    <3>1. CASE d = e
      <4>1. IsFinal(jobState'[i]) /\ pending'[i] \notin JobStates /\ i \in Jobs
        BY <1>1, <2>3, <2>4, <3>1 DEF FinishedInv
      <4> QED BY <1>1, <4>1 DEF GivenInv
    <3>2. CASE d # e
      <4>1. expState[d] \in FinishStates /\ i \in Jobs
        BY <1>1, <2>3, <2>4, <3>2
      <4> QED BY <1>0, <1>2, <2>1, <4>1 DEF EndedInv
    <3> QED BY <3>1, <3>2
  <2>5. \A d \in Experiments : d \in queue' => expState'[d] = "ready"
    BY <2>2, <2>3 DEF EndedInv
  <2>6. \A d \in Experiments : expState[d] \in FinishStates => expState'[d] = expState[d]
    BY <2>2, <2>3
  <2> QED BY <2>4, <2>5, <2>6 DEF EndedInv
<1>5. ASSUME UNCHANGED <<storedWorker>>,
             \A j \in Jobs : /\ pending'[j] \in {pending[j], None}
                             /\ IsFinal(jobState[j]) => IsFinal(jobState'[j]),
             \A w \in Workers : wdJob'[w] \in {wdJob[w], None},
             \A e \in Experiments :
                 /\ expState'[e] = expState[e] \/ (expState[e] \notin FinishStates /\ expState'[e] \notin FinishStates)
                 /\ e \in queue' => expState'[e] = "ready"
      PROVE  /\ EndedInv'
             /\ \A d \in Experiments : expState[d] \in FinishStates => expState'[d] = expState[d]
  <2>1. ASSUME NEW d \in Experiments, expState'[d] \in FinishStates, NEW i \in JobsOf(d)
        PROVE  /\ storedWorker'[i] # None /\ pending'[i] \notin JobStates
               /\ IsFinal(jobState'[i]) \/ \A v \in Workers : wdJob'[v] # i
    <3>1. expState[d] \in FinishStates /\ i \in Jobs
      BY <1>1, <1>5, <2>1
    <3>2. /\ storedWorker[i] # None /\ pending[i] \notin JobStates
          /\ IsFinal(jobState[i]) \/ \A v \in Workers : wdJob[v] # i
      BY <3>1 DEF EndedInv
    <3> QED BY <1>0, <1>5, <3>1, <3>2
  <2> QED BY <1>5, <2>1 DEF EndedInv
<1>6. ASSUME NEW j \in Jobs, NEW s \in JobStates, Changes(j, s)
      PROVE  /\ EndedInv'
             /\ \A d \in Experiments : expState[d] \in FinishStates => expState'[d] = expState[d]
  <2>1. /\ UNCHANGED <<expState, queue, storedWorker>>
        /\ \E w \in Workers : wdJob[w] = j
        /\ ~ IsFinal(jobState[j])
        /\ \A i \in Jobs : i # j => jobState'[i] = jobState[i] /\ pending'[i] = pending[i]
        /\ \A w \in Workers : wdJob'[w] \in {wdJob[w], None}
    BY <1>0, <1>6 DEF Changes, SetJobState, IsStateTransitionAllowed, expVars, dbVars, TypeOK
  <2>2. ASSUME NEW d \in Experiments, expState'[d] \in FinishStates, NEW i \in JobsOf(d)
        PROVE  /\ storedWorker'[i] # None /\ pending'[i] \notin JobStates
               /\ IsFinal(jobState'[i]) \/ \A v \in Workers : wdJob'[v] # i
    <3>1. /\ storedWorker[i] # None /\ pending[i] \notin JobStates /\ i \in Jobs
          /\ IsFinal(jobState[i]) \/ \A v \in Workers : wdJob[v] # i
      BY <1>1, <2>1, <2>2 DEF EndedInv
    <3>2. i # j
      BY <2>1, <3>1
    <3> QED BY <1>0, <2>1, <3>1, <3>2
  <2> QED BY <2>1, <2>2 DEF EndedInv
<1>7. ASSUME NEW j \in Jobs, Write(j)
      PROVE  /\ EndedInv'
             /\ \A d \in Experiments : expState[d] \in FinishStates => expState'[d] = expState[d]
  <2>1. /\ UNCHANGED <<expState, queue, jobState, wdJob, storedWorker>>
        /\ \A i \in Jobs : pending'[i] \in {pending[i], None}
    BY <1>0, <1>7 DEF Write, TypeOK, expVars, schedulerVars
  <2> QED BY <1>5, <2>1 DEF EndedInv
<1>8. ASSUME NEW w \in Workers, JobFinished(w)
      PROVE  /\ EndedInv'
             /\ \A d \in Experiments : expState[d] \in FinishStates => expState'[d] = expState[d]
  <2>1. /\ UNCHANGED <<expState, queue, jobState, pending, storedWorker>>
        /\ \A v \in Workers : wdJob'[v] \in {wdJob[v], None}
    BY <1>0, <1>8 DEF JobFinished, TypeOK, expVars, dbVars
  <2> QED BY <1>5, <2>1 DEF EndedInv
<1>9. ASSUME NEW knownWorkers \in SUBSET Workers, Restart(knownWorkers)
      PROVE  /\ EndedInv'
             /\ \A d \in Experiments : expState[d] \in FinishStates => expState'[d] = expState[d]
  <2>1. /\ storedWorker' = storedWorker /\ queue' = {}
        /\ \A j \in Jobs : pending'[j] = None
        /\ \A w \in Workers : wdJob'[w] = None
        /\ \A e \in Experiments : expState'[e] = IF expState[e] = "ready" THEN "new" ELSE expState[e]
    BY <1>9 DEF Restart
  <2>2. "ready" \notin FinishStates /\ "new" \notin FinishStates
    BY DEF FinishStates
  <2>3. \A e \in Experiments : \A i \in JobsOf(e) : i # None /\ i \in Jobs
    BY <1>0, <1>1
  <2> QED BY <1>0, <2>1, <2>2, <2>3 DEF EndedInv
<1>10. CASE Elsewhere
  <2>1. UNCHANGED <<jobState, wdJob, pending, storedWorker>>
    <3>1. ASSUME NEW e \in Experiments, NEW w \in Workers, Reassign(e, w)
          PROVE  FALSE
      BY <3>1 DEF Reassign
    <3> QED BY <1>10, <3>1
            DEF Elsewhere, ScheduleThrows, StartNext, GiveUp, AddExperiment, vars, jobVars, dbVars
  <2>2. \A e \in Experiments :
            /\ expState'[e] = expState[e] \/ (expState[e] \notin FinishStates /\ expState'[e] \notin FinishStates)
            /\ e \in queue' => expState'[e] = "ready"
    <3>1. ASSUME NEW e \in known, StartNext(e)
          PROVE  \A d \in Experiments :
                     /\ \/ expState'[d] = expState[d]
                        \/ expState[d] \notin FinishStates /\ expState'[d] \notin FinishStates
                     /\ d \in queue' => expState'[d] = "ready"
      <4>1. /\ e \in queue /\ queue' = queue \ {e}
            /\ \A d \in Experiments : expState'[d] = IF d = e THEN "active" ELSE expState[d]
        BY <1>0, <3>1 DEF StartNext, MostUrgent, TypeOK
      <4>2. "ready" \notin FinishStates /\ "active" \notin FinishStates
        BY DEF FinishStates
      <4> QED BY <1>0, <4>1, <4>2 DEF EndedInv
    <3>2. ASSUME NEW e \in Experiments, AddExperiment(e)
          PROVE  \A d \in Experiments :
                     /\ \/ expState'[d] = expState[d]
                        \/ expState[d] \notin FinishStates /\ expState'[d] \notin FinishStates
                     /\ d \in queue' => expState'[d] = "ready"
      <4>1. /\ expState[e] = "new" /\ queue' = queue \cup {e}
            /\ \A d \in Experiments : expState'[d] = IF d = e THEN "ready" ELSE expState[d]
        BY <1>0, <3>2 DEF AddExperiment, TypeOK
      <4>2. "ready" \notin FinishStates /\ "new" \notin FinishStates
        BY DEF FinishStates
      <4> QED BY <4>1, <4>2 DEF EndedInv
    <3>3. \/ \E e \in known : StartNext(e)
          \/ \E e \in Experiments : AddExperiment(e)
          \/ UNCHANGED <<expState, queue>>
      BY <1>10 DEF Elsewhere, ScheduleThrows, GiveUp, Reassign, vars, expVars, schedulerVars
    <3> QED BY <3>1, <3>2, <3>3 DEF EndedInv
  <2> QED BY <1>5, <2>1, <2>2
<1>11. ASSUME NEW e \in Experiments
       PROVE  ~ CancelExperiment(e)
  BY DEF CancelExperiment
<1> QED BY <1>0, <1>3, <1>4, <1>6, <1>7, <1>8, <1>9, <1>10, <1>11 DEF Kinds

\* If the user only starts experiments, one that has finished stays as it is, also
\* when the server crashes and is started again.
THEOREM FinishedStaysAlways ==
  ASSUME UserMay = {}
  PROVE  Spec => FinishedStays
<1> DEFINE Inv == PlainInv /\ EndedInv
           Stay == \A e \in Experiments : expState[e] \in FinishStates => expState'[e] = expState[e]
<1>1. Init => Inv
  <2>1. Init => EndedInv
    BY DEF Init, EndedInv, FinishStates
  <2> QED BY <2>1, PlainAtFirst
<1>2. Inv /\ [Next]_vars => Inv'
  BY PlainKept, EndedKept
<1>3. Inv /\ [Next]_vars => [Stay]_vars
  BY EndedKept
<1> QED BY <1>1, <1>2, <1>3, PTL DEF Spec, FinishedStays

-----------------------------------------------------------------------------
(* Whose turn it is, if the user only starts experiments.                  *)

Begins(e) == expState[e] \in {"active"} \cup FinishStates

\* An experiment among the active ones, or for which workers are kept, has been
\* started; one of whose jobs a worker has, or a state is being announced, has
\* begun, so that it does not become active a second time.
TurnInv ==
    /\ \A k \in 1 .. Len(active) : Begins(active[k])
    /\ \A w \in Workers : waitingFor[w] # None => Begins(waitingFor[w])
    /\ \A j \in Jobs : pending[j] \in JobStates \/ (\E w \in Workers : wdJob[w] = j)
                       => begun[ExperimentOf(j)] /\ Begins(ExperimentOf(j))

\* The JobObserver of an active experiment that has begun leaves it where it is.
LEMMA ObserverKeepsTurn ==
  ASSUME TypeOK, NEW j \in Jobs, NEW s \in JobStates, ObserveJobState(j, s),
         expState[ExperimentOf(j)] = "active", begun[ExperimentOf(j)] \/ s = "SCHEDULED"
  PROVE  /\ active' = active /\ assigned' = assigned
         /\ \A w \in Workers : waitingFor'[w] \in {waitingFor[w], None}
         /\ begun'[ExperimentOf(j)]
         /\ \A e \in Experiments : (begun[e] => begun'[e]) /\ (Begins(e) => Begins(e)')
         /\ \A e \in Experiments : unstarted[e] = <<>> => unstarted'[e] = <<>>
<1> DEFINE d == ExperimentOf(j)
           t == IF Cardinality(finished'[d]) = JobCount THEN Outcome(d, finished'[d])
                ELSE IF running'[d] = <<>> /\ ~ begun'[d] THEN "waiting" ELSE "active"
<1>1. d \in Experiments /\ SetExperimentState(d, t)
  BY JobsBelong DEF ObserveJobState
<1>2. \A e \in Experiments : begun'[e] = (begun[e] \/ (e = d /\ s \in {"SCHEDULED", "INITIALIZING"}))
  BY Zenon, <1>1 DEF ObserveJobState, TypeOK
<1>3. t \in {"active"} \cup FinishStates
  BY <1>1, <1>2, OutcomeFinishes
<1>4. \A e \in Experiments : unstarted[e] = <<>> => unstarted'[e] = <<>>
  <2>1. ASSUME NEW e \in Experiments, unstarted[e] = <<>>
        PROVE  unstarted'[e] = <<>>
    <3>1. unstarted'[e] = IF s = "SCHEDULED" /\ e = d THEN RemoveFirst(unstarted[e], j) ELSE unstarted[e]
      BY DEF TypeOK, ObserveJobState
    <3>2. RemoveFirst(<<>>, j) = <<>>
      BY DEF RemoveFirst
    <3> QED BY <2>1, <3>1, <3>2
  <2> QED BY <2>1
<1>. HIDE DEF t
<1>5. /\ \A e \in Experiments : expState'[e] = IF e = d THEN t ELSE expState[e]
      /\ \A w \in Workers : waitingFor'[w] \in {waitingFor[w], None}
  BY <1>1 DEF SetExperimentState, TypeOK
<1>6. active' = active
  <2>1. ~ (expState[d] # t /\ d \in known /\ t = "active")
    OBVIOUS
  <2> QED BY <1>1, <2>1 DEF SetExperimentState
<1>7. assigned' = assigned
  BY DEF ObserveJobState
<1>8. \A e \in Experiments : Begins(e) => Begins(e)'
  BY <1>3, <1>5 DEF Begins
<1> QED BY <1>1, <1>2, <1>4, <1>5, <1>6, <1>7, <1>8

\* Steps that start no experiment and give no job away.
LEMMA TurnSame ==
  ASSUME TurnInv, AwaitedInv, OnlyTheFirstIsOpen,
         UNCHANGED <<active, waitingFor, assigned, unstarted, begun>>,
         active \in Seq(Experiments), waitingFor \in [Workers -> Experiments \cup {None}],
         \A e \in Experiments : Begins(e) => Begins(e)',
         \A j \in Jobs : pending'[j] \in JobStates =>
                             pending[j] \in JobStates \/ \E w \in Workers : wdJob[w] = j,
         \A w \in Workers : wdJob'[w] \in {wdJob[w], None}
  PROVE  TurnInv' /\ AwaitedInv' /\ OnlyTheFirstIsOpen'
<1>1. AwaitedInv' /\ OnlyTheFirstIsOpen'
  BY DEF AwaitedInv, OnlyTheFirstIsOpen
<1>2. \A k \in 1 .. Len(active) : active[k] \in Experiments
  BY ElementOfSeq
<1>3. \A e \in Experiments : expState[e] \in {"active"} \cup FinishStates
                             => expState'[e] \in {"active"} \cup FinishStates
  BY DEF Begins
<1>5. ASSUME NEW k \in 1 .. Len(active')
      PROVE  expState'[active'[k]] \in {"active"} \cup FinishStates
  <2>1. active[k] \in Experiments /\ expState[active[k]] \in {"active"} \cup FinishStates /\ active' = active
    BY <1>2, <1>5 DEF TurnInv, Begins
  <2> QED BY <1>3, <2>1
<1>6. ASSUME NEW w \in Workers, waitingFor'[w] # None
      PROVE  expState'[waitingFor'[w]] \in {"active"} \cup FinishStates
  <2>1. /\ waitingFor[w] \in Experiments /\ waitingFor' = waitingFor
        /\ expState[waitingFor[w]] \in {"active"} \cup FinishStates
    BY <1>6 DEF TurnInv, Begins
  <2> QED BY <1>3, <2>1
<1>4. ASSUME NEW j \in Jobs, pending'[j] \in JobStates \/ \E w \in Workers : wdJob'[w] = j
      PROVE  begun'[ExperimentOf(j)] /\ Begins(ExperimentOf(j))'
  <2>1. pending[j] \in JobStates \/ \E w \in Workers : wdJob[w] = j
    BY <1>4, ExperimentSchedulerAssumption
  <2>2. begun[ExperimentOf(j)] /\ Begins(ExperimentOf(j)) /\ ExperimentOf(j) \in Experiments
    BY <2>1, JobsBelong DEF TurnInv
  <2> QED BY <2>2
<1> QED BY <1>1, <1>4, <1>5, <1>6 DEF TurnInv, Begins

LEMMA TurnKept ==
  ASSUME UserMay = {}, PlainInv, EndedInv, TurnInv, AwaitedInv, OnlyTheFirstIsOpen, [Next]_vars
  PROVE  TurnInv' /\ AwaitedInv' /\ OnlyTheFirstIsOpen'
<1>0. /\ TypeInv /\ TypeOK /\ UnstartedInv /\ FreshInv /\ GivenInv /\ Kinds
      /\ None \notin Jobs \cup JobStates \cup Experiments
      /\ known \subseteq Experiments /\ queue \subseteq known
  BY StepKinds, ExperimentSchedulerAssumption DEF PlainInv, TypeInv, TypeOK
<1>1. /\ active \in Seq(Experiments) /\ waitingFor \in [Workers -> Experiments \cup {None}]
      /\ \A k \in 1 .. Len(active) : active[k] \in Experiments
      /\ Len(active) \in Nat /\ "write" \notin JobStates
  <2>1. active \in Seq(known)
    BY <1>0 DEF TypeOK
  <2>2. active \in Seq(Experiments)
    BY <1>0, <2>1, SeqOfMore
  <2>3. \A k \in 1 .. Len(active) : active[k] \in Experiments
    BY <2>2, ElementOfSeq
  <2>4. waitingFor \in [Workers -> Experiments \cup {None}]
    BY <1>0 DEF TypeOK
  <2>5. "write" \notin JobStates
    BY DEF JobStates, PredefinedStates, FinalStates, Custom
  <2> QED BY <2>2, <2>3, <2>4, <2>5, LenProperties
\* A state of a job is announced, or a job is given away.
<1>2. ASSUME NEW j \in Jobs, NEW s \in JobStates, ObserveJobState(j, s),
             expState[ExperimentOf(j)] = "active", begun[ExperimentOf(j)] \/ s = "SCHEDULED",
             \A i \in Jobs : pending'[i] \in JobStates => pending[i] \in JobStates,
             \A w \in Workers : wdJob'[w] \in {wdJob[w], j}
      PROVE  TurnInv' /\ AwaitedInv' /\ OnlyTheFirstIsOpen'
  <2> DEFINE S == {"active"} \cup FinishStates
  <2>1. /\ active' = active /\ assigned' = assigned
        /\ \A w \in Workers : waitingFor'[w] \in {waitingFor[w], None}
        /\ begun'[ExperimentOf(j)]
        /\ \A e \in Experiments : (begun[e] => begun'[e]) /\ (expState[e] \in S => expState'[e] \in S)
        /\ \A e \in Experiments : unstarted[e] = <<>> => unstarted'[e] = <<>>
    BY <1>0, <1>2, ObserverKeepsTurn DEF Begins
  <2>2. expState[ExperimentOf(j)] \in S /\ ExperimentOf(j) \in Experiments
    BY <1>2, JobsBelong
  <2>. HIDE DEF S
  <2>3. ASSUME NEW k \in 1 .. Len(active')
        PROVE  expState'[active'[k]] \in S
    <3>1. active[k] \in Experiments /\ expState[active[k]] \in S /\ active' = active
      BY <1>1, <2>1, <2>3 DEF TurnInv, Begins, S
    <3> QED BY <2>1, <3>1
  <2>4. ASSUME NEW w \in Workers, waitingFor'[w] # None
        PROVE  expState'[waitingFor'[w]] \in S
    <3>1. /\ waitingFor'[w] = waitingFor[w] /\ waitingFor[w] \in Experiments
          /\ expState[waitingFor[w]] \in S
      BY <1>1, <2>1, <2>4 DEF TurnInv, Begins, S
    <3> QED BY <2>1, <3>1
  <2>5. ASSUME NEW i \in Jobs, pending'[i] \in JobStates \/ \E w \in Workers : wdJob'[w] = i
        PROVE  begun'[ExperimentOf(i)] /\ expState'[ExperimentOf(i)] \in S
    <3>1. CASE i = j
      BY <2>1, <2>2, <3>1
    <3>2. CASE i # j
      <4>1. pending[i] \in JobStates \/ \E w \in Workers : wdJob[w] = i
        BY <1>2, <2>5, <3>2
      <4>2. /\ begun[ExperimentOf(i)] /\ expState[ExperimentOf(i)] \in S
            /\ ExperimentOf(i) \in Experiments
        BY <4>1, JobsBelong DEF TurnInv, Begins, S
      <4> QED BY <2>1, <4>2
    <3> QED BY <3>1, <3>2
  <2>6. TurnInv'
    BY <2>3, <2>4, <2>5 DEF TurnInv, Begins, S
  <2>7. AwaitedInv'
    BY <2>1 DEF AwaitedInv
  <2>8. OnlyTheFirstIsOpen'
    BY <1>1, <2>1 DEF OnlyTheFirstIsOpen
  <2> QED BY <2>6, <2>7, <2>8
<1>3. ASSUME NEW e \in known, NEW w \in Workers, HandOut(e, w)
      PROVE  TurnInv' /\ AwaitedInv' /\ OnlyTheFirstIsOpen'
  <2> DEFINE j == NextJob(e)
  <2>1. /\ j \in Jobs /\ pending' = pending /\ e \in Experiments
        /\ ExperimentOf(j) = e /\ ObserveJobState(j, "SCHEDULED") /\ j \in ToSet(unstarted[e])
        /\ "SCHEDULED" \in JobStates /\ Considers(e, w)
        /\ wdJob' = [wdJob EXCEPT ![w] = j]
    BY <1>0, <1>3, HandedOutWasNew DEF HandOut, Finds
  <2>. HIDE DEF j
  <2>2. storedWorker[j] = None /\ j \in JobsOf(e)
    BY <1>0, <2>1, JobsBelong DEF FreshInv
  <2>3. expState[e] \notin FinishStates
    BY <2>1, <2>2 DEF EndedInv
  <2>4. Begins(e)
    <3>1. CASE e = waitingFor[w]
      BY <1>0, <3>1 DEF TurnInv
    <3>2. CASE active # <<>> /\ e = Head(active)
      <4>1. Len(active) # 0 /\ Head(active) = active[1]
        BY <1>1, <3>2, EmptySeq, HeadTailProperties
      <4>2. 1 \in 1 .. Len(active)
        BY <1>1, <4>1
      <4> QED BY <3>2, <4>1, <4>2 DEF TurnInv
    <3> QED BY <2>1, <3>1, <3>2 DEF Considers
  <2>5. expState[e] = "active"
    BY <2>3, <2>4 DEF Begins
  <2>6. \A v \in Workers : wdJob'[v] \in {wdJob[v], j}
    BY <1>0, <2>1 DEF TypeOK
  <2> QED BY <1>2, <2>1, <2>5, <2>6
<1>4. ASSUME NEW j \in Jobs, Announce(j)
      PROVE  TurnInv' /\ AwaitedInv' /\ OnlyTheFirstIsOpen'
  <2>1. /\ pending[j] \in JobStates /\ ObserveJobState(j, pending[j]) /\ wdJob' = wdJob
        /\ \A i \in Jobs : pending'[i] \in {pending[i], None, "write"}
    BY <1>0, <1>4 DEF Announce, TypeOK
  <2>2. begun[ExperimentOf(j)] /\ Begins(ExperimentOf(j))
    BY <2>1 DEF TurnInv
  <2>3. expState[ExperimentOf(j)] \notin FinishStates
    BY <2>1, JobsBelong DEF EndedInv
  <2>4. expState[ExperimentOf(j)] = "active"
    BY <2>2, <2>3 DEF Begins
  <2>5. \A i \in Jobs : pending'[i] \in JobStates => pending[i] \in JobStates
    BY <1>0, <1>1, <2>1
  <2> QED BY <1>2, <2>1, <2>2, <2>4, <2>5
<1>5. ASSUME NEW e \in known, StartNext(e)
      PROVE  TurnInv' /\ AwaitedInv' /\ OnlyTheFirstIsOpen'
  <2> DEFINE S == {"active"} \cup FinishStates
  <2>1. /\ FindsNothing /\ e \in queue /\ e \in Experiments
        /\ UNCHANGED <<assigned, unstarted, begun, pending, wdJob>>
        /\ expState' = [expState EXCEPT ![e] = "active"]
        /\ active' = IF expState[e] # "active" THEN <<e>> \o active ELSE active
        /\ waitingFor' = [w \in Workers |-> IF w \in assigned[e] THEN e ELSE waitingFor[w]]
    BY <1>0, <1>5 DEF StartNext, MostUrgent, jobVars
  <2>2. expState[e] = "ready" /\ active' = <<e>> \o active
    BY <2>1 DEF EndedInv
  <2>3. \A d \in Experiments : expState'[d] = IF d = e THEN "active" ELSE expState[d]
    BY <1>0, <2>1 DEF TypeOK
  <2>4. /\ Len(active') = Len(active) + 1 /\ active'[1] = e /\ Head(active') = e
        /\ \A k \in 2 .. Len(active') : active'[k] = active[k - 1] /\ k - 1 \in 1 .. Len(active)
    <3>1. <<e>> \in Seq(Experiments) /\ Len(<<e>>) = 1 /\ <<e>>[1] = e
      BY <2>1
    <3>2. /\ active' \in Seq(Experiments) /\ Len(active') = Len(active) + 1
          /\ \A k \in 1 .. Len(active) + 1 : active'[k] = IF k <= 1 THEN <<e>>[k] ELSE active[k - 1]
      BY <1>1, <2>2, <3>1, ConcatProperties
    <3>3. active'[1] = e
      BY <1>1, <3>1, <3>2
    <3>4. Head(active') = active'[1]
      <4>1. active' # <<>>
        BY <1>1, <3>2, EmptySeq
      <4> QED BY <3>2, <4>1, HeadTailProperties
    <3>5. ASSUME NEW k \in 2 .. Len(active')
          PROVE  active'[k] = active[k - 1] /\ k - 1 \in 1 .. Len(active)
      <4>1. k \in 1 .. Len(active) + 1 /\ ~ (k <= 1) /\ k - 1 \in 1 .. Len(active)
        BY <1>1, <3>2, <3>5
      <4> QED BY <3>2, <4>1
    <3> QED BY <3>2, <3>3, <3>4, <3>5
  <2>5. ASSUME NEW k \in 1 .. Len(active')
        PROVE  expState'[active'[k]] \in S
    <3>1. CASE k = 1
      BY <2>1, <2>3, <2>4, <3>1
    <3>2. CASE k # 1
      <4>1. k \in 2 .. Len(active')
        BY <1>1, <2>4, <2>5, <3>2
      <4>2. active'[k] \in Experiments /\ expState[active'[k]] \in S
        BY <1>1, <2>4, <4>1 DEF TurnInv, Begins
      <4> QED BY <2>3, <4>2
    <3> QED BY <3>1, <3>2
  <2>6. ASSUME NEW w \in Workers, waitingFor'[w] # None
        PROVE  expState'[waitingFor'[w]] \in S
    <3>1. CASE w \in assigned[e]
      BY <2>1, <2>3, <3>1
    <3>2. CASE w \notin assigned[e]
      <4>1. /\ waitingFor'[w] = waitingFor[w] /\ waitingFor[w] \in Experiments
            /\ expState[waitingFor[w]] \in S
        BY <1>1, <2>1, <2>6, <3>2 DEF TurnInv, Begins
      <4> QED BY <2>3, <4>1
    <3> QED BY <3>1, <3>2
  <2>7. ASSUME NEW j \in Jobs, pending'[j] \in JobStates \/ \E w \in Workers : wdJob'[w] = j
        PROVE  begun'[ExperimentOf(j)] /\ expState'[ExperimentOf(j)] \in S
    <3>1. /\ begun[ExperimentOf(j)] /\ expState[ExperimentOf(j)] \in S
          /\ ExperimentOf(j) \in Experiments
      BY <2>1, <2>7, JobsBelong DEF TurnInv, Begins
    <3> QED BY <2>1, <2>3, <3>1
  <2>8. TurnInv'
    BY <2>5, <2>6, <2>7 DEF TurnInv, Begins
  <2>9. AwaitedInv'
    BY <2>1 DEF AwaitedInv
  \* If nobody has workers of its own, the first experiment has no jobs left.
  <2>10. ASSUME \A d \in Experiments : assigned[d] = {}, NEW k \in 1 .. Len(active)
         PROVE  unstarted[active[k]] = <<>>
    <3>1. Awaited = {} /\ active # <<>> /\ Len(active) # 0 /\ Head(active) = active[1]
      <4>1. Awaited = {}
        <5>1. \A w \in Workers : waitingFor[w] \in Experiments => w \in assigned[waitingFor[w]]
          BY <1>0 DEF AwaitedInv
        <5>2. \A w \in Workers : waitingFor[w] = None
          BY <1>1, <2>10, <5>1
        <5> QED BY <1>0, <5>2 DEF Awaited, TypeOK
      <4>2. Len(active) # 0
        BY <1>1, <2>10
      <4> QED BY <1>1, <4>1, <4>2, EmptySeq, HeadTailProperties
    <3>2. Head(active) \in Experiments
      BY <1>1, <3>1
    <3>3. NextJob(Head(active)) = None
      BY <2>1, <2>10, <3>1, <3>2 DEF FindsNothing, Considers
    <3>4. unstarted[Head(active)] = <<>>
      <4>1. SUFFICES ASSUME unstarted[Head(active)] # <<>> PROVE FALSE
        OBVIOUS
      <4>2. unstarted[Head(active)] \in Seq(Jobs)
        BY <1>0, <3>2 DEF TypeOK
      <4>3. Head(unstarted[Head(active)]) \in Jobs
        BY <4>1, <4>2, HeadTailProperties
      <4> QED BY <1>0, <3>3, <4>1, <4>3 DEF NextJob
    <3>5. CASE k = 1
      BY <3>1, <3>4, <3>5
    <3>6. CASE k # 1
      <4>1. k \in 2 .. Len(active)
        BY <1>1, <2>10, <3>6
      <4> QED BY <2>10, <3>4, <4>1 DEF OnlyTheFirstIsOpen
    <3> QED BY <3>5, <3>6
  <2>11. OnlyTheFirstIsOpen'
    <3>1. ASSUME \A d \in Experiments : assigned'[d] = {}, NEW k \in 2 .. Len(active')
          PROVE  unstarted'[active'[k]] = <<>>
      BY <2>1, <2>4, <2>10, <3>1
    <3> QED BY <3>1 DEF OnlyTheFirstIsOpen
  <2> QED BY <2>8, <2>9, <2>11
<1>6. ASSUME NEW j \in Jobs, NEW s \in JobStates, Changes(j, s)
      PROVE  TurnInv' /\ AwaitedInv' /\ OnlyTheFirstIsOpen'
  <2>1. /\ UNCHANGED <<expState, active, waitingFor, assigned, unstarted, begun>>
        /\ \E w \in Workers : wdJob[w] = j
        /\ \A i \in Jobs : i # j => pending'[i] = pending[i]
        /\ \A w \in Workers : wdJob'[w] \in {wdJob[w], None}
    BY <1>0, <1>6 DEF Changes, SetJobState, expVars, TypeOK
  <2>2. \A e \in Experiments : Begins(e) => Begins(e)'
    BY <2>1 DEF Begins
  <2> QED BY <1>1, <2>1, <2>2, TurnSame
<1>7. ASSUME NEW j \in Jobs, Write(j)
      PROVE  TurnInv' /\ AwaitedInv' /\ OnlyTheFirstIsOpen'
  <2>1. /\ UNCHANGED <<expState, active, waitingFor, assigned, unstarted, begun, wdJob>>
        /\ \A i \in Jobs : pending'[i] \in {pending[i], None}
    BY <1>0, <1>7 DEF Write, expVars, schedulerVars, TypeOK
  <2>2. \A e \in Experiments : Begins(e) => Begins(e)'
    BY <2>1 DEF Begins
  <2> QED BY <1>0, <1>1, <2>1, <2>2, TurnSame
<1>8. ASSUME NEW w \in Workers, JobFinished(w)
      PROVE  TurnInv' /\ AwaitedInv' /\ OnlyTheFirstIsOpen'
  <2>1. /\ UNCHANGED <<expState, active, waitingFor, assigned, unstarted, begun, pending>>
        /\ \A v \in Workers : wdJob'[v] \in {wdJob[v], None}
    BY <1>0, <1>8 DEF JobFinished, expVars, TypeOK
  <2>2. \A e \in Experiments : Begins(e) => Begins(e)'
    BY <2>1 DEF Begins
  <2> QED BY <1>1, <2>1, <2>2, TurnSame
<1>9. ASSUME NEW knownWorkers \in SUBSET Workers, Restart(knownWorkers)
      PROVE  TurnInv' /\ AwaitedInv' /\ OnlyTheFirstIsOpen'
  <2>1. /\ active' = <<>> /\ \A w \in Workers : waitingFor'[w] = None /\ wdJob'[w] = None
        /\ \A j \in Jobs : pending'[j] = None
    BY <1>9 DEF Restart
  <2>2. /\ \A k \in 1 .. Len(active') : FALSE
        /\ \A k \in 2 .. Len(active') : FALSE
    BY <2>1
  <2> QED BY <1>0, <2>1, <2>2 DEF TurnInv, AwaitedInv, OnlyTheFirstIsOpen
<1>10. CASE Elsewhere
  <2>1. ASSUME NEW e \in Experiments, AddExperiment(e)
        PROVE  TurnInv' /\ AwaitedInv' /\ OnlyTheFirstIsOpen'
    <3>1. /\ UNCHANGED <<active, waitingFor, assigned, unstarted, begun, pending, wdJob>>
          /\ expState[e] = "new" /\ expState' = [expState EXCEPT ![e] = "ready"]
      BY <2>1 DEF AddExperiment, jobVars
    <3>2. \A d \in Experiments : expState'[d] = IF d = e THEN "ready" ELSE expState[d]
      BY <1>0, <3>1 DEF TypeOK
    <3>3. ~ Begins(e)
      BY <3>1 DEF Begins, FinishStates
    <3>4. \A d \in Experiments : Begins(d) => Begins(d)'
      BY <3>2, <3>3 DEF Begins
    <3> QED BY <1>1, <3>1, <3>4, TurnSame
  <2>2. CASE UNCHANGED <<expState, active, waitingFor, assigned, unstarted, begun, pending, wdJob>>
    <3>1. \A d \in Experiments : Begins(d) => Begins(d)'
      BY <2>2 DEF Begins
    <3> QED BY <1>1, <2>2, <3>1, TurnSame
  <2>3. ASSUME NEW e \in Experiments, NEW w \in Workers, Reassign(e, w)
        PROVE  FALSE
    BY <2>3 DEF Reassign
  <2>4. \/ \E e \in known : StartNext(e)
        \/ \E e \in Experiments : AddExperiment(e)
        \/ UNCHANGED <<expState, active, waitingFor, assigned, unstarted, begun, pending, wdJob>>
    BY <1>10, <2>3 DEF Elsewhere, ScheduleThrows, GiveUp, vars, expVars, schedulerVars, jobVars
  <2> QED BY <1>5, <2>1, <2>2, <2>4
<1>11. ASSUME NEW e \in Experiments
       PROVE  ~ CancelExperiment(e)
  BY DEF CancelExperiment
<1> QED BY <1>0, <1>3, <1>4, <1>6, <1>7, <1>8, <1>9, <1>10, <1>11 DEF Kinds

\* If the user only starts experiments, and as long as every one of them may use
\* every worker, schedule never leaves an experiment with open jobs behind the
\* first, also after crashes.
THEOREM NoneIsForgotten ==
  ASSUME UserMay = {}
  PROVE  Spec => []OnlyTheFirstIsOpen
<1> DEFINE Inv == PlainInv /\ EndedInv /\ TurnInv /\ AwaitedInv /\ OnlyTheFirstIsOpen
<1>1. Init => Inv
  <2>1. Init => EndedInv /\ AwaitedInv
    BY DEF Init, EndedInv, FinishStates, AwaitedInv
  <2>2. None \notin JobStates /\ None \notin Jobs
    BY ExperimentSchedulerAssumption
  <2>3. Init => TurnInv /\ OnlyTheFirstIsOpen
    BY <2>2 DEF Init, TurnInv, OnlyTheFirstIsOpen
  <2> QED BY <2>1, <2>3, PlainAtFirst
<1>2. Inv /\ [Next]_vars => Inv'
  BY PlainKept, EndedKept, TurnKept
<1> QED BY <1>1, <1>2, PTL DEF Spec

=============================================================================
