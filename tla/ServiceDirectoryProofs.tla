------------------------ MODULE ServiceDirectoryProofs ------------------------
(* A worker's jobs and their bundles, for any bundles, dependencies, jobs,   *)
(* uploads and restarts.                                                     *)
EXTENDS ServiceDirectory, SequenceTheorems, TLAPS

\* A list of bundles is empty when the thread has dealt with all of them.
Pending == \A j \in Jobs : pc[j] \in {"install", "record"} => todo[j] # <<>>

\* A job that has not begun starts with its first service.
Waiting == \A j \in Jobs : pc[j] = "none" => need[j] = 1

TypeInv == TypeOK /\ Pending /\ Waiting

\* Nothing the worker holds is older than the server was when it started, but for
\* what a crash has left in the framework.
Fresh ==
    \A b \in Bundles : /\ baseline[b] <= uploads + 1
                       /\ server[b] <= uploads + 1
                       /\ server[b] # 0 => server[b] >= baseline[b]
                       /\ cache[b] # 0 => cache[b] >= baseline[b]
                       /\ framework[b] # "uninstalled" /\ b \notin inherited =>
                              content[b] >= baseline[b]

\* Jobs are started in order; only what has ended is reported; in an orderly run
\* everything before a job that has started is.
Order ==
    /\ \A j \in reported : pc[j] \in {"ended", "lost"}
    /\ \A j \in Jobs : pc[j] = "none" => error[j] = ""
    /\ \A i, j \in Jobs : i < j /\ pc[j] # "none" => pc[i] # "none"
    /\ orderly => \A i, j \in Jobs : i < j /\ pc[j] # "none" => i \in reported

\* Nothing is left of the jobs before.
Clean == active = {} /\ installed = {} /\ \A b \in Bundles : framework[b] # "active"

\* The bundle that job j asks for and those it depends on.
Closure(j) == {Wanted(j)} \cup {Deps[Wanted(j)][i] : i \in DOMAIN Deps[Wanted(j)]}

Listed(b, list) == \E i \in DOMAIN list : list[i] = b

\* The maps and the framework, up to the moment bundles are uninstalled: active
\* bundles are installed ones, and what is in a map is in the framework.
MapsMatch ==
    /\ active \subseteq installed
    /\ \A b \in installed : framework[b] # "uninstalled"
    /\ \A b \in Bundles : framework[b] = "active" => b \in installed

\* The services that job j was given are there.
Served(j) == \A i \in 1 .. need[j] - 1 : framework[Needs[j][i]] = "active"

Running == \A b \in active : framework[b] = "active"

\* What the thread of job j relies on at each place of its way.
TryInv(j) ==
    pc[j] \in TryPhases =>
        /\ error[j] = ""
        /\ Served(j)
        /\ pc[j] = "get" /\ need[j] = 1 => Clean
        /\ pc[j] \in {"install", "record"} =>
               \A b \in Closure(j) : b \in installed \/ Listed(b, todo[j])
        /\ pc[j] = "record" => framework[Head(todo[j])] # "uninstalled"
        /\ pc[j] = "start" => Closure(j) \subseteq installed
        /\ pc[j] = "started" => Wanted(j) \in installed /\ framework[Wanted(j)] = "active"
        /\ pc[j] = "activate" => Wanted(j) \in active

CleanupInv(j) ==
    /\ pc[j] \in TryPhases \cup {"finally", "stop"} => MapsMatch
    /\ pc[j] \in TryPhases \cup {"finally"} => Running
    /\ pc[j] = "stop" => /\ iter[j].map = active
                         /\ \A b \in iter[j].left : framework[b] # "uninstalled"
    /\ pc[j] = "uninstall" => /\ active = {} /\ iter[j].map = installed
                              /\ \A b \in iter[j].left : framework[b] # "uninstalled"
                              /\ \A b \in Bundles : framework[b] = "active" => b \in iter[j].left
    /\ pc[j] = "finish" => Clean
    /\ pc[j] # "thrown"

ErrorInv(j) == error[j] # "illegal" /\ (error[j] = "noservice" => Wanted(j) \notin Providers)

JobInv(j) == TryInv(j) /\ CleanupInv(j) /\ ErrorInv(j)

\* Every job has not started or is known to have ended.
AllReported == \A j \in Jobs : pc[j] = "none" \/ j \in reported

\* The inductive invariant of orderly runs, beside the types and the order.
OrderlyInv == orderly => (AllReported => Clean) /\ \A j \in Jobs : JobInv(j)

-----------------------------------------------------------------------------
(* The types.                                                              *)

\* The bundle a job asks for is one.
LEMMA WantedBundle ==
    ASSUME TypeOK, NEW j \in Jobs, pc[j] \in TryPhases \ {"run"}
    PROVE  /\ need[j] \in 1 .. Len(Needs[j])
           /\ Wanted(j) \in Bundles
           /\ Deps[Wanted(j)] \in Seq(Bundles)
<1>1. Needs[j] \in Seq(Bundles)
  BY ServiceDirectoryAssumption
<1>2. need[j] \in 1 .. Len(Needs[j])
  <2>1. Len(Needs[j]) \in Nat
    BY <1>1, LenProperties
  <2>2. need[j] \in 1 .. Len(Needs[j]) + 1 /\ ~ (need[j] > Len(Needs[j]))
    BY DEF TypeOK
  <2> QED
    BY <2>1, <2>2
<1>3. Wanted(j) \in Bundles
  BY <1>1, <1>2, ElementOfSeq DEF Wanted
<1> QED
  BY <1>2, <1>3, ServiceDirectoryAssumption

\* The list that Resolve makes is one of bundles, and not empty.
LEMMA ResolvedList ==
    ASSUME TypeOK, NEW j \in Jobs, pc[j] \in TryPhases \ {"run"}
    PROVE  /\ Append(Deps[Wanted(j)], Wanted(j)) \in Seq(Bundles)
           /\ Append(Deps[Wanted(j)], Wanted(j)) # <<>>
           /\ \A b \in Closure(j) : Listed(b, Append(Deps[Wanted(j)], Wanted(j)))
<1> DEFINE d == Deps[Wanted(j)]
           b == Wanted(j)
<1>1. d \in Seq(Bundles) /\ b \in Bundles
  BY WantedBundle
<1>2. /\ Append(d, b) \in Seq(Bundles) /\ Append(d, b) # <<>>
      /\ DOMAIN Append(d, b) = 1 .. Len(d) + 1
      /\ DOMAIN d = 1 .. Len(d) /\ Len(d) \in Nat
      /\ \A i \in 1 .. Len(d) : Append(d, b)[i] = d[i]
      /\ Append(d, b)[Len(d) + 1] = b
  BY <1>1, AppendProperties, LenProperties
<1>3. Listed(b, Append(d, b))
  <2>1. Len(d) + 1 \in DOMAIN Append(d, b)
    BY <1>2
  <2> QED
    BY <1>2, <2>1 DEF Listed
<1>4. \A i \in DOMAIN d : Listed(d[i], Append(d, b))
  BY <1>2 DEF Listed
<1> QED
  BY <1>2, <1>3, <1>4 DEF Closure

\* What is left when the first bundle of a list has been dealt with.
LEMMA ShorterList ==
    ASSUME NEW s \in Seq(Bundles), s # <<>>
    PROVE  /\ Head(s) \in Bundles /\ Tail(s) \in Seq(Bundles)
           /\ Len(s) # 1 => Tail(s) # <<>>
           /\ \A b : Listed(b, s) => b = Head(s) \/ Listed(b, Tail(s))
           /\ Len(s) = 1 => \A b : Listed(b, s) => b = Head(s)
<1>1. /\ Head(s) \in Bundles /\ Tail(s) \in Seq(Bundles)
      /\ Len(Tail(s)) = Len(s) - 1
      /\ \A i \in 1 .. Len(Tail(s)) : Tail(s)[i] = s[i + 1]
  BY HeadTailProperties
<1>2. Len(s) \in Nat /\ DOMAIN s = 1 .. Len(s) /\ DOMAIN Tail(s) = 1 .. Len(Tail(s))
  BY <1>1, LenProperties
<1>3. Len(s) # 1 => Tail(s) # <<>>
  <2>1. Tail(s) = <<>> => Len(Tail(s)) = 0
    BY EmptySeq
  <2> QED
    BY <1>1, <1>2, <2>1
<1>4. Head(s) = s[1]
  OBVIOUS
<1>5. ASSUME NEW b, Listed(b, s) PROVE b = Head(s) \/ (Listed(b, Tail(s)) /\ Len(s) # 1)
  <2>1. PICK i \in 1 .. Len(s) : s[i] = b
    BY <1>2, <1>5 DEF Listed
  <2>2. CASE i = 1
    <3>1. s[1] = b
      BY <2>1, <2>2
    <3> QED
      BY <1>4, <3>1
  <2>3. CASE i # 1
    <3>1. i - 1 \in 1 .. Len(Tail(s)) /\ (i - 1) + 1 = i /\ Len(s) # 1
      BY <1>1, <1>2, <2>1, <2>3
    <3>2. Tail(s)[i - 1] = b
      BY <1>1, <2>1, <3>1
    <3> QED
      BY <1>2, <3>1, <3>2 DEF Listed
  <2> QED
    BY <2>2, <2>3
<1> QED
  BY <1>1, <1>3, <1>5

\* The initial state has the types.
LEMMA InitTyped == Init => TypeInv
<1> SUFFICES ASSUME Init PROVE TypeInv
  OBVIOUS
<1>a. JobCount \in Nat /\ MaxUploads \in Nat /\ MaxRestarts \in Nat
  BY ServiceDirectoryAssumption
<1>1. server \in [Bundles -> Contents] /\ cache \in [Bundles -> Contents]
      /\ content \in [Bundles -> Contents] /\ baseline \in [Bundles -> Contents]
  <2>1. 0 \in Contents /\ 1 \in Contents
    BY <1>a DEF Contents
  <2>2. server \in [Bundles -> {0, 1}] /\ cache \in [Bundles -> {0, 1}]
        /\ content = [b \in Bundles |-> 0] /\ baseline = server
    BY DEF Init
  <2> QED
    BY <2>1, <2>2
<1>2. \A j \in Jobs : Len(Needs[j]) \in Nat \ {0}
  BY EmptySeq, ServiceDirectoryAssumption
<1>3. todo \in [Jobs -> Seq(Bundles)]
  BY EmptySeq DEF Init
<1>4. need \in [Jobs -> Nat] /\ \A j \in Jobs :
        need[j] \in 1 .. Len(Needs[j]) + 1 /\ need[j] <= Len(Needs[j])
  <2>1. need = [j \in Jobs |-> 1]
    BY DEF Init
  <2> QED
    BY <1>2, <2>1
<1>5. iter \in [Jobs -> [map : SUBSET Bundles, left : SUBSET Bundles]]
  BY DEF Init, NoLoop
<1>6. /\ pc \in [Jobs -> Phases] /\ error \in [Jobs -> {"", "notfound", "noservice", "illegal"}]
      /\ framework \in [Bundles -> {"uninstalled", "installed", "active"}]
      /\ inherited \subseteq Bundles
      /\ actual \in Jobs \cup {NoJob}
      /\ \A j \in Jobs : pc[j] \notin {"install", "record"}
  BY DEF Init, Phases
<1>b. uploads \in 0 .. MaxUploads /\ restarts \in 0 .. MaxRestarts
  <2>1. uploads = 0 /\ restarts = 0
    BY DEF Init
  <2> QED
    BY <1>a, <2>1
<1>7. /\ uploading \in Bundles \cup {NoBundle} /\ development \in Modes
      /\ installed \subseteq Bundles /\ active \subseteq Bundles
      /\ stopping \subseteq Jobs /\ reported \subseteq Jobs
  BY DEF Init
<1>c. orderly \in BOOLEAN
  BY DEF Init
<1>8. TypeOK
  <2>1. \A j \in Jobs : need[j] > Len(Needs[j]) => pc[j] \notin TryPhases \ {"run"}
    BY <1>2, <1>4
  <2> QED
    BY <1>1, <1>3, <1>4, <1>5, <1>6, <1>7, <1>b, <1>c, <2>1 DEF TypeOK
<1>9. Waiting
  BY DEF Init, Waiting
<1> QED
  BY <1>6, <1>8, <1>9 DEF TypeInv, Pending

\* A step of a thread's try block that asks for no further service keeps the
\* types if what it writes has them.
LEMMA TryTyped ==
    ASSUME TypeInv, NEW j \in Jobs, NEW p \in Phases,
           UNCHANGED <<serverVars, historyVars, need, iter, endVars>>,
           pc[j] # "none", pc' = [pc EXCEPT ![j] = p], p # "none",
           p \in TryPhases \ {"run"} => ~ (need[j] > Len(Needs[j])),
           cache' \in [Bundles -> Contents], installed' \subseteq Bundles,
           active' \subseteq Bundles,
           framework' \in [Bundles -> {"uninstalled", "installed", "active"}],
           content' \in [Bundles -> Contents], inherited' \subseteq Bundles,
           error' \in [Jobs -> {"", "notfound", "noservice", "illegal"}],
           todo' \in [Jobs -> Seq(Bundles)], \A i \in Jobs \ {j} : todo'[i] = todo[i],
           p \in {"install", "record"} => todo'[j] # <<>>
    PROVE  TypeInv'
<1>1. /\ Len(Needs[j]) \in Nat /\ need[j] \in Nat /\ need[j] \in 1 .. Len(Needs[j]) + 1
      /\ need'[j] = need[j]
  BY LenProperties, ServiceDirectoryAssumption DEF TypeInv, TypeOK
<1>2. pc' \in [Jobs -> Phases] /\ pc'[j] = p /\ \A i \in Jobs \ {j} : pc'[i] = pc[i]
  BY DEF TypeInv, TypeOK
<1>3. \A i \in Jobs : need'[i] \in 1 .. Len(Needs[i]) + 1
                      /\ (need'[i] > Len(Needs[i]) => pc'[i] \notin TryPhases \ {"run"})
  <2> TAKE i \in Jobs
  <2>1. CASE i = j
    <3>1. need[j] > Len(Needs[j]) => p \notin TryPhases \ {"run"}
      OBVIOUS
    <3>2. need'[i] > Len(Needs[i]) => need[j] > Len(Needs[j])
      BY <1>1, <2>1
    <3> QED
      BY <1>1, <1>2, <2>1, <3>1, <3>2
  <2>2. CASE i # j
    BY <1>2, <2>2 DEF TypeInv, TypeOK
  <2> QED
    BY <2>1, <2>2
<1>4. TypeOK'
  BY <1>2, <1>3 DEF TypeInv, TypeOK, serverVars, historyVars, endVars
<1>5. Pending'
  BY <1>2 DEF TypeInv, Pending
<1>6. Waiting'
  BY <1>2 DEF TypeInv, Waiting
<1> QED
  BY <1>4, <1>5, <1>6 DEF TypeInv

\* Going on to the next bundle of the list keeps the types.
LEMMA NextTyped ==
    ASSUME TypeInv, NEW j \in Jobs, NextBundle(j), pc[j] \in {"install", "record"},
           UNCHANGED <<serverVars, historyVars, need, iter, endVars, cache, active, osgiVars,
                       error>>,
           installed' \subseteq Bundles
    PROVE  TypeInv'
<1>1. /\ todo[j] \in Seq(Bundles) /\ todo[j] # <<>> /\ Tail(todo[j]) \in Seq(Bundles)
      /\ Len(todo[j]) # 1 => Tail(todo[j]) # <<>>
  BY ShorterList DEF TypeInv, TypeOK, Pending
<1>2. ~ (need[j] > Len(Needs[j]))
  BY DEF TypeInv, TypeOK, TryPhases
<1>3. /\ todo' = [todo EXCEPT ![j] = Tail(todo[j])]
      /\ todo' \in [Jobs -> Seq(Bundles)] /\ \A i \in Jobs \ {j} : todo'[i] = todo[i]
      /\ todo'[j] = Tail(todo[j])
  BY <1>1 DEF NextBundle, TypeInv, TypeOK
<1>4. PICK p \in {"start", "install"} :
          pc' = [pc EXCEPT ![j] = p] /\ (p = "install" => Len(todo[j]) # 1)
  BY DEF NextBundle, GoTo
<1> QED
  BY <1>1, <1>2, <1>3, <1>4, TryTyped DEF osgiVars, TypeInv, TypeOK, Pending, Waiting, Phases,
           TryPhases, FinallyPhases

\* Every step keeps the types.
LEMMA StepTyped == TypeInv /\ [Next]_vars => TypeInv'
<1> SUFFICES ASSUME TypeInv, [Next]_vars PROVE TypeInv'
  OBVIOUS
<1>a. MaxUploads \in Nat /\ MaxRestarts \in Nat
  BY ServiceDirectoryAssumption
<1>b. ASSUME NEW j \in Jobs, pc[j] \in TryPhases \ {"run"}
      PROVE  /\ need[j] <= Len(Needs[j]) /\ ~ (need[j] > Len(Needs[j]))
             /\ Len(Needs[j]) \in Nat /\ need[j] \in Nat \ {0}
  <2>1. need[j] \in 1 .. Len(Needs[j])
    BY <1>b, WantedBundle DEF TypeInv
  <2>2. Len(Needs[j]) \in Nat
    BY LenProperties, ServiceDirectoryAssumption
  <2> QED
    BY <2>1, <2>2
<1>c. 0 \in Contents /\ \A u \in 0 .. MaxUploads : u + 1 \in Contents
  BY <1>a DEF Contents
<1>d. need \in [Jobs -> Nat] /\ pc \in [Jobs -> Phases]
      /\ \A i \in Jobs : need[i] \in 1 .. Len(Needs[i]) + 1
  BY DEF TypeInv, TypeOK
<1>e. \A i \in Jobs : need[i] > Len(Needs[i]) => pc[i] \notin TryPhases \ {"run"}
  BY DEF TypeInv, TypeOK
<1>1. ASSUME NEW b \in Bundles, BeginUpload(b) PROVE TypeInv'
  <2>1. server' \in [Bundles -> Contents] /\ uploading' \in Bundles \cup {NoBundle}
    BY <1>1, <1>c DEF BeginUpload, TypeInv, TypeOK
  <2>2. uploads' \in 0 .. MaxUploads
    <3>1. uploads \in 0 .. MaxUploads /\ uploads < MaxUploads /\ uploads' = uploads + 1
      BY <1>1 DEF BeginUpload, TypeInv, TypeOK
    <3> QED
      BY <1>a, <3>1
  <2> QED
    BY <1>1, <2>1, <2>2 DEF BeginUpload, TypeInv, TypeOK, Pending, Waiting,
             mapVars, osgiVars, threadVars, endVars, historyVars
<1>2. ASSUME FinishUpload PROVE TypeInv'
  <2>1. server' \in [Bundles -> Contents] /\ uploading' \in Bundles \cup {NoBundle}
    BY <1>2, <1>c DEF FinishUpload, TypeInv, TypeOK
  <2> QED
    BY <1>2, <2>1 DEF FinishUpload, TypeInv, TypeOK, Pending, Waiting,
             mapVars, osgiVars, threadVars, endVars, historyVars
<1>3. ASSUME NEW j \in Jobs, StartJob(j) PROVE TypeInv'
  <2>1. Len(Needs[j]) \in Nat \ {0}
    BY EmptySeq, LenProperties, ServiceDirectoryAssumption
  <2>2. need[j] <= Len(Needs[j])
    BY <1>3, <2>1 DEF StartJob, TypeInv, Waiting
  <2>3. /\ pc' = [pc EXCEPT ![j] = "get"] /\ pc' \in [Jobs -> Phases]
        /\ actual' \in Jobs \cup {NoJob}
        /\ UNCHANGED <<serverVars, mapVars, osgiVars, need, todo, iter, error, stopping, reported,
                       development, restarts, baseline>>
    BY <1>3 DEF StartJob, GoTo, TypeInv, TypeOK, Phases, TryPhases
  <2>4. orderly' \in BOOLEAN
    BY <1>3 DEF StartJob, TypeInv, TypeOK
  <2>5. \A i \in Jobs : need'[i] > Len(Needs[i]) => pc'[i] \notin TryPhases \ {"run"}
    <3>1. ~ (need[j] > Len(Needs[j]))
      BY <1>d, <2>1, <2>2
    <3>2. need' = need /\ \A i \in Jobs \ {j} : pc'[i] = pc[i]
      BY <1>d, <2>3
    <3>3. ASSUME NEW i \in Jobs
          PROVE  need'[i] > Len(Needs[i]) => pc'[i] \notin TryPhases \ {"run"}
      <4>1. need'[i] = need[i]
        BY <3>2
      <4>2. CASE i = j
        BY <3>1, <4>1, <4>2
      <4>3. CASE i # j
        BY <1>e, <3>2, <4>1, <4>3
      <4> QED
        BY <4>2, <4>3
    <3> QED
      BY <3>3
  <2>6. TypeOK'
    BY <2>3, <2>4, <2>5 DEF TypeInv, TypeOK, serverVars, mapVars, osgiVars
  <2> QED
    BY <2>3, <2>6 DEF TypeInv, TypeOK, Pending, Waiting
<1>4. ASSUME NEW j \in Jobs, Get(j) PROVE TypeInv'
  <2>1. PICK p \in {"finally", "activate", "resolve"} : pc' = [pc EXCEPT ![j] = p]
    BY <1>4 DEF Get, Retrieve, Fail, GoTo
  <2>2. cache' \in [Bundles -> Contents] /\ error' \in [Jobs -> {"", "notfound", "noservice", "illegal"}]
    BY <1>4 DEF Get, Retrieve, Fail, TypeInv, TypeOK
  <2>3. pc[j] = "get" /\ UNCHANGED <<serverVars, historyVars, need, todo, iter, endVars, installed, active, osgiVars>>
    BY <1>4 DEF Get, AtTry
  <2> QED
    BY <1>b, <2>1, <2>2, <2>3, TryTyped DEF osgiVars, TypeInv, TypeOK, Pending, Waiting, Phases,
             TryPhases, FinallyPhases
<1>5. ASSUME NEW j \in Jobs, Resolve(j) PROVE TypeInv'
  <2>1. pc[j] = "resolve" /\ UNCHANGED <<serverVars, historyVars, need, iter, endVars, mapVars, osgiVars>>
    BY <1>5 DEF Resolve, AtTry
  <2>2. /\ Append(Deps[Wanted(j)], Wanted(j)) \in Seq(Bundles)
        /\ Append(Deps[Wanted(j)], Wanted(j)) # <<>>
    BY <2>1, ResolvedList DEF TypeInv, TryPhases
  <2>3. CASE pc' = [pc EXCEPT ![j] = "install"]
             /\ todo' = [todo EXCEPT ![j] = Append(Deps[Wanted(j)], Wanted(j))] /\ UNCHANGED error
    BY <1>b, <2>1, <2>2, <2>3, TryTyped DEF osgiVars, mapVars, TypeInv, TypeOK, Pending, Waiting,
             Phases, TryPhases, FinallyPhases
  <2>4. CASE Fail(j, "notfound") /\ UNCHANGED todo
    BY <2>1, <2>4, TryTyped DEF Fail, GoTo, osgiVars, mapVars, TypeInv, TypeOK, Pending, Waiting,
             Phases, TryPhases, FinallyPhases
  <2> QED
    BY <1>5, <2>3, <2>4 DEF Resolve, GoTo
<1>6. ASSUME NEW j \in Jobs, Install(j) PROVE TypeInv'
  <2> DEFINE b == Head(todo[j])
  <2>1. pc[j] = "install" /\ UNCHANGED <<serverVars, historyVars, need, iter, endVars, installed, active>>
    BY <1>6 DEF Install, AtTry
  <2>2. /\ todo[j] \in Seq(Bundles) /\ todo[j] # <<>>
        /\ b \in Bundles /\ Tail(todo[j]) \in Seq(Bundles)
        /\ Len(todo[j]) # 1 => Tail(todo[j]) # <<>>
    BY <2>1, ShorterList DEF TypeInv, TypeOK, Pending
  <2>3. CASE NextBundle(j) /\ UNCHANGED <<cache, osgiVars, error>>
    BY <1>b, <2>1, <2>2, <2>3, NextTyped DEF osgiVars, TypeInv, TypeOK, Pending, Waiting, Phases,
             TryPhases, FinallyPhases
  <2>4. CASE Retrieve(j, b, "install") /\ UNCHANGED <<osgiVars, todo>>
    <3>1. PICK p \in {"finally", "install"} : pc' = [pc EXCEPT ![j] = p]
      BY <2>4 DEF Retrieve, Fail, GoTo
    <3>2. cache' \in [Bundles -> Contents] /\ error' \in [Jobs -> {"", "notfound", "noservice", "illegal"}]
      BY <2>2, <2>4 DEF Retrieve, Fail, TypeInv, TypeOK
    <3> QED
      BY <1>b, <2>1, <2>2, <2>4, <3>1, <3>2, TryTyped DEF osgiVars, TypeInv, TypeOK, Pending,
               Waiting, Phases, TryPhases, FinallyPhases
  <2>5. CASE /\ GoTo(j, "record") /\ UNCHANGED <<cache, todo, error>>
             /\ \/ /\ framework' = [framework EXCEPT ![b] = "installed"]
                   /\ content' = [content EXCEPT ![b] = cache[b]]
                   /\ UNCHANGED inherited
                \/ UNCHANGED osgiVars
    <3>1. /\ framework' \in [Bundles -> {"uninstalled", "installed", "active"}]
          /\ content' \in [Bundles -> Contents] /\ inherited' \subseteq Bundles
      <4>1. CASE /\ framework' = [framework EXCEPT ![b] = "installed"]
                 /\ content' = [content EXCEPT ![b] = cache[b]]
                 /\ UNCHANGED inherited
        BY <2>2, <4>1 DEF TypeInv, TypeOK
      <4>2. CASE UNCHANGED osgiVars
        BY <4>2 DEF TypeInv, TypeOK, osgiVars
      <4> QED
        BY <2>5, <4>1, <4>2
    <3> QED
      BY <1>b, <2>1, <2>2, <2>5, <3>1, TryTyped DEF GoTo, TypeInv, TypeOK, Pending, Waiting,
               Phases, TryPhases, FinallyPhases
  <2> QED
    BY <1>6, <2>3, <2>4, <2>5 DEF Install
<1>7. ASSUME NEW j \in Jobs, RecordInstalled(j) PROVE TypeInv'
  <2>1. /\ pc[j] = "record" /\ NextBundle(j) /\ installed' = installed \cup {Head(todo[j])}
        /\ UNCHANGED <<serverVars, historyVars, need, iter, endVars, cache, active, osgiVars,
                       error>>
    BY <1>7 DEF RecordInstalled, AtTry
  <2>2. todo[j] \in Seq(Bundles) /\ todo[j] # <<>> /\ Head(todo[j]) \in Bundles
    BY <2>1, ShorterList DEF TypeInv, TypeOK, Pending
  <2> QED
    BY <1>b, <2>1, <2>2, NextTyped DEF osgiVars, TypeInv, TypeOK, Pending, Waiting, Phases,
             TryPhases, FinallyPhases
<1>8. ASSUME NEW j \in Jobs, StartBundle(j) PROVE TypeInv'
  <2>1. PICK p \in {"finally", "activate", "started"} : pc' = [pc EXCEPT ![j] = p]
    BY <1>8 DEF StartBundle, Fail, GoTo
  <2>2. /\ framework' \in [Bundles -> {"uninstalled", "installed", "active"}]
        /\ error' \in [Jobs -> {"", "notfound", "noservice", "illegal"}]
    BY <1>8 DEF StartBundle, Fail, TypeInv, TypeOK
  <2>3. pc[j] = "start"
        /\ UNCHANGED <<serverVars, historyVars, need, todo, iter, endVars, mapVars, content,
                       inherited>>
    BY <1>8 DEF StartBundle, AtTry
  <2>4. inherited' \subseteq Bundles
    BY <2>3 DEF TypeInv, TypeOK
  <2> QED
    BY <1>b, <2>4, <2>1, <2>2, <2>3, TryTyped DEF mapVars, TypeInv, TypeOK, Pending, Waiting, Phases,
             TryPhases, FinallyPhases
<1>9. ASSUME NEW j \in Jobs, RecordActive(j) PROVE TypeInv'
  BY <1>9, <1>b, WantedBundle DEF RecordActive, AtTry, GoTo, serverVars, endVars, historyVars,
           osgiVars, mapVars, threadVars,
         TypeInv, TypeOK, Pending, Waiting, Phases, TryPhases, FinallyPhases
<1>10. ASSUME NEW j \in Jobs, Activate(j) PROVE TypeInv'
  <2>1. pc[j] = "activate"
        /\ UNCHANGED <<serverVars, historyVars, todo, iter, endVars, mapVars, osgiVars>>
    BY <1>10 DEF Activate, AtTry
  <2>2. CASE UNCHANGED need
    <3>1. /\ pc' = [pc EXCEPT ![j] = "finally"]
          /\ error' \in [Jobs -> {"", "notfound", "noservice", "illegal"}]
      <4>1. need' # [need EXCEPT ![j] = need[j] + 1]
        BY <1>d, <2>2
      <4>2. PICK e \in {"illegal", "noservice"} : Fail(j, e)
        BY <1>10, <4>1 DEF Activate
      <4> QED
        BY <4>2 DEF Fail, GoTo, TypeInv, TypeOK
    <3> QED
      BY <2>1, <2>2, <3>1, TryTyped DEF mapVars, osgiVars, TypeInv, TypeOK, Pending, Waiting,
               Phases, TryPhases, FinallyPhases
  <2>3. CASE ~ UNCHANGED need
    <3>1. /\ pc' = [pc EXCEPT ![j] = IF need[j] = Len(Needs[j]) THEN "run" ELSE "get"]
          /\ need' = [need EXCEPT ![j] = need[j] + 1] /\ UNCHANGED error
      BY <1>10, <2>3 DEF Activate, Fail, GoTo
    <3>2. need[j] <= Len(Needs[j]) /\ Len(Needs[j]) \in Nat /\ need[j] \in Nat \ {0}
      BY <1>b, <2>1 DEF TryPhases
    <3>3. /\ need' \in [Jobs -> Nat]
          /\ \A i \in Jobs : need'[i] \in 1 .. Len(Needs[i]) + 1
                             /\ (need'[i] > Len(Needs[i]) => pc'[i] \notin TryPhases \ {"run"})
      <4>1. need' \in [Jobs -> Nat]
        BY <1>d, <3>1, <3>2
      <4>2. ASSUME NEW i \in Jobs, i # j PROVE need'[i] = need[i] /\ pc'[i] = pc[i]
        BY <3>1, <4>2 DEF TypeInv, TypeOK
      <4>3. need'[j] \in 1 .. Len(Needs[j]) + 1
        BY <1>d, <3>1, <3>2
      <4>4. need'[j] > Len(Needs[j]) => pc'[j] = "run"
        BY <1>d, <3>1, <3>2
      <4> QED
        BY <1>d, <1>e, <4>1, <4>2, <4>3, <4>4
    <3>4. pc' \in [Jobs -> Phases]
      BY <3>1 DEF TypeInv, TypeOK, Phases, TryPhases
    <3>5. TypeOK'
      BY <2>1, <3>1, <3>3, <3>4 DEF TypeInv, TypeOK, GoTo, serverVars, endVars, historyVars,
               osgiVars, mapVars, threadVars
    <3>6. Pending' /\ Waiting'
      BY <2>1, <3>1 DEF TypeInv, TypeOK, Pending, Waiting
    <3> QED
      BY <3>5, <3>6 DEF TypeInv
  <2> QED
    BY <2>2, <2>3
<1>11. ASSUME NEW j \in Jobs, EndRun(j) PROVE TypeInv'
  BY <1>11 DEF EndRun, AtTry, GoTo, serverVars, endVars, historyVars, osgiVars, mapVars, threadVars,
         TypeInv, TypeOK, Pending, Waiting, Phases, TryPhases, FinallyPhases
<1>12. ASSUME NEW j \in Jobs, ClearJob(j) PROVE TypeInv'
  BY <1>12 DEF ClearJob, NoJob, AtFinally, GoTo, serverVars, endVars, historyVars, osgiVars,
           mapVars, threadVars,
         TypeInv, TypeOK, Pending, Waiting, Phases, TryPhases, FinallyPhases
<1>13. ASSUME NEW j \in Jobs, NEW m \in SUBSET Bundles, NEW b \in Bundles,
             NEW d \in {"installed", "uninstalled"}, NEW p \in {"stop", "uninstall"},
             AtFinally(j, p), Visit(j, b, m, d)
       PROVE  TypeInv'
  <2>1. /\ pc' \in [Jobs -> Phases]
        /\ \A i \in Jobs : pc'[i] = pc[i] \/ (pc[i] = p /\ pc'[i] = "thrown")
    BY <1>13 DEF AtFinally, Visit, GoTo, TypeInv, TypeOK, Phases
  <2>2. /\ framework' \in [Bundles -> {"uninstalled", "installed", "active"}]
        /\ content' \in [Bundles -> Contents]
    <3>1. CASE UNCHANGED osgiVars
      BY <3>1 DEF osgiVars, TypeInv, TypeOK
    <3>2. CASE ~ UNCHANGED osgiVars
      <4>1. /\ framework' = [framework EXCEPT ![b] = d]
            /\ content' = [content EXCEPT ![b] = IF d = "uninstalled" THEN 0 ELSE content[b]]
        BY <1>13, <3>2 DEF Visit
      <4> QED
        BY <1>c, <4>1 DEF TypeInv, TypeOK
    <3> QED
      BY <3>1, <3>2
  <2>3. iter' \in [Jobs -> [map : SUBSET Bundles, left : SUBSET Bundles]]
    <3>1. CASE UNCHANGED iter
      BY <3>1 DEF TypeInv, TypeOK
    <3>2. CASE iter' = [iter EXCEPT ![j] = [iter[j] EXCEPT !.left = iter[j].left \ {b}]]
      BY <3>2 DEF TypeInv, TypeOK
    <3> QED
      BY <1>13, <3>1, <3>2 DEF Visit
  <2> QED
    BY <1>13, <2>1, <2>2, <2>3 DEF AtFinally, Visit, GoTo, serverVars, endVars, historyVars,
             osgiVars, mapVars, threadVars, TypeInv, TypeOK, Pending, Waiting, Phases, TryPhases,
             FinallyPhases
<1>14. ASSUME NEW j \in Jobs, ClearActive(j) PROVE TypeInv'
  BY <1>14 DEF ClearActive, AtFinally, GoTo, serverVars, endVars, historyVars, osgiVars, mapVars,
           threadVars,
         TypeInv, TypeOK, Pending, Waiting, Phases, TryPhases, FinallyPhases
<1>15. ASSUME NEW j \in Jobs, Stop(j) \/ Uninstall(j) PROVE TypeInv'
  BY <1>13, <1>15 DEF Stop, Uninstall, TypeInv, TypeOK
<1>16. ASSUME NEW j \in Jobs, ClearInstalled(j) PROVE TypeInv'
  BY <1>16 DEF ClearInstalled, NoLoop, AtFinally, GoTo, serverVars, endVars, historyVars,
           osgiVars, mapVars, threadVars,
         TypeInv, TypeOK, Pending, Waiting, Phases, TryPhases, FinallyPhases
<1>17. ASSUME NEW j \in Jobs, ReportEnd(j) PROVE TypeInv'
  BY <1>17 DEF ReportEnd, AtFinally, GoTo, serverVars, endVars, historyVars, osgiVars, mapVars,
           threadVars,
         TypeInv, TypeOK, Pending, Waiting, Phases, TryPhases, FinallyPhases
<1>18. ASSUME NEW j \in Jobs, RaiseKill(j) PROVE TypeInv'
  BY <1>18 DEF RaiseKill, AtTry, GoTo, serverVars, endVars, historyVars, osgiVars, mapVars,
           threadVars,
         TypeInv, TypeOK, Pending, Waiting, Phases, TryPhases, FinallyPhases
<1>19. ASSUME NEW j \in Jobs, KillJob(j) PROVE TypeInv'
  BY <1>19 DEF KillJob, AtTry, GoTo, serverVars, endVars, historyVars, osgiVars, mapVars,
           threadVars,
         TypeInv, TypeOK, Pending, Waiting, Phases, TryPhases, FinallyPhases
<1>20. ASSUME NEW kept \in BOOLEAN, Restart(kept) PROVE TypeInv'
  <2>1. cache' \in [Bundles -> Contents] /\ content' \in [Bundles -> Contents]
        /\ framework' \in [Bundles -> {"uninstalled", "installed", "active"}]
        /\ baseline' \in [Bundles -> Contents] /\ UNCHANGED <<serverVars, development>>
        /\ inherited' \subseteq Bundles
    BY <1>20, <1>c DEF Restart, Validate, TypeInv, TypeOK
  <2>2. restarts' \in 0 .. MaxRestarts
    <3>1. restarts \in 0 .. MaxRestarts /\ restarts < MaxRestarts /\ restarts' = restarts + 1
      BY <1>20 DEF Restart, TypeInv, TypeOK
    <3> QED
      BY <1>a, <3>1
  <2>3. /\ pc' \in [Jobs -> Phases] /\ \A i \in Jobs : pc'[i] \in {"none", "lost"}
        /\ error' \in [Jobs -> {"", "notfound", "noservice", "illegal"}]
        /\ iter' \in [Jobs -> [map : SUBSET Bundles, left : SUBSET Bundles]]
    BY <1>20 DEF Restart, NoLoop, Phases
  <2>4. need' \in [Jobs -> Nat] /\ \A i \in Jobs : need'[i] \in 1 .. Len(Needs[i]) + 1 /\ need'[i] = 1
    <3>1. \A i \in Jobs : Len(Needs[i]) \in Nat
      BY LenProperties, ServiceDirectoryAssumption
    <3>2. need' = [i \in Jobs |-> 1]
      BY <1>20 DEF Restart
    <3> QED
      BY <3>1, <3>2
  <2>5. todo' \in [Jobs -> Seq(Bundles)]
    BY <1>20, EmptySeq DEF Restart
  <2>6. /\ installed' = {} /\ active' = {} /\ actual' \in Jobs \cup {NoJob} /\ stopping' = {}
        /\ reported' \subseteq Jobs
    BY <1>20 DEF Restart
  <2>7. orderly' \in BOOLEAN
    BY <1>20 DEF Restart
  <2>8. TypeOK'
    BY <2>1, <2>2, <2>3, <2>4, <2>5, <2>6, <2>7 DEF TypeInv, TypeOK, serverVars, TryPhases
  <2> QED
    BY <2>3, <2>4, <2>8 DEF TypeInv, Pending, Waiting
<1>21. CASE UNCHANGED vars
  BY <1>21 DEF vars, AtTry, GoTo, serverVars, endVars, historyVars, osgiVars, mapVars, threadVars,
         TypeInv, TypeOK, Pending, Waiting, Phases, TryPhases, FinallyPhases
<1> QED
  BY <1>1, <1>2, <1>3, <1>4, <1>5, <1>6, <1>7, <1>8, <1>9, <1>10, <1>11, <1>12, <1>14,
     <1>15, <1>16, <1>17, <1>18, <1>19, <1>20, <1>21 DEF Next, JobThread

-----------------------------------------------------------------------------
(* The age of what runs.                                                   *)

\* A step leaves nothing old behind if the cache gains only files of the server
\* and the framework only files of the cache.
LEMMA FreshKept ==
    ASSUME Fresh, UNCHANGED <<server, uploads, baseline>>,
           \A b \in Bundles : cache'[b] \in {cache[b], server[b]},
           \A b \in Bundles : framework'[b] # "uninstalled" /\ b \notin inherited' =>
               \/ /\ framework[b] # "uninstalled" /\ b \notin inherited
                  /\ content'[b] = content[b]
               \/ cache[b] # 0 /\ content'[b] = cache[b]
    PROVE  Fresh'
<1> SUFFICES ASSUME NEW b \in Bundles
             PROVE  /\ cache'[b] # 0 => cache'[b] >= baseline[b]
                    /\ framework'[b] # "uninstalled" /\ b \notin inherited' =>
                           content'[b] >= baseline[b]
  BY DEF Fresh
<1>1. /\ server[b] # 0 => server[b] >= baseline[b]
      /\ cache[b] # 0 => cache[b] >= baseline[b]
      /\ framework[b] # "uninstalled" /\ b \notin inherited => content[b] >= baseline[b]
  BY DEF Fresh
<1>2. cache'[b] # 0 => cache'[b] >= baseline[b]
  <2>1. cache'[b] = cache[b] \/ cache'[b] = server[b]
    OBVIOUS
  <2> QED
    BY <1>1, <2>1
<1>3. framework'[b] # "uninstalled" /\ b \notin inherited' => content'[b] >= baseline[b]
  BY <1>1
<1> QED
  BY <1>2, <1>3

\* At the start nothing runs and the cache holds what the server has.
LEMMA InitFresh == Init => Fresh
<1> SUFFICES ASSUME Init, NEW b \in Bundles
             PROVE  /\ baseline[b] <= uploads + 1
                    /\ server[b] <= uploads + 1
                    /\ server[b] # 0 => server[b] >= baseline[b]
                    /\ cache[b] # 0 => cache[b] >= baseline[b]
                    /\ framework[b] = "uninstalled"
  BY DEF Fresh
<1>1. /\ server[b] \in {0, 1} /\ cache[b] \in {0, 1} /\ cache[b] <= server[b]
      /\ baseline = server /\ uploads = 0
  BY DEF Init
<1>2. framework[b] = "uninstalled"
  BY DEF Init
<1> QED
  BY <1>1, <1>2

\* No step makes anything run, or keeps anything in the cache, that is older than
\* the worker's start.
LEMMA StepFresh == TypeInv /\ Fresh /\ [Next]_vars => Fresh'
<1> SUFFICES ASSUME TypeInv, Fresh, [Next]_vars PROVE Fresh'
  OBVIOUS
<1>a. /\ server \in [Bundles -> Contents] /\ cache \in [Bundles -> Contents]
      /\ content \in [Bundles -> Contents] /\ baseline \in [Bundles -> Contents]
      /\ framework \in [Bundles -> {"uninstalled", "installed", "active"}]
      /\ uploads \in Nat /\ Contents \subseteq Nat
  <2>1. Contents \subseteq Nat
    BY ServiceDirectoryAssumption DEF Contents
  <2>2. uploads \in Nat
    <3>1. MaxUploads \in Nat /\ uploads \in 0 .. MaxUploads
      BY ServiceDirectoryAssumption DEF TypeInv, TypeOK
    <3> QED
      BY <3>1
  <2> QED
    BY <2>1, <2>2 DEF TypeInv, TypeOK
<1>b. ASSUME UNCHANGED <<server, uploads, baseline, cache>>,
             \A b \in Bundles : framework'[b] # "uninstalled" /\ b \notin inherited' =>
                 /\ framework[b] # "uninstalled" /\ b \notin inherited
                 /\ content'[b] = content[b]
      PROVE  Fresh'
  BY <1>b, FreshKept
<1>1. ASSUME NEW b \in Bundles, BeginUpload(b) PROVE Fresh'
  <2>1. /\ server' = [server EXCEPT ![b] = 0] /\ uploads' = uploads + 1
        /\ UNCHANGED <<cache, framework, content, inherited, baseline>>
    BY <1>1 DEF BeginUpload, mapVars, osgiVars, historyVars
  <2>2. ASSUME NEW c \in Bundles
        PROVE  /\ baseline[c] \in Nat /\ server[c] \in Nat
               /\ baseline[c] <= uploads + 1 /\ server[c] <= uploads + 1
               /\ server'[c] = 0 \/ server'[c] = server[c]
               /\ server[c] # 0 => server[c] >= baseline[c]
    BY <1>a, <2>1 DEF Fresh
  <2>3. ASSUME NEW c \in Bundles
        PROVE  /\ baseline'[c] <= uploads' + 1 /\ server'[c] <= uploads' + 1
               /\ server'[c] # 0 => server'[c] >= baseline'[c]
    <3>1. baseline[c] <= uploads + 1 + 1 /\ server[c] <= uploads + 1 + 1 /\ 0 <= uploads + 1 + 1
      BY <1>a, <2>2
    <3> QED
      BY <2>1, <2>2, <3>1
  <2> QED
    BY <2>1, <2>3 DEF Fresh
<1>2. ASSUME FinishUpload PROVE Fresh'
  <2>1. /\ server' = [server EXCEPT ![uploading] = uploads + 1]
        /\ UNCHANGED <<uploads, cache, framework, content, inherited, baseline>>
    BY <1>2 DEF FinishUpload, mapVars, osgiVars, historyVars
  <2> QED
    BY <1>a, <2>1 DEF Fresh
<1>3. ASSUME NEW j \in Jobs, StartJob(j) \/ KillJob(j) \/ RaiseKill(j) PROVE Fresh'
  BY <1>b, <1>3 DEF StartJob, KillJob, RaiseKill, serverVars, mapVars, osgiVars, historyVars
<1>4. ASSUME NEW j \in Jobs, Get(j) PROVE Fresh'
  <2>1. UNCHANGED <<server, uploads, baseline, framework, content, inherited>>
    BY <1>4 DEF Get, AtTry, serverVars, osgiVars, historyVars
  <2>2. \A b \in Bundles : cache'[b] \in {cache[b], server[b]}
    BY <1>4, <1>a DEF Get, Retrieve
  <2> QED
    BY <2>1, <2>2, FreshKept
<1>5. ASSUME NEW j \in Jobs, Resolve(j) \/ RecordActive(j) \/ Activate(j) \/ EndRun(j)
                               \/ RecordInstalled(j)
      PROVE  Fresh'
  BY <1>b, <1>5 DEF Resolve, RecordActive, Activate, EndRun, RecordInstalled, AtTry,
                    serverVars, mapVars, osgiVars, historyVars
<1>6. ASSUME NEW j \in Jobs, Install(j) PROVE Fresh'
  <2> DEFINE b == Head(todo[j])
  <2>1. UNCHANGED <<server, uploads, baseline>>
    BY <1>6 DEF Install, AtTry, serverVars, historyVars
  <2>2. CASE UNCHANGED <<cache, osgiVars>>
    BY <1>b, <2>1, <2>2 DEF osgiVars
  <2>3. CASE Retrieve(j, b, "install") /\ UNCHANGED osgiVars
    <3>1. \A c \in Bundles : cache'[c] \in {cache[c], server[c]}
      BY <1>a, <2>3 DEF Retrieve
    <3> QED
      BY <2>1, <2>3, <3>1, FreshKept DEF osgiVars
  <2>4. CASE /\ cache[b] # 0 /\ UNCHANGED cache
             /\ framework' = [framework EXCEPT ![b] = "installed"]
             /\ content' = [content EXCEPT ![b] = cache[b]]
             /\ UNCHANGED inherited
    <3>1. \A c \in Bundles : \/ c = b /\ content'[c] = cache[c]
                             \/ framework'[c] = framework[c] /\ content'[c] = content[c]
      BY <1>a, <2>4
    <3> QED
      BY <2>1, <2>4, <3>1, FreshKept
  <2> QED
    BY <1>6, <2>2, <2>3, <2>4 DEF Install
<1>7. ASSUME NEW j \in Jobs, StartBundle(j) PROVE Fresh'
  <2>1. UNCHANGED <<server, uploads, baseline, cache, content, inherited>>
    BY <1>7 DEF StartBundle, AtTry, serverVars, mapVars, historyVars
  <2>2. \/ UNCHANGED framework
        \/ framework[Wanted(j)] # "uninstalled" /\ framework' = [framework EXCEPT ![Wanted(j)] = "active"]
    BY <1>7 DEF StartBundle
  <2> QED
    BY <1>a, <1>b, <2>1, <2>2
<1>8. ASSUME NEW j \in Jobs,
             ClearJob(j) \/ ClearActive(j) \/ ClearInstalled(j) \/ ReportEnd(j)
      PROVE  Fresh'
  BY <1>b, <1>8 DEF ClearJob, ClearActive, ClearInstalled, ReportEnd, AtFinally,
                    serverVars, osgiVars, historyVars
<1>9. ASSUME NEW j \in Jobs, Stop(j) \/ Uninstall(j) PROVE Fresh'
  <2>1. UNCHANGED <<server, uploads, baseline, cache>>
    BY <1>9 DEF Stop, Uninstall, AtFinally, serverVars, historyVars
  <2>2. PICK b \in Bundles, d \in {"installed", "uninstalled"} :
            \/ UNCHANGED osgiVars
            \/ /\ framework[b] # "uninstalled" /\ framework' = [framework EXCEPT ![b] = d]
               /\ content' = [content EXCEPT ![b] = IF d = "uninstalled" THEN 0 ELSE content[b]]
               /\ inherited' = IF d = "uninstalled" THEN inherited \ {b} ELSE inherited
    BY <1>9 DEF Stop, Uninstall, Visit
  <2>3. ASSUME NEW c \in Bundles, framework'[c] # "uninstalled", c \notin inherited'
        PROVE  framework[c] # "uninstalled" /\ c \notin inherited /\ content'[c] = content[c]
    BY <1>a, <2>2, <2>3 DEF osgiVars
  <2> QED
    BY <1>b, <2>1, <2>3
<1>10. ASSUME NEW kept \in BOOLEAN, Restart(kept) PROVE Fresh'
  <2>1. /\ UNCHANGED <<server, uploads>> /\ baseline' = server
        /\ cache' = [b \in Bundles |-> Validate(b)]
        /\ \A b \in Bundles : framework'[b] = "uninstalled" \/ b \in inherited'
    BY <1>10 DEF Restart, serverVars
  <2>2. ASSUME NEW b \in Bundles PROVE cache'[b] \in {0, server[b]}
    BY <2>1 DEF Validate
  <2>3. ASSUME NEW b \in Bundles
        PROVE  /\ server[b] \in Nat /\ server[b] <= uploads + 1
               /\ framework'[b] = "uninstalled" \/ b \in inherited'
               /\ cache'[b] \in {0, server[b]}
    BY <1>a, <2>1, <2>2 DEF Fresh
  <2> QED
    BY <2>1, <2>3 DEF Fresh
<1>11. CASE UNCHANGED vars
  BY <1>b, <1>11 DEF vars, serverVars, mapVars, osgiVars, historyVars
<1> QED
  BY <1>1, <1>2, <1>3, <1>4, <1>5, <1>6, <1>7, <1>8, <1>9, <1>10, <1>11 DEF Next, JobThread

-----------------------------------------------------------------------------
(* The order of the jobs.                                                  *)

\* What a step of job j's thread leaves alone.
ThreadOnly(j) ==
    /\ pc[j] \in TryPhases \cup FinallyPhases
    /\ pc'[j] # "none" /\ UNCHANGED orderly
    /\ \A i \in Jobs \ {j} : pc'[i] = pc[i] /\ error'[i] = error[i] /\ need'[i] = need[i]
    /\ reported' = reported \/ (pc'[j] = "ended" /\ reported' = reported \cup {j})

LEMMA ThreadSteps == ASSUME TypeInv, NEW j \in Jobs, JobThread(j) PROVE ThreadOnly(j)
<1>a. /\ pc \in [Jobs -> Phases] /\ need \in [Jobs -> Nat]
      /\ error \in [Jobs -> {"", "notfound", "noservice", "illegal"}]
  BY DEF TypeInv, TypeOK
<1>b. ASSUME NEW p, p # "none", pc[j] \in TryPhases \cup FinallyPhases,
             pc' = [pc EXCEPT ![j] = p] \/ pc' = pc,
             error' = error \/ \E e : error' = [error EXCEPT ![j] = e],
             need' = need \/ \E n : need' = [need EXCEPT ![j] = n],
             UNCHANGED <<orderly, reported>>
      PROVE  ThreadOnly(j)
  BY <1>a, <1>b DEF ThreadOnly, TryPhases, FinallyPhases
<1>1. ASSUME Get(j) PROVE ThreadOnly(j)
  <2>1. PICK p \in {"finally", "activate", "resolve"} : pc' = [pc EXCEPT ![j] = p]
    BY <1>1 DEF Get, Retrieve, Fail, GoTo
  <2> QED
    BY <1>1, <1>b, <2>1 DEF Get, Retrieve, Fail, AtTry, TryPhases, historyVars, endVars
<1>2. ASSUME Resolve(j) PROVE ThreadOnly(j)
  <2>1. PICK p \in {"finally", "install"} : pc' = [pc EXCEPT ![j] = p]
    BY <1>2 DEF Resolve, Fail, GoTo
  <2> QED
    BY <1>2, <1>b, <2>1 DEF Resolve, Fail, AtTry, TryPhases, historyVars, endVars
<1>3. ASSUME Install(j) PROVE ThreadOnly(j)
  <2>1. PICK p \in {"finally", "install", "record", "start"} : pc' = [pc EXCEPT ![j] = p]
    BY <1>3 DEF Install, Retrieve, NextBundle, Fail, GoTo
  <2> QED
    BY <1>3, <1>b, <2>1 DEF Install, Retrieve, Fail, AtTry, TryPhases, historyVars, endVars
<1>4. ASSUME RecordInstalled(j) PROVE ThreadOnly(j)
  <2>1. PICK p \in {"install", "start"} : pc' = [pc EXCEPT ![j] = p]
    BY <1>4 DEF RecordInstalled, NextBundle, GoTo
  <2> QED
    BY <1>4, <1>b, <2>1 DEF RecordInstalled, AtTry, TryPhases, historyVars, endVars
<1>5. ASSUME StartBundle(j) PROVE ThreadOnly(j)
  <2>1. PICK p \in {"finally", "activate", "started"} : pc' = [pc EXCEPT ![j] = p]
    BY <1>5 DEF StartBundle, Fail, GoTo
  <2> QED
    BY <1>5, <1>b, <2>1 DEF StartBundle, Fail, AtTry, TryPhases, historyVars, endVars
<1>6. ASSUME RecordActive(j) \/ EndRun(j) PROVE ThreadOnly(j)
  BY <1>6, <1>b DEF RecordActive, EndRun, GoTo, AtTry, TryPhases, historyVars, endVars
<1>7. ASSUME Activate(j) PROVE ThreadOnly(j)
  <2>1. PICK p \in {"finally", "run", "get"} : pc' = [pc EXCEPT ![j] = p]
    BY <1>7 DEF Activate, Fail, GoTo
  <2> QED
    BY <1>7, <1>b, <2>1 DEF Activate, Fail, AtTry, TryPhases, historyVars, endVars
<1>8. ASSUME ClearJob(j) \/ ClearActive(j) \/ ClearInstalled(j) PROVE ThreadOnly(j)
  BY <1>8, <1>b DEF ClearJob, ClearActive, ClearInstalled, GoTo, AtFinally, FinallyPhases,
           historyVars
<1>9. ASSUME Stop(j) \/ Uninstall(j) PROVE ThreadOnly(j)
  <2>1. pc' = [pc EXCEPT ![j] = "thrown"] \/ pc' = pc
    BY <1>9 DEF Stop, Uninstall, Visit, GoTo
  <2>2. /\ pc[j] \in FinallyPhases /\ UNCHANGED <<error, need, orderly, reported>>
    BY <1>9 DEF Stop, Uninstall, Visit, AtFinally, FinallyPhases, historyVars
  <2> QED
    BY <1>b, <2>1, <2>2
<1>10. ASSUME ReportEnd(j) PROVE ThreadOnly(j)
  BY <1>10, <1>a DEF ReportEnd, GoTo, AtFinally, ThreadOnly, FinallyPhases, historyVars
<1>11. ASSUME RaiseKill(j) PROVE ThreadOnly(j)
  <2>1. PICK p \in {"finally", "killed"} : pc' = [pc EXCEPT ![j] = p]
    BY <1>11 DEF RaiseKill, GoTo
  <2> QED
    BY <1>11, <1>b, <2>1 DEF RaiseKill, historyVars
<1> QED
  BY <1>1, <1>2, <1>3, <1>4, <1>5, <1>6, <1>7, <1>8, <1>9, <1>10, <1>11 DEF JobThread

LEMMA InitOrder == Init => Order
<1> SUFFICES ASSUME Init PROVE Order
  OBVIOUS
<1>1. reported = {} /\ \A j \in Jobs : pc[j] = "none" /\ error[j] = ""
  BY DEF Init
<1> QED
  BY <1>1 DEF Order

\* Jobs are started in their order, and only what has ended is reported.
LEMMA StepOrder == TypeInv /\ Order /\ [Next]_vars => Order'
<1> SUFFICES ASSUME TypeInv, Order, [Next]_vars PROVE Order'
  OBVIOUS
<1>a. /\ pc \in [Jobs -> Phases] /\ reported \subseteq Jobs
  BY DEF TypeInv, TypeOK
<1>b. ASSUME UNCHANGED <<pc, error, reported, orderly>> PROVE Order'
  BY <1>b DEF Order
<1>1. ASSUME NEW j \in Jobs, StartJob(j) PROVE Order'
  <2>1. /\ pc[j] = "none" /\ \A i \in 1 .. j - 1 : pc[i] # "none"
        /\ pc' = [pc EXCEPT ![j] = "get"] /\ UNCHANGED <<error, reported>>
        /\ orderly' = (orderly /\ \A i \in 1 .. j - 1 : i \in reported)
    BY <1>1 DEF StartJob, GoTo
  <2>2. pc'[j] = "get" /\ \A i \in Jobs \ {j} : pc'[i] = pc[i]
    BY <1>a, <2>1
  <2>3. \A i \in Jobs : i < j => i \in 1 .. j - 1
    BY ServiceDirectoryAssumption DEF Jobs
  <2>4. \A i \in reported' : pc'[i] \in {"ended", "lost"}
    BY <1>a, <2>1, <2>2 DEF Order
  <2>5. \A i \in Jobs : pc'[i] = "none" => error'[i] = ""
    BY <2>1, <2>2 DEF Order
  <2>6. \A i, k \in Jobs : i < k /\ pc'[k] # "none" => pc'[i] # "none"
    BY <2>1, <2>2, <2>3 DEF Order
  <2>7. orderly' => \A i, k \in Jobs : i < k /\ pc'[k] # "none" => i \in reported'
    BY <2>1, <2>2, <2>3 DEF Order
  <2> QED
    BY <2>4, <2>5, <2>6, <2>7 DEF Order
<1>2. ASSUME NEW j \in Jobs, JobThread(j) PROVE Order'
  <2>1. ThreadOnly(j)
    BY <1>2, ThreadSteps
  <2>2. pc[j] \notin {"none", "ended", "lost"}
    BY <2>1 DEF ThreadOnly, TryPhases, FinallyPhases
  <2>3. j \notin reported
    BY <2>2 DEF Order
  <2>4. ASSUME NEW i \in Jobs PROVE pc'[i] = "none" <=> pc[i] = "none"
    <3>1. CASE i = j
      BY <2>1, <2>2, <3>1 DEF ThreadOnly
    <3>2. CASE i # j
      BY <2>1, <3>2 DEF ThreadOnly
    <3> QED
      BY <3>1, <3>2
  <2>5. ASSUME NEW i \in reported' PROVE pc'[i] \in {"ended", "lost"}
    <3>1. CASE i = j
      BY <2>1, <2>3, <2>5, <3>1 DEF ThreadOnly
    <3>2. CASE i # j
      <4>1. i \in reported /\ i \in Jobs \ {j}
        BY <1>a, <2>1, <2>5, <3>2 DEF ThreadOnly
      <4> QED
        BY <2>1, <4>1 DEF ThreadOnly, Order
    <3> QED
      BY <3>1, <3>2
  <2>6. \A i \in Jobs : pc'[i] = "none" => error'[i] = ""
    BY <2>1, <2>2 DEF ThreadOnly, Order
  <2> QED
    BY <2>1, <2>4, <2>5, <2>6 DEF ThreadOnly, Order
<1>3. ASSUME NEW kept \in BOOLEAN, Restart(kept) PROVE Order'
  <2>1. \A i \in Jobs : /\ pc'[i] = IF pc[i] = "none" THEN "none" ELSE "lost"
                        /\ error'[i] = ""
    BY <1>3 DEF Restart
  <2>2. reported' = {i \in Jobs : pc[i] # "none"}
    BY <1>3 DEF Restart
  <2> QED
    BY <2>1, <2>2 DEF Order
<1>4. CASE \/ \E b \in Bundles : BeginUpload(b)
           \/ FinishUpload
           \/ \E j \in Jobs : KillJob(j)
           \/ UNCHANGED vars
  BY <1>b, <1>4 DEF BeginUpload, FinishUpload, KillJob, vars, threadVars, endVars, historyVars
<1> QED
  BY <1>1, <1>2, <1>3, <1>4 DEF Next

-----------------------------------------------------------------------------
(* What a job's thread relies on.                                          *)

\* In the try block the maps match and the services a job was given are there.
LEMMA InTry ==
    ASSUME NEW j \in Jobs, JobInv(j), pc[j] \in TryPhases
    PROVE  error[j] = "" /\ Served(j) /\ MapsMatch /\ Running
BY DEF JobInv, TryInv, CleanupInv

\* Going on within the try block.
LEMMA StaysInTry ==
    ASSUME NEW j \in Jobs, pc'[j] \in TryPhases, error'[j] = "",
           Served(j)', MapsMatch', Running',
           pc'[j] = "get" => need'[j] # 1,
           pc'[j] \in {"install", "record"} =>
               \A b \in Closure(j)' : b \in installed' \/ Listed(b, todo'[j]),
           pc'[j] = "record" => framework'[Head(todo'[j])] # "uninstalled",
           pc'[j] = "start" => Closure(j)' \subseteq installed',
           pc'[j] = "started" => Wanted(j)' \in installed' /\ framework'[Wanted(j)'] = "active",
           pc'[j] = "activate" => Wanted(j)' \in active'
    PROVE  JobInv(j)'
BY DEF JobInv, TryInv, CleanupInv, ErrorInv, TryPhases

\* Leaving it.
LEMMA EntersFinally ==
    ASSUME NEW j \in Jobs, pc'[j] = "finally", MapsMatch', Running', ErrorInv(j)'
    PROVE  JobInv(j)'
BY DEF JobInv, TryInv, CleanupInv, TryPhases

\* Failing because the server has no file.
LEMMA FailsForWant ==
    ASSUME TypeInv, NEW j \in Jobs, JobInv(j), pc[j] \in TryPhases, Fail(j, "notfound"),
           UNCHANGED <<framework, installed, active, need>>
    PROVE  JobInv(j)'
<1>1. pc'[j] = "finally" /\ error'[j] = "notfound"
  BY DEF Fail, GoTo, TypeInv, TypeOK
<1>2. MapsMatch' /\ Running'
  BY InTry DEF MapsMatch, Running
<1>3. ErrorInv(j)'
  BY <1>1 DEF ErrorInv
<1> QED
  BY <1>1, <1>2, <1>3, EntersFinally

\* Going on to the next bundle when the first of the list is installed.
LEMMA NextInstalled ==
    ASSUME TypeInv, NEW j \in Jobs, JobInv(j), pc[j] \in {"install", "record"}, NextBundle(j),
           installed' = installed \cup {Head(todo[j])}, framework[Head(todo[j])] # "uninstalled",
           UNCHANGED <<framework, active, need, error>>
    PROVE  JobInv(j)'
<1> DEFINE s == todo[j]
<1>1. s \in Seq(Bundles) /\ s # <<>> /\ Head(s) \in Bundles
      /\ (\A b : Listed(b, s) => b = Head(s) \/ Listed(b, Tail(s)))
      /\ (Len(s) = 1 => \A b : Listed(b, s) => b = Head(s))
  BY ShorterList DEF TypeInv, TypeOK, Pending
<1>2. todo'[j] = Tail(s) /\ pc'[j] = (IF Len(s) = 1 THEN "start" ELSE "install")
  BY DEF NextBundle, GoTo, TypeInv, TypeOK
<1>3. \A b \in Closure(j) : b \in installed \/ Listed(b, s)
  BY DEF JobInv, TryInv, TryPhases
<1>4. Closure(j)' = Closure(j)
  BY DEF Closure, Wanted
<1>5. error[j] = "" /\ Served(j) /\ MapsMatch /\ Running
  BY InTry DEF TryPhases
<1>6. Served(j)' /\ MapsMatch' /\ Running'
  BY <1>1, <1>5 DEF Served, MapsMatch, Running
<1>7. CASE Len(s) = 1
  <2>1. Closure(j)' \subseteq installed'
    BY <1>1, <1>3, <1>4, <1>7
  <2> QED
    BY <1>2, <1>5, <1>6, <1>7, <2>1, StaysInTry DEF TryPhases
<1>8. CASE Len(s) # 1
  <2>1. \A b \in Closure(j)' : b \in installed' \/ Listed(b, todo'[j])
    BY <1>1, <1>2, <1>3, <1>4
  <2> QED
    BY <1>2, <1>5, <1>6, <1>8, <2>1, StaysInTry DEF TryPhases
<1> QED
  BY <1>7, <1>8

\* The services a job was given are those of bundles.
LEMMA ServedBundles ==
    ASSUME TypeInv, NEW j \in Jobs, NEW i \in 1 .. need[j] - 1
    PROVE  Needs[j][i] \in Bundles
<1>1. Needs[j] \in Seq(Bundles) /\ Len(Needs[j]) \in Nat /\ need[j] \in 1 .. Len(Needs[j]) + 1
  BY LenProperties, ServiceDirectoryAssumption DEF TypeInv, TypeOK
<1>2. i \in 1 .. Len(Needs[j])
  BY <1>1
<1> QED
  BY <1>1, <1>2, ElementOfSeq

\* A thread's step in the try block keeps what it relies on.
LEMMA TryKeeps ==
    ASSUME TypeInv, NEW j \in Jobs, JobInv(j),
           \/ Get(j) \/ Resolve(j) \/ Install(j) \/ RecordInstalled(j)
           \/ StartBundle(j) \/ RecordActive(j) \/ Activate(j) \/ EndRun(j)
    PROVE  JobInv(j)'
<1>a. /\ pc \in [Jobs -> Phases] /\ need \in [Jobs -> Nat]
      /\ error \in [Jobs -> {"", "notfound", "noservice", "illegal"}]
      /\ framework \in [Bundles -> {"uninstalled", "installed", "active"}]
  BY DEF TypeInv, TypeOK
<1>b. ASSUME pc[j] \in TryPhases, UNCHANGED <<framework, installed, active, need>>
      PROVE  /\ error[j] = "" /\ Served(j)' /\ MapsMatch' /\ Running'
             /\ Closure(j)' = Closure(j) /\ Wanted(j)' = Wanted(j)
  <2>1. error[j] = "" /\ Served(j) /\ MapsMatch /\ Running
    BY <1>b, InTry
  <2> QED
    BY <1>b, <2>1 DEF Served, MapsMatch, Running, Closure, Wanted
<1>1. CASE Get(j)
  <2>1. pc[j] = "get" /\ UNCHANGED <<framework, installed, active, need>>
    BY <1>1 DEF Get, AtTry, osgiVars
  <2>2. CASE Fail(j, "notfound")
    BY <2>1, <2>2, FailsForWant DEF TryPhases
  <2>3. CASE ~ Fail(j, "notfound")
    <3>1. /\ UNCHANGED error /\ pc' = [pc EXCEPT ![j] = pc'[j]]
          /\ pc'[j] = "resolve" \/ (pc'[j] = "activate" /\ Wanted(j) \in active)
      BY <1>1, <1>a, <2>3 DEF Get, Retrieve, GoTo
    <3> QED
      BY <1>b, <2>1, <3>1, StaysInTry DEF TryPhases
  <2> QED
    BY <2>2, <2>3
<1>2. CASE Resolve(j)
  <2> DEFINE all == Append(Deps[Wanted(j)], Wanted(j))
  <2>1. pc[j] = "resolve" /\ UNCHANGED <<framework, installed, active, need>>
    BY <1>2 DEF Resolve, AtTry, osgiVars, mapVars
  <2>2. CASE Fail(j, "notfound")
    BY <2>1, <2>2, FailsForWant DEF TryPhases
  <2>3. CASE ~ Fail(j, "notfound")
    <3>1. UNCHANGED error /\ pc'[j] = "install" /\ todo'[j] = all
      BY <1>2, <1>a, <2>3 DEF Resolve, GoTo, TypeInv, TypeOK
    <3>2. \A b \in Closure(j) : Listed(b, all)
      BY <2>1, ResolvedList DEF TypeInv, TryPhases
    <3> QED
      BY <1>b, <2>1, <3>1, <3>2, StaysInTry DEF TryPhases
  <2> QED
    BY <2>2, <2>3
<1>3. CASE Install(j)
  <2> DEFINE b == Head(todo[j])
  <2>1. pc[j] = "install" /\ UNCHANGED <<installed, active, need>>
    BY <1>3 DEF Install, AtTry
  <2>2. error[j] = "" /\ Served(j) /\ MapsMatch /\ Running
    BY <2>1, InTry DEF TryPhases
  <2>3. todo[j] # <<>> /\ b \in Bundles
    BY <2>1, ShorterList DEF TypeInv, TypeOK, Pending
  <2>4. CASE b \in installed /\ NextBundle(j) /\ UNCHANGED <<cache, osgiVars, error>>
    <3>1. framework[b] # "uninstalled" /\ installed' = installed \cup {b}
      BY <2>1, <2>2, <2>4 DEF MapsMatch
    <3> QED
      BY <2>1, <2>4, <3>1, NextInstalled DEF osgiVars
  <2>5. CASE Fail(j, "notfound") /\ UNCHANGED osgiVars
    BY <2>1, <2>5, FailsForWant DEF TryPhases, osgiVars
  <2>6. CASE GoTo(j, "install") /\ UNCHANGED <<error, osgiVars, todo>>
    <3>1. pc'[j] = "install" /\ \A c \in Closure(j) : c \in installed \/ Listed(c, todo[j])
      BY <1>a, <2>1, <2>6 DEF GoTo, JobInv, TryInv, TryPhases
    <3> QED
      BY <1>b, <2>1, <2>6, <3>1, StaysInTry DEF TryPhases, osgiVars
  <2>7. CASE /\ GoTo(j, "record") /\ UNCHANGED <<cache, todo, error>> /\ b \notin installed
             /\ IF framework[b] = "uninstalled"
                THEN framework' = [framework EXCEPT ![b] = "installed"]
                ELSE UNCHANGED framework
    <3>1. pc'[j] = "record" /\ \A c \in Closure(j) : c \in installed \/ Listed(c, todo[j])
      BY <1>a, <2>1, <2>7 DEF GoTo, JobInv, TryInv, TryPhases
    <3>2. /\ framework'[b] # "uninstalled"
          /\ \A c \in Bundles : framework'[c] = framework[c]
                                \/ (framework[c] = "uninstalled" /\ framework'[c] = "installed")
      BY <1>a, <2>3, <2>7
    <3>3. MapsMatch' /\ Running'
      BY <2>1, <2>2, <3>2 DEF MapsMatch, Running, TypeInv, TypeOK
    <3>4. Served(j)'
      BY <2>1, <2>2, <3>2, ServedBundles DEF Served
    <3>5. Closure(j)' = Closure(j)
      BY <2>1 DEF Closure, Wanted
    <3> QED
      BY <2>1, <2>2, <2>7, <3>1, <3>2, <3>3, <3>4, <3>5, StaysInTry DEF TryPhases
  <2>8. CASE Retrieve(j, b, "install") /\ UNCHANGED <<osgiVars, todo>>
    BY <2>5, <2>6, <2>8 DEF Retrieve
  <2>9. CASE /\ b \notin installed /\ GoTo(j, "record") /\ UNCHANGED <<cache, todo, error>>
             /\ IF framework[b] = "uninstalled"
                THEN /\ framework' = [framework EXCEPT ![b] = "installed"]
                     /\ content' = [content EXCEPT ![b] = cache[b]]
                ELSE UNCHANGED osgiVars
    BY <2>7, <2>9 DEF osgiVars
  <2> QED
    BY <1>3, <2>4, <2>8, <2>9 DEF Install
<1>4. CASE RecordInstalled(j)
  <2>1. /\ pc[j] = "record" /\ NextBundle(j) /\ installed' = installed \cup {Head(todo[j])}
        /\ UNCHANGED <<framework, active, need, error>>
    BY <1>4 DEF RecordInstalled, AtTry, osgiVars
  <2>2. framework[Head(todo[j])] # "uninstalled"
    BY <2>1 DEF JobInv, TryInv, TryPhases
  <2> QED
    BY <2>1, <2>2, NextInstalled
<1>5. CASE StartBundle(j)
  <2> DEFINE b == Wanted(j)
  <2>1. pc[j] = "start" /\ UNCHANGED <<installed, active, need>>
    BY <1>5 DEF StartBundle, AtTry, mapVars
  <2>2. error[j] = "" /\ Served(j) /\ MapsMatch /\ Running /\ Closure(j) \subseteq installed
    BY <2>1, InTry DEF JobInv, TryInv, TryPhases
  <2>3. b \in Bundles /\ Deps[b] \in Seq(Bundles)
    BY <2>1, WantedBundle DEF TypeInv, TryPhases
  <2>4. /\ b \in installed /\ framework[b] # "uninstalled"
        /\ \A i \in 1 .. Len(Deps[b]) : framework[Deps[b][i]] # "uninstalled"
    <3>1. DOMAIN Deps[b] = 1 .. Len(Deps[b])
      BY <2>3, LenProperties
    <3> QED
      BY <2>2, <3>1 DEF Closure, MapsMatch
  <2>5. CASE b \in active
    <3>1. pc'[j] = "activate" /\ UNCHANGED <<framework, error>>
      BY <1>5, <1>a, <2>5 DEF StartBundle, GoTo
    <3> QED
      BY <1>b, <2>1, <2>5, <3>1, StaysInTry DEF TryPhases
  <2>6. CASE b \notin active
    <3>1. pc'[j] = "started" /\ framework' = [framework EXCEPT ![b] = "active"] /\ UNCHANGED error
      BY <1>5, <1>a, <2>4, <2>6 DEF StartBundle, GoTo
    <3>2. \A c \in Bundles : framework'[c] = framework[c] \/ (c = b /\ framework'[c] = "active")
      BY <1>a, <3>1
    <3>3. MapsMatch' /\ Running'
      BY <2>1, <2>2, <2>4, <3>2 DEF MapsMatch, Running, TypeInv, TypeOK
    <3>4. Served(j)'
      BY <2>1, <2>2, <3>2, ServedBundles DEF Served
    <3>5. Wanted(j)' = b /\ framework'[b] = "active"
      BY <1>a, <2>1, <2>3, <3>1 DEF Wanted
    <3> QED
      BY <2>1, <2>2, <2>4, <3>1, <3>3, <3>4, <3>5, StaysInTry DEF TryPhases
  <2> QED
    BY <2>5, <2>6
<1>6. CASE RecordActive(j)
  <2>1. /\ pc[j] = "started" /\ pc'[j] = "activate" /\ active' = active \cup {Wanted(j)}
        /\ UNCHANGED <<framework, installed, need, error>>
    BY <1>6, <1>a DEF RecordActive, AtTry, GoTo, osgiVars
  <2>2. /\ error[j] = "" /\ Served(j) /\ MapsMatch /\ Running
        /\ Wanted(j) \in installed /\ framework[Wanted(j)] = "active"
    BY <2>1, InTry DEF JobInv, TryInv, TryPhases
  <2>3. Served(j)' /\ MapsMatch' /\ Running'
    BY <2>1, <2>2 DEF Served, MapsMatch, Running
  <2> QED
    BY <2>1, <2>2, <2>3, StaysInTry DEF TryPhases, Wanted
<1>7. CASE Activate(j)
  <2> DEFINE b == Wanted(j)
  <2>1. pc[j] = "activate" /\ UNCHANGED <<framework, installed, active>>
    BY <1>7 DEF Activate, AtTry, mapVars, osgiVars
  <2>2. /\ error[j] = "" /\ Served(j) /\ MapsMatch /\ Running
        /\ b \in active /\ framework[b] = "active"
    BY <2>1, InTry DEF JobInv, TryInv, TryPhases, CleanupInv, Running
  <2>3. MapsMatch' /\ Running'
    BY <2>1, <2>2 DEF MapsMatch, Running
  <2>4. CASE b \in Providers
    <3>1. /\ pc'[j] = (IF need[j] = Len(Needs[j]) THEN "run" ELSE "get")
          /\ need'[j] = need[j] + 1 /\ UNCHANGED error
      BY <1>7, <1>a, <2>2, <2>4 DEF Activate, GoTo
    <3>2. need[j] \in Nat /\ need[j] # 0
      BY <2>1, WantedBundle DEF TypeInv, TryPhases
    <3>3. \A i \in 1 .. need'[j] - 1 : i \in 1 .. need[j] - 1 \/ i = need[j]
      BY <3>1, <3>2
    <3>4. Served(j)'
      BY <2>1, <2>2, <3>3 DEF Served, Wanted
    <3>5. need'[j] # 1
      BY <3>1, <3>2
    <3> QED
      BY <2>2, <2>3, <3>1, <3>4, <3>5, StaysInTry DEF TryPhases
  <2>5. CASE b \notin Providers
    <3>1. pc'[j] = "finally" /\ error'[j] = "noservice" /\ UNCHANGED need
      BY <1>7, <1>a, <2>2, <2>5 DEF Activate, Fail, GoTo
    <3>2. ErrorInv(j)'
      BY <2>5, <3>1 DEF ErrorInv, Wanted
    <3> QED
      BY <2>3, <3>1, <3>2, EntersFinally
  <2> QED
    BY <2>4, <2>5
<1>8. CASE EndRun(j)
  <2>1. /\ pc[j] = "run" /\ pc'[j] = "finally"
        /\ UNCHANGED <<framework, installed, active, need, error>>
    BY <1>8, <1>a DEF EndRun, AtTry, GoTo, mapVars, osgiVars
  <2>2. error[j] = "" /\ MapsMatch' /\ Running'
    BY <1>b, <2>1 DEF TryPhases
  <2>3. ErrorInv(j)'
    BY <2>1, <2>2 DEF ErrorInv
  <2> QED
    BY <2>1, <2>2, <2>3, EntersFinally
<1> QED
  BY <1>1, <1>2, <1>3, <1>4, <1>5, <1>6, <1>7, <1>8

\* A thread's step in the finally block, and a kill, keep what it relies on.
LEMMA FinallyKeeps ==
    ASSUME TypeInv, NEW j \in Jobs, JobInv(j),
           \/ ClearJob(j) \/ Stop(j) \/ ClearActive(j) \/ Uninstall(j)
           \/ ClearInstalled(j) \/ ReportEnd(j) \/ RaiseKill(j)
    PROVE  JobInv(j)'
<1>a. /\ pc \in [Jobs -> Phases] /\ active \subseteq Bundles /\ installed \subseteq Bundles
      /\ iter \in [Jobs -> [map : SUBSET Bundles, left : SUBSET Bundles]]
      /\ framework \in [Bundles -> {"uninstalled", "installed", "active"}]
  BY DEF TypeInv, TypeOK
<1>b. ASSUME UNCHANGED <<error, need>>, pc'[j] \notin TryPhases, CleanupInv(j)'
      PROVE  JobInv(j)'
  BY <1>b DEF JobInv, TryInv, ErrorInv, Wanted
<1>1. CASE ClearJob(j)
  <2>1. /\ pc[j] = "finally" /\ pc'[j] = "stop" /\ iter'[j] = [map |-> active, left |-> active]
        /\ UNCHANGED <<framework, installed, active, error, need>>
    BY <1>1, <1>a DEF ClearJob, AtFinally, GoTo, osgiVars
  <2>2. MapsMatch
    BY <2>1 DEF JobInv, CleanupInv
  <2>3. CleanupInv(j)'
    BY <2>1, <2>2 DEF CleanupInv, MapsMatch, TryPhases
  <2> QED
    BY <1>b, <2>1, <2>3 DEF TryPhases
<1>2. CASE Stop(j)
  <2>1. /\ pc[j] = "stop" /\ UNCHANGED <<installed, active, error, need>>
    BY <1>2 DEF Stop, Visit, AtFinally
  <2>2. MapsMatch /\ iter[j].map = active /\ \A b \in iter[j].left : framework[b] # "uninstalled"
    BY <2>1 DEF JobInv, CleanupInv
  <2>3. PICK b \in Bundles :
            /\ b \in iter[j].left /\ framework[b] # "uninstalled" /\ UNCHANGED pc
            /\ framework' = [framework EXCEPT ![b] = "installed"]
            /\ iter' = [iter EXCEPT ![j].left = @ \ {b}]
    BY <1>2, <2>2 DEF Stop, Visit
  <2>4. \A c \in Bundles : framework'[c] = framework[c] \/ (c = b /\ framework'[c] = "installed")
    BY <1>a, <2>3
  <2>5. iter'[j].map = iter[j].map /\ iter'[j].left \subseteq iter[j].left /\ iter[j].left \subseteq Bundles
    BY <1>a, <2>3
  <2>6. MapsMatch'
    BY <1>a, <2>1, <2>2, <2>3, <2>4 DEF MapsMatch
  <2>7. CleanupInv(j)'
    BY <2>1, <2>2, <2>3, <2>4, <2>5, <2>6 DEF CleanupInv, TryPhases
  <2> QED
    BY <1>b, <2>1, <2>3, <2>7 DEF TryPhases
<1>3. CASE ClearActive(j)
  <2>1. /\ pc[j] = "stop" /\ pc'[j] = "uninstall" /\ active' = {}
        /\ iter'[j] = [map |-> installed, left |-> installed]
        /\ UNCHANGED <<framework, installed, error, need>>
    BY <1>3, <1>a DEF ClearActive, AtFinally, GoTo, osgiVars
  <2>2. MapsMatch
    BY <2>1 DEF JobInv, CleanupInv
  <2>3. CleanupInv(j)'
    BY <2>1, <2>2 DEF CleanupInv, MapsMatch, TryPhases
  <2> QED
    BY <1>b, <2>1, <2>3 DEF TryPhases
<1>4. CASE Uninstall(j)
  <2>1. /\ pc[j] = "uninstall" /\ UNCHANGED <<installed, active, error, need>>
    BY <1>4 DEF Uninstall, Visit, AtFinally
  <2>2. /\ active = {} /\ iter[j].map = installed
        /\ \A b \in iter[j].left : framework[b] # "uninstalled"
        /\ \A b \in Bundles : framework[b] = "active" => b \in iter[j].left
    BY <2>1 DEF JobInv, CleanupInv
  <2>3. PICK b \in Bundles :
            /\ b \in iter[j].left /\ UNCHANGED pc
            /\ framework' = [framework EXCEPT ![b] = "uninstalled"]
            /\ iter' = [iter EXCEPT ![j].left = @ \ {b}]
    BY <1>4, <2>2 DEF Uninstall, Visit
  <2>4. framework'[b] = "uninstalled" /\ \A c \in Bundles \ {b} : framework'[c] = framework[c]
    BY <1>a, <2>3
  <2>5. iter'[j].map = iter[j].map /\ iter'[j].left = iter[j].left \ {b} /\ iter[j].left \subseteq Bundles
    BY <1>a, <2>3
  <2>6. CleanupInv(j)'
    BY <2>1, <2>2, <2>3, <2>4, <2>5 DEF CleanupInv, TryPhases
  <2> QED
    BY <1>b, <2>1, <2>3, <2>6 DEF TryPhases
<1>5. CASE ClearInstalled(j)
  <2>1. /\ pc[j] = "uninstall" /\ pc'[j] = "finish" /\ installed' = {} /\ iter[j].left = {}
        /\ UNCHANGED <<framework, active, error, need>>
    BY <1>5, <1>a DEF ClearInstalled, AtFinally, GoTo, osgiVars
  <2>2. Clean'
    BY <2>1 DEF JobInv, CleanupInv, Clean
  <2>3. CleanupInv(j)'
    BY <2>1, <2>2 DEF CleanupInv, TryPhases
  <2> QED
    BY <1>b, <2>1, <2>3 DEF TryPhases
<1>6. CASE ReportEnd(j)
  <2>1. pc'[j] = "ended" /\ UNCHANGED <<error, need>>
    BY <1>6, <1>a DEF ReportEnd, AtFinally, GoTo
  <2> QED
    BY <1>b, <2>1 DEF CleanupInv, TryPhases
<1>7. CASE RaiseKill(j)
  <2>1. UNCHANGED <<framework, installed, active, error, need>>
    BY <1>7 DEF RaiseKill, mapVars, osgiVars
  <2>2. CASE pc[j] \in TryPhases
    <3>1. pc'[j] = "finally"
      BY <1>7, <1>a, <2>2 DEF RaiseKill, GoTo
    <3>2. MapsMatch' /\ Running' /\ error[j] = ""
      BY <2>1, <2>2, InTry DEF MapsMatch, Running
    <3>3. ErrorInv(j)'
      BY <2>1, <3>2 DEF ErrorInv
    <3> QED
      BY <3>1, <3>2, <3>3, EntersFinally
  <2>3. CASE pc[j] \notin TryPhases
    <3>1. pc'[j] = "killed"
      BY <1>7, <1>a, <2>3 DEF RaiseKill, GoTo
    <3> QED
      BY <1>b, <2>1, <3>1 DEF CleanupInv, TryPhases
  <2> QED
    BY <2>2, <2>3
<1> QED
  BY <1>1, <1>2, <1>3, <1>4, <1>5, <1>6, <1>7

\* A job is reported by one step only.
LEMMA OnlyReportEnd ==
    ASSUME NEW j \in Jobs, JobThread(j), reported' # reported
    PROVE  ReportEnd(j)
BY DEF JobThread, Get, Resolve, Install, RecordInstalled, StartBundle, RecordActive, Activate,
         EndRun,
       AtTry, ClearJob, Stop, ClearActive, Uninstall, ClearInstalled, Visit, RaiseKill, endVars

-----------------------------------------------------------------------------
(* Orderly runs.                                                           *)

\* A job that has not started, or whose end is known, relies on nothing.
LEMMA Idle ==
    ASSUME NEW j \in Jobs, pc'[j] \in {"none", "ended", "lost"}, ErrorInv(j)'
    PROVE  JobInv(j)'
BY DEF JobInv, TryInv, CleanupInv, TryPhases

\* While one job's thread is on its way no other's is.
LEMMA Alone ==
    ASSUME Order, orderly, NEW j \in Jobs, pc[j] \notin {"none", "ended", "lost"},
           NEW i \in Jobs, i # j
    PROVE  pc[i] \in {"none", "ended", "lost"}
<1>1. i \in Nat /\ j \in Nat
  BY ServiceDirectoryAssumption DEF Jobs
<1>2. j \notin reported
  BY DEF Order
<1>3. CASE i < j
  BY <1>3 DEF Order
<1>4. CASE j < i
  BY <1>2, <1>4 DEF Order
<1> QED
  BY <1>1, <1>3, <1>4

LEMMA InitOrderly == Init => OrderlyInv
<1> SUFFICES ASSUME Init PROVE OrderlyInv
  OBVIOUS
<1>1. Clean
  BY DEF Init, Clean
<1>2. \A j \in Jobs : pc[j] = "none" /\ error[j] = ""
  BY DEF Init
<1>3. \A j \in Jobs : JobInv(j)
  BY <1>2 DEF JobInv, TryInv, CleanupInv, ErrorInv, TryPhases
<1> QED
  BY <1>1, <1>3 DEF OrderlyInv

\* In an orderly run every job keeps what it relies on, and leaves nothing behind.
LEMMA StepOrderly == TypeInv /\ Order /\ OrderlyInv /\ [Next]_vars => OrderlyInv'
<1> SUFFICES ASSUME TypeInv, Order, OrderlyInv, [Next]_vars, orderly'
             PROVE  (AllReported' => Clean') /\ \A j \in Jobs : JobInv(j)'
  BY DEF OrderlyInv
<1>a. pc \in [Jobs -> Phases]
  BY DEF TypeInv, TypeOK
<1>1. ASSUME NEW j \in Jobs, StartJob(j)
      PROVE  (AllReported' => Clean') /\ \A i \in Jobs : JobInv(i)'
  <2>1. /\ pc[j] = "none" /\ pc' = [pc EXCEPT ![j] = "get"] /\ orderly
        /\ \A i \in 1 .. j - 1 : i \in reported
        /\ UNCHANGED <<framework, installed, active, error, need, reported>>
    BY <1>1 DEF StartJob, GoTo, mapVars, osgiVars
  <2>2. pc'[j] = "get" /\ \A i \in Jobs \ {j} : pc'[i] = pc[i]
    BY <1>a, <2>1
  <2>3. ASSUME NEW i \in Jobs PROVE pc[i] = "none" \/ i \in reported
    <3>1. i \in Nat /\ j \in Nat /\ i \in 1 .. JobCount
      BY ServiceDirectoryAssumption DEF Jobs
    <3>2. CASE i < j
      BY <2>1, <3>1, <3>2
    <3>3. CASE j < i
      BY <2>1, <3>3 DEF Order
    <3> QED
      BY <2>1, <3>1, <3>2, <3>3
  <2>4. Clean
    BY <2>1, <2>3 DEF OrderlyInv, AllReported
  <2>5. JobInv(j)'
    <3>1. error'[j] = "" /\ need'[j] = 1
      BY <2>1 DEF Order, TypeInv, Waiting
    <3>2. Clean' /\ MapsMatch' /\ Running'
      BY <2>1, <2>4 DEF Clean, MapsMatch, Running
    <3>3. Served(j)'
      <4>1. \A i \in 1 .. 1 - 1 : FALSE
        OBVIOUS
      <4> QED
        BY <3>1, <4>1 DEF Served
    <3> QED
      BY <2>2, <3>1, <3>2, <3>3 DEF JobInv, TryInv, CleanupInv, ErrorInv, TryPhases
  <2>6. ASSUME NEW i \in Jobs, i # j PROVE JobInv(i)'
    <3>1. pc'[i] \in {"none", "ended", "lost"}
      BY <2>2, <2>3, <2>6 DEF Order
    <3>2. ErrorInv(i)'
      BY <2>1 DEF OrderlyInv, JobInv, ErrorInv, Wanted
    <3> QED
      BY <3>1, <3>2, Idle
  <2>7. Clean'
    BY <2>1, <2>4 DEF Clean
  <2> QED
    BY <2>5, <2>6, <2>7
<1>2. ASSUME NEW j \in Jobs, JobThread(j)
      PROVE  (AllReported' => Clean') /\ \A i \in Jobs : JobInv(i)'
  <2>1. ThreadOnly(j)
    BY <1>2, ThreadSteps
  <2>2. orderly /\ pc[j] \notin {"none", "ended", "lost"}
    BY <2>1 DEF ThreadOnly, TryPhases, FinallyPhases
  <2>3. \A i \in Jobs : JobInv(i)
    BY <2>2 DEF OrderlyInv
  <2>4. JobInv(j)'
    BY <1>2, <2>3, TryKeeps, FinallyKeeps DEF JobThread
  <2>5. ASSUME NEW i \in Jobs, i # j PROVE JobInv(i)'
    <3>1. pc'[i] = pc[i] /\ error'[i] = error[i] /\ need'[i] = need[i]
      BY <2>1, <2>5 DEF ThreadOnly
    <3>2. pc'[i] \in {"none", "ended", "lost"}
      BY <2>2, <2>5, <3>1, Alone
    <3>3. ErrorInv(i)'
      BY <2>3, <3>1 DEF JobInv, ErrorInv, Wanted
    <3> QED
      BY <3>2, <3>3, Idle
  <2>6. ASSUME AllReported' PROVE Clean'
    <3>1. j \in reported' /\ j \notin reported
      BY <2>1, <2>2, <2>6 DEF ThreadOnly, AllReported, Order
    <3>2. ReportEnd(j)
      BY <1>2, <3>1, OnlyReportEnd
    <3>3. /\ pc[j] = "finish" /\ UNCHANGED <<framework, installed, active>>
      BY <3>2 DEF ReportEnd, AtFinally, osgiVars
    <3> QED
      BY <2>3, <3>3 DEF JobInv, CleanupInv, Clean
  <2> QED
    BY <2>4, <2>5, <2>6
<1>3. ASSUME NEW kept \in BOOLEAN, Restart(kept)
      PROVE  (AllReported' => Clean') /\ \A i \in Jobs : JobInv(i)'
  <2>1. Clean'
    <3>1. inherited' = {} /\ active' = {} /\ installed' = {}
      BY <1>3 DEF Restart
    <3>2. \A b \in Bundles : framework'[b] = "uninstalled"
      BY <1>3, <3>1 DEF Restart
    <3> QED
      BY <3>1, <3>2 DEF Clean
  <2>2. \A i \in Jobs : pc'[i] \in {"none", "lost"} /\ error'[i] = ""
    BY <1>3 DEF Restart
  <2> QED
    BY <2>1, <2>2, Idle DEF ErrorInv
<1>4. CASE \/ \E b \in Bundles : BeginUpload(b)
           \/ FinishUpload
           \/ \E j \in Jobs : KillJob(j)
           \/ UNCHANGED vars
  <2>1. UNCHANGED <<framework, installed, active, pc, error, need, todo, iter, reported, orderly>>
    BY <1>4 DEF BeginUpload, FinishUpload, KillJob, vars, mapVars, osgiVars, threadVars, endVars,
             historyVars
  <2>2. (AllReported => Clean) /\ \A i \in Jobs : JobInv(i)
    BY <2>1 DEF OrderlyInv
  <2>3. AllReported' => Clean'
    BY <2>1, <2>2 DEF AllReported, Clean
  <2>4. ASSUME NEW i \in Jobs PROVE JobInv(i)'
    <3>1. /\ Served(i) => Served(i)'
          /\ MapsMatch => MapsMatch'
          /\ Running => Running'
          /\ Clean => Clean'
          /\ Closure(i)' = Closure(i) /\ Wanted(i)' = Wanted(i)
      BY <2>1 DEF Served, MapsMatch, Running, Clean, Closure, Wanted
    <3>2. TryInv(i)'
      BY <2>1, <2>2, <3>1 DEF JobInv, TryInv
    <3>3. CleanupInv(i)'
      BY <2>1, <2>2, <3>1 DEF JobInv, CleanupInv
    <3>4. ErrorInv(i)'
      BY <2>1, <2>2, <3>1 DEF JobInv, ErrorInv
    <3> QED
      BY <3>2, <3>3, <3>4 DEF JobInv
  <2> QED
    BY <2>3, <2>4
<1> QED
  BY <1>1, <1>2, <1>3, <1>4 DEF Next

-----------------------------------------------------------------------------
(* The theorems.                                                           *)

LEMMA TypeInvAlways == Spec => []TypeInv
<1>1. Init => TypeInv
  BY InitTyped
<1>2. TypeInv /\ [Next]_vars => TypeInv'
  BY StepTyped
<1> QED
  BY <1>1, <1>2, PTL DEF Spec

\* Every variable of the service directory keeps its type, for any bundles, jobs,
\* uploads, kills and restarts.
THEOREM TypesAlways == Spec => []TypeOK
<1>1. TypeInv => TypeOK
  BY DEF TypeInv
<1> QED
  BY <1>1, TypeInvAlways, PTL

\* Nothing that is older than the server's file was when the worker started is in
\* the framework, but for what a process that crashed has left, orderly or not.
THEOREM OnlyInheritedIsStale == Spec => []FreshSinceStart
<1>1. Init => Fresh
  BY InitFresh
<1>2. TypeInv /\ Fresh /\ [Next]_vars => Fresh'
  BY StepFresh
<1>3. Fresh => FreshSinceStart
  BY DEF Fresh, FreshSinceStart
<1> QED
  BY <1>1, <1>2, <1>3, TypeInvAlways, PTL DEF Spec

\* The invariant of everything above.
LEMMA OrderlyAlways == Spec => [](TypeInv /\ Order /\ OrderlyInv)
<1>1. Init => Order /\ OrderlyInv
  BY InitOrder, InitOrderly
<1>2. TypeInv /\ Order /\ OrderlyInv /\ [Next]_vars => Order' /\ OrderlyInv'
  BY StepOrder, StepOrderly
<1> QED
  BY <1>1, <1>2, TypeInvAlways, PTL DEF Spec

\* In an orderly run a job begins with empty maps and no active bundle, however
\* the job before ended.
THEOREM BeginsClean == Spec => []CleanStart
<1>1. OrderlyInv => CleanStart
  BY DEF OrderlyInv, JobInv, TryInv, Clean, CleanStart, TryPhases
<1> QED
  BY <1>1, OrderlyAlways, PTL

\* In an orderly run the services a job was given stay active while it runs.
THEOREM ServicesAreKept == Spec => []JobKeepsServices
<1>1. OrderlyInv => JobKeepsServices
  BY DEF OrderlyInv, JobInv, TryInv, Served, JobKeepsServices
<1> QED
  BY <1>1, OrderlyAlways, PTL

\* In an orderly run no job fails for what the job before left behind.
THEOREM NoBlame == Spec => []BlamelessFailure
<1>1. OrderlyInv => BlamelessFailure
  BY DEF OrderlyInv, JobInv, ErrorInv, BlamelessFailure
<1> QED
  BY <1>1, OrderlyAlways, PTL

\* In an orderly run nothing is thrown while a job's bundles are stopped and
\* uninstalled.
THEOREM EndsAreReported == Spec => []EndIsReported
<1>1. OrderlyInv => EndIsReported
  BY DEF OrderlyInv, JobInv, CleanupInv, EndIsReported
<1> QED
  BY <1>1, OrderlyAlways, PTL

=============================================================================
