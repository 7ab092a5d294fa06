------------------------------ MODULE JobState ------------------------------
(***************************************************************************)
(* The life cycle of a job, shared by the control server (CSJob) and the   *)
(* worker (WorkerJob): the states of Job.State, the custom states an       *)
(* algorithm may enter while it runs, which of them are final, and which   *)
(* transitions Job.setState accepts.  Custom states differ only by their   *)
(* name, which nothing looks at, so one representative stands for them.    *)
(***************************************************************************)

\* The states a job ends in.
FinalStates == {"SUCCESS", "ABORTED", "CANCELLED", "FAILED"}

\* The states of the enumeration Job.State.
PredefinedStates ==
    FinalStates \cup {"NEW", "SCHEDULED", "INITIALIZING", "PARSING", "RUNNING",
                      "CALCULATING_METRICS", "CANCELLING"}

Custom == "CUSTOM"

JobStates == PredefinedStates \cup {Custom}

IsFinal(s) == s \in FinalStates

\* What a predefined state accepts beside itself and the states that every
\* state but a final one accepts.
Successors(s) ==
    CASE s = "NEW"                 -> {"SCHEDULED", "CANCELLED"}
      [] s = "SCHEDULED"           -> {"INITIALIZING", "NEW"}
      [] s = "INITIALIZING"        -> {"PARSING"}
      [] s = "PARSING"             -> {"RUNNING"}
      [] s \in {"RUNNING", Custom} -> FinalStates \cup {"RUNNING", "CALCULATING_METRICS", Custom}
      [] s = "CALCULATING_METRICS" -> FinalStates
      [] s = "CANCELLING"          -> {"CANCELLED"}
      [] OTHER                     -> {}

\* Mutant of IsStateTransitionAllowed: final states are not tested for.
IsStateTransitionAllowedFromFinal(s, t) ==
    \/ s = t
    \/ t \in {"ABORTED", "FAILED", "CANCELLING"}
    \/ t \in Successors(s)

\* State.isStateTransitionAllowed; CustomState answers as RUNNING does.
IsStateTransitionAllowed(s, t) ==
    /\ ~ IsFinal(s)
    /\ \/ s = t
       \/ t \in {"ABORTED", "FAILED", "CANCELLING"}
       \/ t \in Successors(s)

\* Job.setState returns without an exception: entering the state the job is in
\* is a no-op, even when that state is final.
SetStateAccepts(s, t) == s = t \/ IsStateTransitionAllowed(s, t)

=============================================================================
