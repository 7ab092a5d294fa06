------------------------------- MODULE JobLife -------------------------------
(***************************************************************************)
(* What the control server promises of the jobs of one experiment, with no *)
(* message, thread or connection in sight: a job waits, is handed to one   *)
(* worker, in the order of the list, and ends once, with one result, the   *)
(* worker and the result being final.  A waiting job can only end by being *)
(* cancelled.  Exclusive adds that a worker is handed a job only when the  *)
(* one it had before has ended.                                            *)
(***************************************************************************)
EXTENDS Naturals, JobState

CONSTANTS
    Workers,     \* the workers' names
    NoWorker,    \* the owner of a job that has none
    JobCount,    \* the number of jobs of the experiment
    Exclusive    \* TRUE if a worker never owns two jobs that have not ended

Jobs == 1 .. JobCount

VARIABLES
    life,        \* "waiting", "handed" or "ended"
    owner,       \* the worker a job was handed to
    result       \* the final state of a job that has ended, "NEW" before

vars == <<life, owner, result>>

Init ==
    /\ life = [j \in Jobs |-> "waiting"]
    /\ owner = [j \in Jobs |-> NoWorker]
    /\ result = [j \in Jobs |-> "NEW"]

\* Worker w can be handed a job.
Idle(w) == \A j \in Jobs : life[j] = "handed" => owner[j] # w

\* The first job of the list that was not handed out yet is handed to w.
Give(j, w) ==
    /\ life[j] = "waiting"
    /\ \A i \in 1 .. j - 1 : owner[i] # NoWorker
    /\ Exclusive => Idle(w)
    /\ life' = [life EXCEPT ![j] = "handed"]
    /\ owner' = [owner EXCEPT ![j] = w]
    /\ UNCHANGED result

\* Job j ends with result s.
End(j, s) ==
    /\ life[j] # "ended"
    /\ life[j] = "waiting" => s = "CANCELLED"
    /\ life' = [life EXCEPT ![j] = "ended"]
    /\ result' = [result EXCEPT ![j] = s]
    /\ UNCHANGED owner

GiveSome == \E j \in Jobs, w \in Workers : Give(j, w)

Next ==
    \/ GiveSome
    \/ \E j \in Jobs, s \in FinalStates : End(j, s)

Spec == Init /\ [][Next]_vars

\* While a job waits and a worker is idle some job is handed out in the end,
\* and a job that was handed out ends.
EndHanded(j) == life[j] = "handed" /\ \E s \in FinalStates : End(j, s)

Fairness ==
    /\ WF_vars(GiveSome)
    /\ \A j \in Jobs : WF_vars(EndHanded(j))

FairSpec == Spec /\ Fairness

=============================================================================
