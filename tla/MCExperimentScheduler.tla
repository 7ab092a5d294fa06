------------------------ MODULE MCExperimentScheduler ------------------------
(* Experiments a, b and c, in the order of their urgency, two workers, and   *)
(* the ways in which workers may be assigned to the experiments.             *)
EXTENDS ExperimentScheduler

CONSTANTS a, b, c, w1, w2

MCPriority == [e \in Experiments |-> CASE e = a -> 0 [] e = b -> 1 [] OTHER -> 2]

\* No worker is assigned to an experiment.
Unassigned == {[e \in Experiments |-> {}]}

\* No worker is assigned to two: none to any, or a has one of its own.
Exclusive == Unassigned \cup {[e \in Experiments |-> IF e = a THEN {w} ELSE {}] : w \in Workers}

\* The workers may be exchanged.
MCSymmetry == Permutations(Workers)

\* The same worker is assigned to all.
Shared == {[e \in Experiments |-> {w1}]}
=============================================================================
