------------------------------- MODULE SMetric -------------------------------
(***************************************************************************)
(* The S-metric of the Pareto front that a job has found, which JobThread  *)
(* measures when the algorithm has returned: ParetoPoint.calculateSMetric. *)
(* getMaximizationSMetricByHSO calls itself with one objective less, so    *)
(* that a call is known by the number of objectives it takes into account; *)
(* each round of its loop, each call and return, and each round of the     *)
(* loops of getNondominatedSolutions is a step.  Points are known by their *)
(* place in the parameter, and lists of points are sets where their order  *)
(* decides about nothing but the order in which getNondominatedSolutions   *)
(* takes them: here it takes them in any.  Objective values are integers   *)
(* (doubles there), and no reference point is given.                       *)
(***************************************************************************)
EXTENDS Integers, SequencesExt, FiniteSetsExt

CONSTANT Fronts    \* the fronts: sequences of points of equally many objectives

ASSUME SMetricAssumption ==
    \A f \in Fronts :
        /\ f \in Seq(Seq(Nat \ {0}))
        /\ \A i \in 1 .. Len(f) : Len(f[i]) = Len(f[1]) /\ f[i] # <<>>

VARIABLES
    front,         \* points, the parameter
    minimization,  \* the other one
    values,        \* what getObjectiveValues returns for each point
    pc,
    \* getMaximizationSMetricByHSO
    level,         \* k of the call that runs
    inds,          \* for every k, the points of that call not yet behind its last slice
    volume,        \* for every k, the hypervolume of the slices it has cut so far
    curDistance,   \* for every k, the end of its last slice
    \* getNondominatedSolutions
    nonDominated,  \* the list it builds
    rest,          \* the points of population that are still to come
    individual,    \* the point that is being compared
    place          \* the place in the list of the competitor that comes next

parameters == <<front, minimization>>
calls == <<inds, volume, curDistance>>
filter == <<nonDominated, rest, individual, place>>
vars == <<parameters, values, pc, level, calls, filter>>

Points == 1 .. Len(front)

Dimension == IF front = <<>> THEN 0 ELSE Len(front[1])

Init ==
    /\ front \in Fronts
    /\ minimization \in BOOLEAN
    /\ values = <<>>
    /\ pc = "start"
    /\ level = Dimension
    /\ inds = [k \in 1 .. Dimension |-> {}]
    /\ volume = [k \in 1 .. Dimension |-> 0]
    /\ curDistance = [k \in 1 .. Dimension |-> 0]
    /\ nonDominated = <<>> /\ rest = {} /\ individual = 0 /\ place = 0

-----------------------------------------------------------------------------
(* Helpers on points, given by their index, with values v.                 *)

\* dominates, for maximization and the first k objectives.
Dominates(v, i, j, k) ==
    /\ \A o \in 1 .. k : v[i][o] >= v[j][o]
    /\ \E o \in 1 .. k : v[i][o] > v[j][o]

\* getMinValue, getMaxValue; getMin, getMax are these for every objective.
MinValue(v, is, o) == Min({v[i][o] : i \in is})
MaxValue(v, is, o) == Max({v[i][o] : i \in is})

\* filterByMaxObjectiveThreshold.
Above(v, is, o, threshold) == {i \in is : v[i][o] > threshold}

\* setNormalizedAndInvertedValues: the inverted values, with 1 added.
Inverted(v) ==
    [i \in 1 .. Len(v) |-> [o \in 1 .. Len(v[i]) |-> MaxValue(v, 1 .. Len(v), o) - v[i][o] + 1]]

\* Math.abs.
Distance(a, b) == IF a < b THEN b - a ELSE a - b

-----------------------------------------------------------------------------
\* calculateSMetric, up to the outermost call.
Start ==
    /\ pc = "start"
    /\ values' = IF minimization THEN Inverted(front) ELSE front
    /\ IF front = <<>> THEN pc' = "done" /\ UNCHANGED inds
       ELSE pc' = "slices" /\ inds' = [inds EXCEPT ![Dimension] = Points]
    /\ UNCHANGED <<parameters, level, volume, curDistance, filter>>

-----------------------------------------------------------------------------
(* getNondominatedSolutions(null, inds, k - 1, false).                     *)

\* The list is new and gets the first point, at whose turn the loop goes on.
StartFilter ==
    /\ pc = "slices" /\ inds[level] # {}
    /\ pc' = "population"
    /\ \E i \in inds[level] : nonDominated' = <<i>> /\ rest' = inds[level] \ {i}
    /\ UNCHANGED <<parameters, values, level, calls, individual, place>>

\* The next point is appended.
Consider ==
    /\ pc = "population"
    /\ pc' = "competitors"
    /\ \E i \in rest :
           /\ individual' = i
           /\ nonDominated' = Append(nonDominated, i)
           /\ rest' = rest \ {i}
    /\ place' = 1
    /\ UNCHANGED <<parameters, values, level, calls>>

Competitor == nonDominated[place]

\* Mutant of Displace: after a removal the next competitor is skipped.
DisplaceAndSkip ==
    /\ pc = "competitors" /\ place <= Len(nonDominated)
    /\ Competitor # individual
    /\ Dominates(values, individual, Competitor, level - 1)
    /\ nonDominated' = RemoveFirst(nonDominated, Competitor)
    /\ place' = place + 1
    /\ UNCHANGED <<parameters, values, pc, level, calls, rest, individual>>

\* The new point dominates the competitor, which is removed.
Displace ==
    /\ pc = "competitors" /\ place <= Len(nonDominated)
    /\ Competitor # individual
    /\ Dominates(values, individual, Competitor, level - 1)
    /\ nonDominated' = RemoveFirst(nonDominated, Competitor)
    /\ UNCHANGED <<parameters, values, pc, level, calls, rest, individual, place>>

\* The competitor dominates the new point, which is removed; the loop goes on.
Reject ==
    /\ pc = "competitors" /\ place <= Len(nonDominated)
    /\ Competitor # individual
    /\ ~ Dominates(values, individual, Competitor, level - 1)
    /\ Dominates(values, Competitor, individual, level - 1)
    /\ nonDominated' = RemoveFirst(nonDominated, individual)
    /\ place' = place + 1
    /\ UNCHANGED <<parameters, values, pc, level, calls, rest, individual>>

\* The competitor is the new point, or neither dominates the other.
Pass ==
    /\ pc = "competitors" /\ place <= Len(nonDominated)
    /\ \/ Competitor = individual
       \/ /\ ~ Dominates(values, individual, Competitor, level - 1)
          /\ ~ Dominates(values, Competitor, individual, level - 1)
    /\ place' = place + 1
    /\ UNCHANGED <<parameters, values, pc, level, calls, nonDominated, rest, individual>>

EndOfCompetitors ==
    /\ pc = "competitors" /\ place > Len(nonDominated)
    /\ pc' = "population"
    /\ individual' = 0 /\ place' = 0
    /\ UNCHANGED <<parameters, values, level, calls, nonDominated, rest>>

-----------------------------------------------------------------------------
(* The rest of getMaximizationSMetricByHSO.                                *)

\* Mutant of CutSlice: every slice begins at 0.
CutSliceFromZero(k, lastVol) ==
    LET newDistance == MinValue(values, inds[k], k)
    IN  /\ volume' = [volume EXCEPT ![k] = @ + lastVol * newDistance]
        /\ curDistance' = [curDistance EXCEPT ![k] = newDistance]
        /\ inds' = [inds EXCEPT ![k] = Above(values, @, k, newDistance)]

\* The rest of a round in the call for k objectives, when the points in the slice
\* have the volume lastVol in the objectives before the last.
CutSlice(k, lastVol) ==
    LET newDistance == MinValue(values, inds[k], k)
    IN  /\ volume' = [volume EXCEPT ![k] = @ + lastVol * Distance(newDistance, curDistance[k])]
        /\ curDistance' = [curDistance EXCEPT ![k] = newDistance]
        /\ inds' = [inds EXCEPT ![k] = Above(values, @, k, newDistance)]

\* Mutant of MeasureLine: the greatest value of all points is taken.
MeasureLineOfAll ==
    /\ pc = "population" /\ rest = {} /\ level <= 2
    /\ CutSlice(level, MaxValue(values, Points, 1))
    /\ pc' = "slices"
    /\ nonDominated' = <<>>
    /\ UNCHANGED <<parameters, values, level, rest, individual, place>>

\* With one objective before the last the volume is the greatest value, of all
\* points in the slice.
MeasureLine ==
    /\ pc = "population" /\ rest = {} /\ level <= 2
    /\ CutSlice(level, MaxValue(values, inds[level], 1))
    /\ pc' = "slices"
    /\ nonDominated' = <<>>
    /\ UNCHANGED <<parameters, values, level, rest, individual, place>>

\* With more a call with one objective less measures them.
Call ==
    /\ pc = "population" /\ rest = {} /\ level > 2
    /\ level' = level - 1
    /\ inds' = [inds EXCEPT ![level - 1] = ToSet(nonDominated)]
    /\ volume' = [volume EXCEPT ![level - 1] = 0]
    /\ curDistance' = [curDistance EXCEPT ![level - 1] = 0]
    /\ pc' = "slices"
    /\ nonDominated' = <<>>
    /\ UNCHANGED <<parameters, values, rest, individual, place>>

\* Such a call returns, and the call before cuts its slice.
Return ==
    /\ pc = "slices" /\ inds[level] = {} /\ level < Dimension
    /\ level' = level + 1
    /\ CutSlice(level + 1, volume[level])
    /\ UNCHANGED <<parameters, values, pc, filter>>

\* The outermost call returns.
Finish ==
    /\ pc = "slices" /\ inds[level] = {} /\ level = Dimension
    /\ pc' = "done"
    /\ UNCHANGED <<parameters, values, level, calls, filter>>

Filter ==
    \/ StartFilter
    \/ Consider
    \/ Displace
    \/ Reject
    \/ Pass
    \/ EndOfCompetitors

Next ==
    \/ Start
    \/ Filter
    \/ MeasureLine
    \/ Call
    \/ Return
    \/ Finish

Spec == Init /\ [][Next]_vars

-----------------------------------------------------------------------------
(* Properties.                                                             *)

\* The greatest value there is.
Extent == Max({front[i][o] : i \in Points, o \in 1 .. Dimension})

\* The region that the points in is dominate in the first k objectives, down to
\* 0: its unit cubes, named by their upper corners, none of which is beyond most.
Region(v, is, k, most) ==
    {c \in [1 .. k -> 1 .. most] : \E i \in is : \A o \in 1 .. k : c[o] <= v[i][o]}

\* The same if the values are to be minimized, up to those of worst.
RegionBelow(v, is, k, worst, most) ==
    {c \in [1 .. k -> 1 .. most] :
        \E i \in is : \A o \in 1 .. k : v[i][o] <= c[o] /\ c[o] <= worst[o]}

\* The points that the call for k objectives is about.
PointsOf(k) == IF k = Dimension THEN Points ELSE inds[k + 1]

\* The measure of the region that the points of front dominate, up to the worst
\* value of each objective and one more, if they are to be minimized; down to 0
\* if not.
Hypervolume ==
    IF minimization
    THEN LET worst == [o \in 1 .. Dimension |-> MaxValue(front, Points, o)]
         IN  Cardinality(RegionBelow(front, Points, Dimension, worst, Extent))
    ELSE Cardinality(Region(front, Points, Dimension, Extent))

\* The metric is the measure of the dominated region, as the comments of
\* getMaximizationSMetricByHSO say, in whatever order the points are given and
\* whether or not some dominate or equal others; of points with more than one
\* objective, that is: with one it is the square of it, since that objective is
\* taken for the one before the last too.
MetricIsHypervolume ==
    pc = "done" /\ Dimension > 1 => volume[Dimension] = Hypervolume

\* In every call that is open, what the loop has added up is the measure of the
\* region behind the last slice, and the points left dominate the region in front
\* of it: no slice is counted twice or left out, although each call has only the
\* points that are not dominated in the objectives it looks at.
SlicesMeasureWhatTheyPassed ==
    pc # "start" => \A k \in level .. Dimension : k > 1 =>
        LET region == Region(values, PointsOf(k), k, Extent)
        IN  /\ volume[k] = Cardinality({c \in region : c[k] <= curDistance[k]})
            /\ {c \in region : c[k] > curDistance[k]} =
                   {c \in Region(values, inds[k], k, Extent) : c[k] > curDistance[k]}

\* getNondominatedSolutions removes from a list while it runs over it, and yet
\* returns every point that no other dominates once, and no other point.
NondominatedAreKept ==
    pc = "population" /\ rest = {} =>
        /\ IsInjective(nonDominated)
        /\ ToSet(nonDominated) =
               {i \in inds[level] : \A j \in inds[level] : ~ Dominates(values, j, i, level - 1)}

=============================================================================
