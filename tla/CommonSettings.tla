--------------------------- MODULE CommonSettings ---------------------------
(* What the settings of every codec share: the parameters that a setting says *)
(* are a partial function from kinds of filter parameters to values.          *)
EXTENDS Integers, Sequences, SequencesExt, TLC

Unsaid == [p \in {} |-> p]
On(p, v, cond) == IF cond THEN p :> v ELSE Unsaid

Larger(x, y) == IF x > y THEN x ELSE y
Smaller(x, y) == IF x < y THEN x ELSE y
Clamp(x, low, high) == Smaller(Larger(x, low), high)

\* A rate is not negative, a priority not positive.
OperateRateSetter(i) == [i EXCEPT !.operateRate = Larger(@, 0)]
RealTimePrioritySetter(i) == [i EXCEPT !.realTimePriority = Smaller(@, 0)]

cnvOperateRate(i)      == On("operatingRate", i.operateRate, i.operateRate > 0)
cnvRealTimePriority(i) == "realTimePriority" :> i.realTimePriority
=============================================================================
