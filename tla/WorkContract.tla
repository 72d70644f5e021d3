---------------------------- MODULE WorkContract ----------------------------
(***************************************************************************)
(* What the component promises the codec2 client about its works: a work   *)
(* that was accepted is returned as done, returned as flushed or dropped   *)
(* by a stop, once; while a flush or a stop is under way nothing is        *)
(* accepted; and when it ends the component holds no work at all.          *)
(* Component is shown to implement it.                                     *)
(***************************************************************************)
CONSTANT Works

VARIABLES
  phase,            \* "open", or the call that is emptying the component
  outcome           \* [Works -> Outcome]

contractVars == <<phase, outcome>>

Settled == {"done", "flushed", "dropped"}
Outcome == {"new", "held"} \union Settled

Init ==
  /\ phase = "open"
  /\ outcome = [w \in Works |-> "new"]

Accept(W) ==
  /\ phase = "open"
  /\ \A w \in W : outcome[w] = "new"
  /\ outcome' = [w \in Works |-> IF w \in W THEN "held" ELSE outcome[w]]
  /\ UNCHANGED phase

\* Works leave the component; only a flush returns them as flushed.
Settle(W, how) ==
  /\ \A w \in W : outcome[w] = "held"
  /\ how = "flushed" => phase = "flushing"
  /\ outcome' = [w \in Works |-> IF w \in W THEN how ELSE outcome[w]]

BeginFlush == phase = "open" /\ phase' = "flushing" /\ UNCHANGED outcome
BeginStop  == phase = "open" /\ phase' = "stopping" /\ UNCHANGED outcome

End ==
  /\ phase \in {"flushing", "stopping"}
  /\ phase' = "open"
  /\ \A w \in Works : outcome'[w] # "held"

Next ==
  \/ \E W \in SUBSET Works : Accept(W)
  \/ \E W \in SUBSET Works, how \in Settled :
       Settle(W, how) /\ (UNCHANGED phase \/ End)
  \/ BeginFlush \/ BeginStop

Spec == Init /\ [][Next]_contractVars

=============================================================================
