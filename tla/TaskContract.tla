---------------------------- MODULE TaskContract ----------------------------
(***************************************************************************)
(* What a task pool promises to the code that hands it tasks, with no      *)
(* queue, no session and no thread: a task is accepted or refused; an      *)
(* accepted task is run to its end or discarded, never both and never      *)
(* twice; its notification is called once and only after that decision;    *)
(* a closed pool accepts nothing.  ThreadPool is shown to implement it.    *)
(***************************************************************************)
EXTENDS Naturals

CONSTANT Tasks      \* the task packages that callers may submit

VARIABLES
  closed,           \* the pool was told to stop
  outcome,          \* [Tasks -> Outcome]: what became of each task
  notified          \* [Tasks -> Nat]: how often its notification ran

contractVars == <<closed, outcome, notified>>

Settled == {"run", "discarded", "refused"}
Outcome == {"new", "accepted"} \union Settled

Init ==
  /\ closed = FALSE
  /\ outcome = [t \in Tasks |-> "new"]
  /\ notified = [t \in Tasks |-> 0]

\* What one step may do to the outcome of one task.
OutcomeStep(t) ==
  \/ outcome'[t] = outcome[t]
  \/ outcome[t] = "new" /\ outcome'[t] = "accepted" /\ ~closed
  \/ outcome[t] = "new" /\ outcome'[t] = "refused" /\ closed
  \/ outcome[t] = "accepted" /\ outcome'[t] \in {"run", "discarded"}

\* What one step may do to the notification of one task.
NotifyStep(t) ==
  \/ notified'[t] = notified[t]
  \/ notified[t] = 0 /\ notified'[t] = 1 /\ outcome'[t] \in Settled

Next ==
  /\ closed => closed'
  /\ DOMAIN outcome' = Tasks
  /\ DOMAIN notified' = Tasks
  /\ \A t \in Tasks : OutcomeStep(t) /\ NotifyStep(t)

Spec == Init /\ [][Next]_contractVars

=============================================================================
