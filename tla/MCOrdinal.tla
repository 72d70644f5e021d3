----------------------------- MODULE MCOrdinal ------------------------------
(* Model checking instance of the two modules about a decoder component:    *)
(* the ordinals of its frames and the flow of its inputs.  A behaviour is   *)
(* one of one of them; the variables of the other rest.                     *)
EXTENDS Ordinal

VARIABLES part, slots, queued, kind, lastData, loaned, mWorkQueue, mPendingWorkQueue,
  mPendingInputs, mMaxInputCount, mMinOutputDelay, tasks, input, held, nCnt, drained,
  mHasSavedEOS, mIsAfterEOS, answers, flushes

\* A client with as many buffers as the component expects at first, and one
\* with more; a decoder that holds one picture less than its buffers allow.
Flow == INSTANCE InputFlow WITH
  NumWorks <- 5, SlotCounts <- {2, 3}, Smoothness <- 2, Extra <- 2, DefaultDelay <- 4,
  Cnt <- 5, Depth <- 2, MaxFlushes <- 1

flowVars == <<slots, queued, kind, lastData, loaned, mWorkQueue, mPendingWorkQueue,
  mPendingInputs, mMaxInputCount, mMinOutputDelay, tasks, input, held, nCnt, drained,
  mHasSavedEOS, mIsAfterEOS, answers, flushes>>

MCInit ==
  \/ part = "ordinal" /\ Init /\ Flow!Init /\ slots = 2
  \/ part = "flow" /\ Flow!Init /\ Init /\ mode = CHOOSE m \in Mode : TRUE

MCNext ==
  /\ UNCHANGED part
  /\ \/ part = "ordinal" /\ Next /\ UNCHANGED flowVars
     \/ part = "flow" /\ Flow!Next /\ UNCHANGED ordinalVars

MCSpec == MCInit /\ [][MCNext]_<<part, ordinalVars, flowVars>>

\* The types of the two modules' variables.
MCTypeOK == TypeOK /\ Flow!TypeOK

\* The invariants of InputFlow: a client is never left without an input buffer
\* that the decoder waits for, buffers go back in bounds, EOS comes once and last.
InputsFlow == Flow!NeverStalls /\ Flow!ReleasedInBounds /\ Flow!EosIsLast

=============================================================================
