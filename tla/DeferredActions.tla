-------------------------- MODULE DeferredActions --------------------------
(***************************************************************************)
(* What a LabComm scheduler promises the callers of                        *)
(* labcomm2014_scheduler_enqueue, whatever threads and locks lie behind:   *)
(* every submitted action is called at most once and alone; actions with   *)
(* no delay are called in the order they were submitted; a delayed action  *)
(* is called neither before it is due nor before one that is due earlier,  *)
(* ties going to the one submitted first.                                  *)
(*                                                                         *)
(* Actions are numbered in the order they are submitted.                   *)
(***************************************************************************)
EXTENDS Integers

CONSTANTS
    Immediate       \* the due time of an action submitted without delay

VARIABLES
    clock,          \* the current time
    submitted,      \* how many actions were submitted so far
    pending,        \* the actions not yet called
    due,            \* when each pending action is to be called
    busy            \* is an action being executed?

vars == <<clock, submitted, pending, due, busy>>

ImmediateActions == {e \in pending : due[e] = Immediate}
DelayedActions   == pending \ ImmediateActions

MayStart(e) ==
    \/ e \in ImmediateActions /\ \A f \in ImmediateActions : e <= f
    \/ /\ e \in DelayedActions
       /\ due[e] <= clock
       /\ \A f \in DelayedActions : due[e] < due[f] \/ (due[e] = due[f] /\ e <= f)

\* An action is submitted, to be called at once or at some later time.
Submit ==
    /\ submitted' = submitted + 1
    /\ pending' = pending \cup {submitted'}
    /\ due'[submitted'] = Immediate \/ due'[submitted'] > clock
    /\ \A e \in pending : due'[e] = due[e]
    /\ UNCHANGED <<clock, busy>>

Start(e) ==
    /\ ~busy
    /\ MayStart(e)
    /\ pending' = pending \ {e}
    /\ busy' = TRUE
    /\ UNCHANGED <<clock, submitted, due>>

Finish ==
    /\ busy
    /\ busy' = FALSE
    /\ UNCHANGED <<clock, submitted, pending, due>>

Advance ==
    /\ clock' > clock
    /\ UNCHANGED <<submitted, pending, due, busy>>

Init == submitted = 0 /\ pending = {} /\ busy = FALSE

Next == Submit \/ (\E e \in pending : Start(e)) \/ Finish \/ Advance

Spec == Init /\ [][Next]_vars
=============================================================================
