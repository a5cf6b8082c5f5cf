--------------------------- MODULE WorkLifecycle ----------------------------
(***************************************************************************)
(* The life of delegated work, as a leader may rely on it (state.go): work  *)
(* is created once, after everything it depends on; each start is a new     *)
(* attempt and needs the results of the prerequisites; only an attempt that *)
(* has started settles, and a result is recorded once; only an attempt that *)
(* a dead process left behind is repeated.  Who starts, settles or cancels is nobody's business here:     *)
(* there are no goroutines, no leader and no process.                       *)
(*                                                                         *)
(* A cancellation is the one event that does not wait for the attempt: it   *)
(* may come at any time, and the attempt that it overtakes still starts and *)
(* settles.                                                                *)
(***************************************************************************)
EXTENDS Naturals

CONSTANT Work

VARIABLE work       \* the record of each work

Unborn == [status |-> "absent", attempt |-> 0, interrupted |-> FALSE,
           result |-> FALSE, deps |-> {}]

Init == work = [w \in Work |-> Unborn]

Existing == {w \in Work : work[w].status # "absent"}

\* Prerequisites exist before the work that waits for them, so that none
\* waits for itself.
Create(w) ==
    /\ w \notin Existing
    /\ \E deps \in SUBSET Existing :
          work' = [work EXCEPT ![w] = [Unborn EXCEPT !.status = "pending",
                                                     !.deps = deps]]

\* Never run, interrupted by the death of its process, or overtaken by a
\* cancellation after it was scheduled.
Startable(w) ==
    \/ work[w].status \in {"pending", "cancelled"}
    \/ work[w].status = "failed" /\ work[w].interrupted

Start(w) ==
    /\ Startable(w) /\ ~work[w].result
    /\ \A d \in work[w].deps : work[d].result
    /\ work' = [work EXCEPT ![w] = [@ EXCEPT !.status = "running",
                                             !.attempt = work[w].attempt + 1,
                                             !.interrupted = FALSE]]

\* An attempt has started and left no result yet, cancelled meanwhile or not.
Underway(w) ==
    /\ work[w].status \in {"running", "cancelled"}
    /\ work[w].attempt > 0 /\ ~work[w].result

Complete(w) ==
    /\ Underway(w)
    /\ work' = [work EXCEPT ![w] = [@ EXCEPT !.status = "completed",
                                             !.interrupted = FALSE,
                                             !.result = TRUE]]

Fail(w) ==
    /\ Underway(w)
    /\ work' = [work EXCEPT ![w] = [@ EXCEPT !.status = "failed",
                                             !.interrupted = FALSE]]

\* The process that ran the attempt is gone.
Interrupt(w) ==
    /\ work[w].status = "running"
    /\ work' = [work EXCEPT ![w] = [@ EXCEPT !.status = "failed",
                                             !.interrupted = TRUE]]

Cancel(w) ==
    /\ w \in Existing
    /\ work' = [work EXCEPT ![w] = [@ EXCEPT !.status = "cancelled",
                                             !.interrupted = FALSE]]

Next == \E w \in Work : \/ Create(w) \/ Start(w) \/ Complete(w) \/ Fail(w)
                        \/ Interrupt(w) \/ Cancel(w)

Spec == Init /\ [][Next]_work
=============================================================================
