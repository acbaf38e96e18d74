--------------------------- MODULE ParseService ---------------------------
(***************************************************************************)
(* What the pool of ParallelParser.ts promises its caller, with no workers *)
(* in sight: every run() returns a promise that is settled at most once,   *)
(* with the parse result of its own file or with an error, and a closed    *)
(* pool takes no more work.                                                *)
(***************************************************************************)
CONSTANTS Task, NoTask

VARIABLES promise, answer, closed

vars == <<promise, answer, closed>>

Init ==
    /\ promise = [t \in Task |-> "none"]
    /\ answer = [t \in Task |-> NoTask]
    /\ closed = FALSE

Pending == {t \in Task : promise[t] = "pending"}

(* The promises of the tasks in R are rejected.                            *)
Reject(prom, R) == [t \in Task |-> IF t \in R THEN "rejected" ELSE prom[t]]

(* A new call; the tasks that cannot be handed to a worker are rejected.   *)
Submit(t) ==
    /\ promise[t] = "none"
    /\ \E R \in SUBSET (Pending \cup {t}) :
         /\ closed => t \in R
         /\ promise' = Reject([promise EXCEPT ![t] = "pending"], R)
    /\ UNCHANGED <<answer, closed>>

Resolve(t) ==
    /\ promise[t] = "pending"
    /\ answer' = [answer EXCEPT ![t] = t]
    /\ \E R \in SUBSET (Pending \ {t}) :
         promise' = Reject([promise EXCEPT ![t] = "resolved"], R)
    /\ UNCHANGED closed

Fail ==
    /\ \E R \in SUBSET Pending : promise' = Reject(promise, R)
    /\ UNCHANGED <<answer, closed>>

Close ==
    /\ ~closed
    /\ closed' = TRUE
    /\ \E R \in SUBSET Pending : promise' = Reject(promise, R)
    /\ UNCHANGED answer

Next ==
    \/ \E t \in Task : Submit(t) \/ Resolve(t)
    \/ Fail
    \/ Close

Spec == Init /\ [][Next]_vars
===========================================================================
