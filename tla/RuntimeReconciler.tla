-------------------------- MODULE RuntimeReconciler --------------------------
(***************************************************************************)
(* RuntimeDeadlineReconciler: one candidate per transaction.  It ends a    *)
(* Run that nobody took in time, and takes a Run back from an offer or an  *)
(* execution that has expired.  The clock is read twice: the decision uses *)
(* the reading `now', the update that requeues the Run a later reading `t',*)
(* and a deadline may pass between the two.                                *)
(***************************************************************************)
EXTENDS RuntimeState

(* runtimeDeadlineTerminalForRun *)
DeadlinePassed(r, t) == t >= run[r].runDl \/ t >= run[r].dispatchDl

(* Mutant: a Run that waits for its retry is forgotten. *)
PendingDue(r) ==
  /\ run[r].status = "running"
  /\ run[r].dispatch = "pending"
  /\ run[r].cancel = "none"
  /\ DispatchBy(r) <= now

(* LockDueRuntimeRunWithoutAttempt *)
UnassignedDue(r) ==
  /\ run[r].status = "running"
  /\ run[r].dispatch \in {"pending", "retry_wait"}
  /\ run[r].active = 0
  /\ run[r].cancel = "none"
  /\ DispatchBy(r) <= now

ReconcileUnassigned(r) ==
  /\ UnassignedDue(r)
  /\ run' = [run EXCEPT ![r] = Settled(run[r], "timeout", "terminal", 0)]
  /\ UNCHANGED <<now, att, cancel, sess, conns, node, revoked, grant>>

(* LockDueRuntimeRunWithAttempt, its common part and its two cases. *)
HeldByActive(r, dispatch) ==
  /\ run[r].active # 0
  /\ OwnsRun(Active(r), dispatch)
  /\ run[r].cancel = "none"
  /\ run[r].latest = run[r].active
  /\ Unfinished(Active(r))
  /\ att[Active(r)].result = "none"

OfferDue(r) ==
  /\ HeldByActive(r, "offered")
  /\ att[Active(r)].no = 0
  /\ Earlier(att[Active(r)].offerExp, DispatchBy(r)) <= now

(* Mutant: only attempts that hold a slot are found, so never a Core's. *)
SlotExecutionDue(r) ==
  /\ HeldByActive(r, "executing")
  /\ att[Active(r)].slot # NULL
  /\ Earlier(att[Active(r)].leaseExp,
             Earlier(att[Active(r)].deadline, run[r].runDl)) <= now

ExecutionDue(r) ==
  /\ HeldByActive(r, "executing")
  /\ att[Active(r)].no # 0
  /\ Earlier(att[Active(r)].leaseExp,
             Earlier(att[Active(r)].deadline, run[r].runDl)) <= now

(* runtimeOfferTerminalForRun *)
OfferTerminal(r) ==
  \/ DeadlinePassed(r, now)
  \/ run[r].offers >= MaxOffers /\ now >= att[Active(r)].offerExp

ReconcileOffer(r, t) ==
  /\ OfferDue(r)
  /\ t >= now
  /\ FinishAttempt(Active(r), "offer_expired", "none")
  /\ run' = [run EXCEPT ![r] =
               IF OfferTerminal(r) \/ DeadlinePassed(r, t)
                 THEN Settled(run[r], "timeout", "terminal", 0)
                 ELSE Unassigned(run[r], "pending", 0)]
  /\ UNCHANGED <<now, cancel, conns, revoked, grant>>

(* A Core attempt that expires leaves no way to know whether the endpoint  *)
(* did the work: the Run fails, whatever deadline has passed.              *)
ReconcileCoreExecution(r) ==
  /\ ExecutionDue(r)
  /\ att[Active(r)].executor = "core"
  /\ FinishAttempt(Active(r), "result_unknown", "none")
  /\ run' = [run EXCEPT ![r] = Settled(run[r], "failed", "terminal", 0)]
  /\ UNCHANGED <<now, cancel, conns, revoked, grant>>

(* The row a Run gets when its Runtime execution has expired.  The retry   *)
(* is never scheduled past a deadline.                                     *)
AfterExpiredExecution(r, t) ==
  IF DeadlinePassed(r, now)
    THEN Settled(run[r], "timeout", "terminal", 0)
  ELSE IF run[r].attempts >= AttemptLimit(r)
    THEN Settled(run[r], "failed", "dead_letter", 0)
  ELSE IF DeadlinePassed(r, t)
    THEN Settled(run[r], "timeout", "terminal", 0)
  ELSE Unassigned(run[r], "retry_wait",
         Earlier(t + RetryDelay[run[r].attempts], DispatchBy(r)))

ReconcileRuntimeExecution(r, t) ==
  /\ ExecutionDue(r)
  /\ t >= now
  /\ att[Active(r)].executor = "runtime"
  /\ FinishAttempt(Active(r),
                   IF now >= run[r].runDl THEN "timeout" ELSE "lease_expired",
                   "none")
  /\ run' = [run EXCEPT ![r] = AfterExpiredExecution(r, t)]
  /\ UNCHANGED <<now, cancel, conns, revoked, grant>>

=============================================================================
