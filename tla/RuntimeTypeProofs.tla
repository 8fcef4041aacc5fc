-------------------------- MODULE RuntimeTypeProofs --------------------------
(***************************************************************************)
(* Type correctness of the Runtime control plane, for every set of Runs,   *)
(* Sessions, Nodes and Cores and every budget and duration.                *)
(***************************************************************************)
EXTENDS RuntimeProperties, TLAPS

(* The types alone are not inductive: a retry is scheduled with            *)
(* RetryDelay[attempt_count], which exists only if the executing Run has   *)
(* counted its attempt.                                                    *)
ExecutionCounted == \A r \in Runs : run[r].dispatch = "executing" => run[r].attempts # 0

TypeInv == TypeOK /\ ExecutionCounted

-----------------------------------------------------------------------------
(* Earlier and Later choose one of their arguments. *)
LEMMA EarlierLaterType ==
  \A x, y \in Nat : Earlier(x, y) \in Nat /\ Later(x, y) \in Nat
BY DEF Earlier, Later

(* DispatchBy, the bound of ClaimOffer and of the reconciler, is an instant. *)
LEMMA DispatchByType ==
  ASSUME TypeOK, NEW r \in Runs
  PROVE  DispatchBy(r) \in Nat
BY EarlierLaterType, Zenon DEF DispatchBy, TypeOK, RunRow

(* The names that the updates below write are names of the row types. *)
LEMMA Names ==
  /\ "running" \in RunStatus /\ "success" \in RunStatus /\ "failed" \in RunStatus
  /\ "timeout" \in RunStatus /\ "canceled" \in RunStatus
  /\ "pending" \in DispatchState /\ "retry_wait" \in DispatchState
  /\ "executing" \in DispatchState
  /\ "terminal" \in DispatchState /\ "dead_letter" \in DispatchState
  /\ "offer_rejected" \in Outcome /\ "offer_expired" \in Outcome
  /\ "canceled" \in Outcome /\ "result_unknown" \in Outcome
  /\ "none" \in Results \cup {"none"}
BY DEF RunStatus, DispatchState, Outcome

(* Settled and Unassigned keep the type of a runs row. *)
LEMMA SettledType ==
  ASSUME NEW row \in RunRow, NEW status \in RunStatus,
         NEW dispatch \in DispatchState, NEW result \in 0 .. MaxOffers
  PROVE  /\ Settled(row, status, dispatch, result) \in RunRow
         /\ Settled(row, status, dispatch, result).dispatch = dispatch
<1>1. 0 \in 0 .. MaxOffers /\ 0 \in Nat /\ row.settled + 1 \in Nat
  BY RunAssumption DEF RunAssumption, RunRow
<1>. QED
  BY <1>1, Zenon DEF Settled, RunRow

(* Settled, the row of an ended Run, is well formed. *)
LEMMA EndedType ==
  ASSUME NEW row \in RunRow, NEW status \in Terminal,
         NEW dispatch \in TerminalDispatch, NEW result \in 0 .. MaxOffers
  PROVE  /\ Settled(row, status, dispatch, result) \in RunRow
         /\ Settled(row, status, dispatch, result).dispatch # "executing"
<1>1. status \in RunStatus /\ dispatch \in DispatchState
  BY DEF Terminal, RunStatus, TerminalDispatch, DispatchState
<1>. QED
  BY <1>1, SettledType DEF TerminalDispatch

(* Unassigned, the row of a Run put back in the queue, is well formed. *)
LEMMA UnassignedType ==
  ASSUME NEW row \in RunRow, NEW dispatch \in DispatchState, NEW next \in Nat
  PROVE  /\ Unassigned(row, dispatch, next) \in RunRow
         /\ Unassigned(row, dispatch, next).dispatch = dispatch
<1>1. 0 \in 0 .. MaxOffers /\ 0 \in Nat
  BY RunAssumption DEF RunAssumption
<1>. QED
  BY <1>1, Zenon DEF Unassigned, RunRow

(* Writing one runs row of the right type keeps the whole table's type. *)
LEMMA RunWriteType ==
  ASSUME TypeInv, NEW r \in Runs, NEW row \in RunRow,
         row.dispatch = "executing" => row.attempts # 0,
         run' = [run EXCEPT ![r] = row]
  PROVE  run' \in [Runs -> RunRow] /\ ExecutionCounted'
BY Zenon DEF TypeInv, TypeOK, ExecutionCounted

(* A slot goes back: both counters stay natural numbers. *)
LEMMA ReleaseSlotsType ==
  ASSUME TypeOK, NEW s \in Sessions, ReleaseSlots(s)
  PROVE  sess' \in [Sessions -> SessionRow] /\ node' \in [Nodes -> NodeRow]
<1>1. NodeOf[s] \in Nodes
  BY SessionAssumption DEF SessionAssumption
<1>2. sess[s] \in SessionRow /\ node[NodeOf[s]] \in NodeRow
  BY <1>1 DEF TypeOK
<1>3. sess[s].inflight - 1 \in Nat /\ node[NodeOf[s]].inflight - 1 \in Nat
  BY <1>2 DEF ReleaseSlots, SessionRow, NodeRow
<1>4. sess' \in [Sessions -> SessionRow]
  BY <1>2, <1>3, Zenon DEF TypeOK, ReleaseSlots, SessionRow
<1>5. node' \in [Nodes -> NodeRow]
  BY <1>1, <1>2, <1>3, Zenon DEF TypeOK, ReleaseSlots, NodeRow
<1>. QED
  BY <1>4, <1>5

(* An attempt finishes, with or without a slot to give back. *)
LEMMA FinishAttemptType ==
  ASSUME TypeOK, NEW a \in Attempts, NEW outcome \in Outcome,
         NEW result \in Results \cup {"none"}, FinishAttempt(a, outcome, result)
  PROVE  /\ att' \in [Attempts -> AttemptRow]
         /\ sess' \in [Sessions -> SessionRow]
         /\ node' \in [Nodes -> NodeRow]
<1>1. NULL \in Sessions \cup {NULL} /\ att[a] \in AttemptRow
  BY DEF TypeOK
<1>2. att' \in [Attempts -> AttemptRow]
  BY <1>1, ZenonT(40) DEF TypeOK, FinishAttempt, AttemptRow
<1>3. att[a].slot \in Sessions \cup {NULL}
  BY <1>1 DEF AttemptRow
<1>. QED
  BY <1>2, <1>3, ReleaseSlotsType DEF TypeOK, FinishAttempt

(* An attempt finishes and its Run row is written: the shape of every      *)
(* transaction that takes a Run from its attempt.                          *)
LEMMA FinishAndWriteType ==
  ASSUME TypeInv, NEW a \in Attempts, NEW outcome \in Outcome,
         NEW result \in Results \cup {"none"}, FinishAttempt(a, outcome, result),
         NEW r \in Runs, NEW row \in RunRow,
         row.dispatch = "executing" => row.attempts # 0,
         run' = [run EXCEPT ![r] = row],
         UNCHANGED <<now, cancel, conns, revoked, grant>>
  PROVE  TypeInv'
<1>1. run' \in [Runs -> RunRow] /\ ExecutionCounted'
  BY RunWriteType, Zenon
<1>2. /\ att' \in [Attempts -> AttemptRow]
      /\ sess' \in [Sessions -> SessionRow]
      /\ node' \in [Nodes -> NodeRow]
  BY FinishAttemptType DEF TypeInv
<1>. QED
  BY <1>1, <1>2 DEF TypeInv, TypeOK

-----------------------------------------------------------------------------
(* RuntimeLeases *)

(* The Run of an attempt id is a Run. *)
LEMMA AttemptRun == \A a \in Attempts : a[1] \in Runs /\ a[2] \in 1 .. MaxOffers
BY DEF Attempts, Offers

(* CreateRun, the insert of a new Run, preserves the type invariant. *)
LEMMA CreateRunType ==
  ASSUME TypeInv, NEW r \in Runs, CreateRun(r)
  PROVE  TypeInv'
<1> DEFINE row == [run[r] EXCEPT !.status = "running", !.dispatchDl = now + DispatchTTL,
                                 !.runDl = now + RunTTL]
<1>1. /\ now + DispatchTTL \in Nat
      /\ now + RunTTL \in Nat
      /\ "running" \in RunStatus
      /\ run[r] \in RunRow
  BY DurationAssumption DEF DurationAssumption, TypeInv, TypeOK, RunStatus
<1>2. row \in RunRow /\ row.dispatch = run[r].dispatch /\ row.attempts = run[r].attempts
  BY <1>1, Zenon DEF RunRow
<1>3. run' = [run EXCEPT ![r] = row]
  BY Zenon DEF CreateRun, TypeInv, TypeOK
<1>4. run' \in [Runs -> RunRow] /\ ExecutionCounted'
  <2>. HIDE DEF row
  <2>. QED  BY <1>2, <1>3, RunWriteType, Zenon DEF TypeInv, ExecutionCounted
<1>. QED
  BY <1>4 DEF TypeInv, TypeOK, CreateRun

(* The row of a new offer, and of its Run. *)
LEMMA OfferRowType ==
  ASSUME TypeOK, NEW s \in Sessions, NEW r \in Runs
  PROVE  OfferRow(s, r) \in AttemptRow
<1>. run[r] \in RunRow /\ sess[s] \in SessionRow
  BY DEF TypeOK
<1>0. /\ now + OfferTTL \in Nat
      /\ now + LeaseTTL \in Nat
      /\ now + AttemptTTL \in Nat
  BY DurationAssumption DEF DurationAssumption, TypeOK
<1>1. /\ run[r].runDl \in Nat
      /\ run[r].fence + 1 \in Nat
      /\ sess[s].core \in Cores \cup {NULL}
      /\ 0 \in 0 .. MaxAttempts
  BY RunAssumption DEF RunAssumption, RunRow, SessionRow
<1>2. DispatchBy(r) \in Nat
  BY DispatchByType
<1>3. /\ Earlier(now + OfferTTL, Earlier(now + LeaseTTL,
            Earlier(now + AttemptTTL, DispatchBy(r)))) \in Nat
      /\ Earlier(now + LeaseTTL, Earlier(now + AttemptTTL, run[r].runDl)) \in Nat
      /\ Earlier(now + AttemptTTL, run[r].runDl) \in Nat
  BY <1>0, <1>1, <1>2, EarlierLaterType, Zenon
<1>4. "none" \in Outcome /\ "none" \in Results \cup {"none"}
  BY DEF Outcome
<1>. QED
  BY <1>1, <1>3, <1>4, Zenon DEF OfferRow, AttemptRow

(* OfferedRun, the mirror of an offer in the Run row, is well formed. *)
LEMMA OfferedRunType ==
  ASSUME NEW row \in RunRow, NEW offer \in AttemptRow, row.offers < MaxOffers
  PROVE  /\ OfferedRun(row, offer) \in RunRow
         /\ OfferedRun(row, offer).dispatch = "offered"
<1>1. /\ row.offers + 1 \in 0 .. MaxOffers
      /\ 0 \in Nat
      /\ offer.fence \in Nat
      /\ offer.leaseExp \in Nat
      /\ "offered" \in DispatchState
  BY RunAssumption DEF RunAssumption, RunRow, AttemptRow, DispatchState
<1>. QED
  BY <1>1, Zenon DEF OfferedRun, RunRow

(* ClaimOffer, a Session taking a pending Run, preserves the type *)
(* invariant.                                                     *)
LEMMA ClaimOfferType ==
  ASSUME TypeInv, NEW s \in Sessions, NEW r \in Runs, ClaimOffer(s, r)
  PROVE  TypeInv'
<1> DEFINE n == run[r].offers + 1
<1>1. run[r].offers < MaxOffers /\ run[r] \in RunRow
  BY DEF ClaimOffer, Claimable, ClaimableState, TypeInv, TypeOK
<1>2. <<r, n>> \in Attempts
  BY <1>1, RunAssumption DEF RunAssumption, RunRow, Attempts, Offers
<1>3. OfferRow(s, r) \in AttemptRow
  BY OfferRowType DEF TypeInv
<1>4. att' \in [Attempts -> AttemptRow]
  BY <1>2, <1>3, Zenon DEF ClaimOffer, TypeInv, TypeOK
<1>5. /\ OfferedRun(run[r], OfferRow(s, r)) \in RunRow
      /\ OfferedRun(run[r], OfferRow(s, r)).dispatch = "offered"
  BY <1>1, <1>3, OfferedRunType
<1>6. run' \in [Runs -> RunRow] /\ ExecutionCounted'
  BY <1>5, RunWriteType, Zenon DEF ClaimOffer
<1>7. NodeOf[s] \in Nodes
  BY SessionAssumption DEF SessionAssumption
<1>8. sess[s] \in SessionRow /\ node[NodeOf[s]] \in NodeRow
  BY <1>7 DEF TypeInv, TypeOK
<1>9. sess[s].inflight + 1 \in Nat /\ node[NodeOf[s]].inflight + 1 \in Nat
  BY <1>8 DEF SessionRow, NodeRow
<1>10. sess' \in [Sessions -> SessionRow]
  BY <1>8, <1>9, Zenon DEF ClaimOffer, ClaimSlots, TypeInv, TypeOK, SessionRow
<1>11. node' \in [Nodes -> NodeRow]
  BY <1>7, <1>8, <1>9, Zenon DEF ClaimOffer, ClaimSlots, TypeInv, TypeOK, NodeRow
<1>. QED
  BY <1>4, <1>6, <1>10, <1>11 DEF TypeInv, TypeOK, ClaimOffer

(* The end of a lease that LeaseUntil computes is a point in time. *)
LEMMA LeaseUntilType ==
  ASSUME TypeOK, NEW a \in Attempts
  PROVE  LeaseUntil(a) \in Nat
<1>1. now + LeaseTTL \in Nat /\ att[a].deadline \in Nat /\ run[a[1]].runDl \in Nat
  BY DurationAssumption, AttemptRun DEF DurationAssumption, TypeOK, RunRow, AttemptRow
<1>. QED
  BY <1>1, EarlierLaterType, Zenon DEF LeaseUntil

(* AckAssignment, the confirmation of an offer, preserves the type *)
(* invariant.                                                      *)
LEMMA AckAssignmentType ==
  ASSUME TypeInv, NEW s \in Sessions, NEW a \in Attempts, AckAssignment(s, a)
  PROVE  TypeInv'
<1> DEFINE r == a[1]
           row == [run[r] EXCEPT !.dispatch = "executing", !.attempts = @ + 1,
                                 !.lease = LeaseUntil(a)]
<1>1. r \in Runs /\ run[r] \in RunRow /\ att[a] \in AttemptRow
  BY AttemptRun DEF TypeInv, TypeOK
<1>2. LeaseUntil(a) \in Nat
  BY LeaseUntilType DEF TypeInv
<1>3. run[r].attempts + 1 \in 0 .. MaxAttempts /\ run[r].attempts + 1 # 0
  BY <1>1, RunAssumption DEF RunAssumption, AckAssignment, AttemptLimit, RunRow
<1>4. sess[s].core \in Cores \cup {NULL} /\ "executing" \in DispatchState
  BY DEF TypeInv, TypeOK, SessionRow, DispatchState
<1>5. row \in RunRow /\ row.attempts = run[r].attempts + 1
  BY <1>1, <1>2, <1>3, <1>4, Zenon DEF RunRow
<1>6. run' = [run EXCEPT ![r] = row]
  BY <1>1, Zenon DEF AckAssignment, TypeInv, TypeOK
<1>7. run' \in [Runs -> RunRow] /\ ExecutionCounted'
  <2>. HIDE DEF row, r
  <2>. QED  BY <1>1, <1>3, <1>5, <1>6, RunWriteType, Zenon
<1>8. att' \in [Attempts -> AttemptRow]
  BY <1>1, <1>2, <1>3, <1>4, ZenonT(40) DEF AckAssignment, TypeInv, TypeOK, AttemptRow
<1>. QED
  BY <1>7, <1>8 DEF TypeInv, TypeOK, AckAssignment

(* FinishAndReleaseOffer, an offer given back to the queue, preserves the *)
(* type invariant.                                                        *)
LEMMA FinishAndReleaseOfferType ==
  ASSUME TypeInv, NEW a \in Attempts, NEW outcome \in Outcome,
         FinishAndReleaseOffer(a, outcome)
  PROVE  TypeInv'
<1>1. a[1] \in Runs /\ run[a[1]] \in RunRow
  BY AttemptRun DEF TypeInv, TypeOK
<1>2. /\ Unassigned(run[a[1]], "pending", 0) \in RunRow
      /\ Unassigned(run[a[1]], "pending", 0).dispatch = "pending"
  BY <1>1, UnassignedType, Names, Zenon
<1>. QED
  BY <1>1, <1>2, FinishAndWriteType, Zenon DEF FinishAndReleaseOffer

(* RenewLease, the extension of a held lease, preserves the type *)
(* invariant.                                                    *)
LEMMA RenewLeaseType ==
  ASSUME TypeInv, NEW s \in Sessions, NEW a \in Attempts, RenewLease(s, a)
  PROVE  TypeInv'
<1> DEFINE r == a[1]
           expiry == Later(att[a].leaseExp, LeaseUntil(a))
           row == [run[r] EXCEPT !.lease = expiry]
<1>1. r \in Runs /\ run[r] \in RunRow /\ att[a] \in AttemptRow
  BY AttemptRun DEF TypeInv, TypeOK
<1>2. expiry \in Nat
  BY <1>1, LeaseUntilType, EarlierLaterType, Zenon DEF TypeInv, AttemptRow
<1>3. sess[s].core \in Cores \cup {NULL}
  BY DEF TypeInv, TypeOK, SessionRow
<1>4. row \in RunRow /\ row.attempts = run[r].attempts /\ row.dispatch = run[r].dispatch
  BY <1>1, <1>2, Zenon DEF RunRow
<1>5. run' = [run EXCEPT ![r] = row]
  BY <1>1, Zenon DEF RenewLease, TypeInv, TypeOK
<1>6. run' \in [Runs -> RunRow] /\ ExecutionCounted'
  <2>. HIDE DEF row, r
  <2>. QED  BY <1>1, <1>4, <1>5, RunWriteType, Zenon DEF TypeInv, ExecutionCounted
<1>7. att' \in [Attempts -> AttemptRow]
  BY <1>1, <1>2, <1>3, ZenonT(40) DEF RenewLease, TypeInv, TypeOK, AttemptRow
<1>. QED
  BY <1>6, <1>7 DEF TypeInv, TypeOK, RenewLease

-----------------------------------------------------------------------------
(* RuntimeReconciler *)

(* The reconciler ending a Run nobody took preserves the type invariant. *)
LEMMA ReconcileUnassignedType ==
  ASSUME TypeInv, NEW r \in Runs, ReconcileUnassigned(r)
  PROVE  TypeInv'
<1> DEFINE row == Settled(run[r], "timeout", "terminal", 0)
<1>1. run[r] \in RunRow /\ 0 \in 0 .. MaxOffers
  BY RunAssumption DEF RunAssumption, TypeInv, TypeOK
<1>2. row \in RunRow /\ row.dispatch # "executing"
  BY <1>1, EndedType, Zenon DEF Terminal, TerminalDispatch
<1>3. run' \in [Runs -> RunRow] /\ ExecutionCounted'
  BY <1>2, RunWriteType, Zenon DEF ReconcileUnassigned
<1>. QED
  BY <1>3 DEF TypeInv, TypeOK, ReconcileUnassigned

(* The attempt that HeldByActive names is an attempt. *)
LEMMA HeldIsAttempt ==
  ASSUME TypeOK, NEW r \in Runs, NEW d, HeldByActive(r, d)
  PROVE  Active(r) \in Attempts
<1>1. run[r].active \in 1 .. MaxOffers
  BY RunAssumption DEF RunAssumption, HeldByActive, TypeOK, RunRow
<1>. QED
  BY <1>1 DEF Active, Attempts, Offers

(* The reconciler taking back an expired offer preserves the type *)
(* invariant.                                                     *)
LEMMA ReconcileOfferType ==
  ASSUME TypeInv, NEW r \in Runs, NEW t \in Nat, ReconcileOffer(r, t)
  PROVE  TypeInv'
<1> DEFINE row == IF OfferTerminal(r) \/ DeadlinePassed(r, t)
                    THEN Settled(run[r], "timeout", "terminal", 0)
                    ELSE Unassigned(run[r], "pending", 0)
<1>1. Active(r) \in Attempts
  BY HeldIsAttempt DEF TypeInv, ReconcileOffer, OfferDue
<1>2. run[r] \in RunRow /\ 0 \in 0 .. MaxOffers /\ 0 \in Nat
  BY RunAssumption DEF RunAssumption, TypeInv, TypeOK
<1>3. /\ Settled(run[r], "timeout", "terminal", 0) \in RunRow
      /\ Settled(run[r], "timeout", "terminal", 0).dispatch # "executing"
  BY <1>2, EndedType, Zenon DEF Terminal, TerminalDispatch
<1>4. /\ Unassigned(run[r], "pending", 0) \in RunRow
      /\ Unassigned(run[r], "pending", 0).dispatch = "pending"
  BY <1>2, UnassignedType, Names, Zenon
<1>5. row \in RunRow /\ row.dispatch # "executing"
  BY <1>3, <1>4
<1>6. "offer_expired" \in Outcome /\ "none" \in Results \cup {"none"}
  BY Names
<1>7. FinishAttempt(Active(r), "offer_expired", "none")
      /\ run' = [run EXCEPT ![r] = row]
      /\ UNCHANGED <<now, cancel, conns, revoked, grant>>
  BY DEF ReconcileOffer
<1>. HIDE DEF row
<1>. QED
  BY <1>1, <1>5, <1>6, <1>7, FinishAndWriteType, Zenon

(* The reconciler ending a Core's overdue execution preserves the type *)
(* invariant.                                                          *)
LEMMA ReconcileCoreExecutionType ==
  ASSUME TypeInv, NEW r \in Runs, ReconcileCoreExecution(r)
  PROVE  TypeInv'
<1> DEFINE row == Settled(run[r], "failed", "terminal", 0)
<1>1. Active(r) \in Attempts
  BY HeldIsAttempt DEF TypeInv, ReconcileCoreExecution, ExecutionDue
<1>2. run[r] \in RunRow /\ 0 \in 0 .. MaxOffers
  BY RunAssumption DEF RunAssumption, TypeInv, TypeOK
<1>3. row \in RunRow /\ row.dispatch # "executing"
  BY <1>2, EndedType, Zenon DEF Terminal, TerminalDispatch
<1>4. "result_unknown" \in Outcome /\ "none" \in Results \cup {"none"}
  BY DEF Outcome
<1>. QED
  BY <1>1, <1>3, <1>4, FinishAndWriteType, Zenon DEF ReconcileCoreExecution

(* The Run row after an expired execution (retry, timeout or dead letter) *)
(* is well formed.                                                        *)
LEMMA AfterExpiredExecutionType ==
  ASSUME TypeInv, NEW r \in Runs, NEW t \in Nat, run[r].dispatch = "executing"
  PROVE  /\ AfterExpiredExecution(r, t) \in RunRow
         /\ AfterExpiredExecution(r, t).dispatch # "executing"
<1> DEFINE next == Earlier(t + RetryDelay[run[r].attempts], DispatchBy(r))
<1>1. run[r] \in RunRow /\ 0 \in 0 .. MaxOffers
  BY RunAssumption DEF RunAssumption, TypeInv, TypeOK
<1>2. run[r].attempts \in 1 .. MaxAttempts
  BY <1>1, RunAssumption DEF RunAssumption, TypeInv, ExecutionCounted, RunRow
<1>3. t + RetryDelay[run[r].attempts] \in Nat /\ DispatchBy(r) \in Nat
  BY <1>2, DispatchByType, DurationAssumption DEF DurationAssumption, TypeInv
<1>4. next \in Nat
  BY <1>3, EarlierLaterType, Zenon
<1>5. /\ Unassigned(run[r], "retry_wait", next) \in RunRow
      /\ Unassigned(run[r], "retry_wait", next).dispatch = "retry_wait"
  <2>. HIDE DEF next
  <2>. QED  BY <1>1, <1>4, UnassignedType, Names, ZenonT(40)
<1>6. /\ Settled(run[r], "timeout", "terminal", 0) \in RunRow
      /\ Settled(run[r], "timeout", "terminal", 0).dispatch # "executing"
  BY <1>1, EndedType, Zenon DEF Terminal, TerminalDispatch
<1>7. /\ Settled(run[r], "failed", "dead_letter", 0) \in RunRow
      /\ Settled(run[r], "failed", "dead_letter", 0).dispatch # "executing"
  BY <1>1, EndedType, Zenon DEF Terminal, TerminalDispatch
<1>. QED
  BY <1>5, <1>6, <1>7 DEF AfterExpiredExecution

(* The reconciler ending a Session's expired execution preserves the type *)
(* invariant.                                                             *)
LEMMA ReconcileRuntimeExecutionType ==
  ASSUME TypeInv, NEW r \in Runs, NEW t \in Nat, ReconcileRuntimeExecution(r, t)
  PROVE  TypeInv'
<1> DEFINE outcome == IF now >= run[r].runDl THEN "timeout" ELSE "lease_expired"
<1>1. Active(r) \in Attempts
  BY HeldIsAttempt DEF TypeInv, ReconcileRuntimeExecution, ExecutionDue
<1>2. run[r].dispatch = "executing"
  BY DEF ReconcileRuntimeExecution, ExecutionDue, HeldByActive, OwnsRun, Active
<1>3. /\ AfterExpiredExecution(r, t) \in RunRow
      /\ AfterExpiredExecution(r, t).dispatch # "executing"
  BY <1>2, AfterExpiredExecutionType
<1>4. outcome \in Outcome /\ "none" \in Results \cup {"none"}
  BY DEF Outcome
<1>5. FinishAttempt(Active(r), outcome, "none")
      /\ run' = [run EXCEPT ![r] = AfterExpiredExecution(r, t)]
      /\ UNCHANGED <<now, cancel, conns, revoked, grant>>
  BY DEF ReconcileRuntimeExecution
<1>. HIDE DEF outcome
<1>. QED
  BY <1>1, <1>3, <1>4, <1>5, FinishAndWriteType, Zenon

-----------------------------------------------------------------------------
(* RuntimeCancellation *)

(* CancelOwnedRun, the owner's cancellation, preserves the type *)
(* invariant.                                                   *)
LEMMA CancelOwnedRunType ==
  ASSUME TypeInv, NEW r \in Runs, CancelOwnedRun(r)
  PROVE  TypeInv'
<1> DEFINE state == IF run[r].active = 0 THEN "stopped" ELSE "requested"
           ended == Settled(run[r], "canceled", "terminal", 0)
<1>1. run[r] \in RunRow /\ 0 \in 0 .. MaxOffers
  BY RunAssumption DEF RunAssumption, TypeInv, TypeOK
<1>2. state \in CancelState /\ run[r].active \in 0 .. MaxOffers /\ now \in Nat
  BY <1>1 DEF CancelState, RunRow, TypeInv, TypeOK
<1>3. ended \in RunRow /\ ended.dispatch # "executing"
  BY <1>1, EndedType, Zenon DEF Terminal, TerminalDispatch
<1>4. CanceledRun(run[r], state) = [ended EXCEPT !.cancel = state]
  BY DEF CanceledRun
<1>5. CanceledRun(run[r], state) \in RunRow /\ CanceledRun(run[r], state).dispatch # "executing"
  <2>. HIDE DEF state, ended
  <2>. QED  BY <1>2, <1>3, <1>4, Zenon DEF RunRow
<1>6. run' = [run EXCEPT ![r] = CanceledRun(run[r], state)]
  BY DEF CancelOwnedRun
<1>7. run' \in [Runs -> RunRow] /\ ExecutionCounted'
  <2>. HIDE DEF state
  <2>. QED  BY <1>5, <1>6, RunWriteType, Zenon
<1>8. cancel' = [cancel EXCEPT ![r] =
                   [state |-> state, target |-> run[r].active, at |-> now]]
  BY DEF CancelOwnedRun
<1>9. cancel' \in [Runs -> CancelRow]
  <2>. HIDE DEF state
  <2>. QED  BY <1>2, <1>8, Zenon DEF TypeInv, TypeOK, CancelRow
<1>. QED
  BY <1>7, <1>9 DEF TypeInv, TypeOK, CancelOwnedRun

(* A cancellation advances: only its state and the mirror change. *)
LEMMA AdvanceType ==
  ASSUME TypeInv, NEW r \in Runs, NEW state \in CancelState, Advance(r, state)
  PROVE  /\ run' \in [Runs -> RunRow]
         /\ ExecutionCounted'
         /\ cancel' \in [Runs -> CancelRow]
<1> DEFINE row == [run[r] EXCEPT !.cancel = state]
<1>1. row \in RunRow /\ row.dispatch = run[r].dispatch /\ row.attempts = run[r].attempts
  BY ZenonT(40) DEF TypeInv, TypeOK, RunRow
<1>2. run' = [run EXCEPT ![r] = row]
  BY Zenon DEF Advance, TypeInv, TypeOK
<1>3. run' \in [Runs -> RunRow] /\ ExecutionCounted'
  <2>. HIDE DEF row
  <2>. QED  BY <1>1, <1>2, RunWriteType, Zenon DEF TypeInv, ExecutionCounted
<1>4. cancel' \in [Runs -> CancelRow]
  BY Zenon DEF Advance, TypeInv, TypeOK, CancelRow
<1>. QED
  BY <1>3, <1>4

(* Advance, a change of cancellation state alone, preserves types. *)
LEMMA AdvanceAloneType ==
  ASSUME TypeInv, NEW r \in Runs, NEW state \in CancelState, Advance(r, state),
         UNCHANGED <<now, att, sess, conns, node, revoked, grant>>
  PROVE  TypeInv'
BY AdvanceType DEF TypeInv, TypeOK

(* So does a change of cancellation state that also finishes the attempt. *)
LEMMA AdvanceAndFinishType ==
  ASSUME TypeInv, NEW r \in Runs, NEW state \in CancelState, Advance(r, state),
         NEW a \in Attempts, FinishAttempt(a, "canceled", "none"),
         UNCHANGED <<now, conns, revoked, grant>>
  PROVE  TypeInv'
<1>1. "canceled" \in Outcome /\ "none" \in Results \cup {"none"}
  BY Names
<1>2. /\ att' \in [Attempts -> AttemptRow]
      /\ sess' \in [Sessions -> SessionRow]
      /\ node' \in [Nodes -> NodeRow]
  BY <1>1, FinishAttemptType DEF TypeInv
<1>. QED
  BY <1>2, AdvanceType DEF TypeInv, TypeOK

(* The attempt that a cancellation targets is an attempt. *)
LEMMA TargetIsAttempt ==
  ASSUME TypeOK, NEW r \in Runs, cancel[r].target # 0
  PROVE  Target(r) \in Attempts
<1>1. cancel[r].target \in 1 .. MaxOffers
  BY RunAssumption DEF RunAssumption, TypeOK, CancelRow
<1>. QED
  BY <1>1 DEF Target, Attempts, Offers

(* AckCancel, a worker reporting on a cancellation, preserves the type *)
(* invariant.                                                          *)
LEMMA AckCancelType ==
  ASSUME TypeInv, NEW s \in Sessions, NEW r \in Runs,
         NEW state \in AckState, AckCancel(s, r, state)
  PROVE  TypeInv'
<1>1. state \in CancelState /\ "stopped" \in CancelState
  BY DEF CancelState, AckState, AckFinalState
<1>2. Target(r) \in Attempts
  BY TargetIsAttempt DEF TypeInv, AckCancel, CancelPrincipal
<1>3. CASE state = "stopped"
  BY <1>1, <1>2, <1>3, AdvanceAndFinishType DEF AckCancel
<1>4. CASE state # "stopped"
  BY <1>1, <1>4, AdvanceAloneType DEF AckCancel
<1>. QED
  BY <1>3, <1>4

(* The reapers of overdue cancellations preserve the type invariant. *)
LEMMA ReapCancellationType ==
  ASSUME TypeInv, NEW r \in Runs, ReapCancellation(r) \/ ReapCoreCancellation(r)
  PROVE  TypeInv'
<1>1. Target(r) \in Attempts
  BY TargetIsAttempt DEF TypeInv, ReapCancellation, ReapCoreCancellation, CancellationDue
<1>2. cancel[r].state \in CancelState /\ "unconfirmed" \in CancelState
  BY DEF TypeInv, TypeOK, CancelRow, CancelState
<1>. QED
  BY <1>1, <1>2, AdvanceAndFinishType DEF ReapCancellation, ReapCoreCancellation

-----------------------------------------------------------------------------
(* RuntimeResults *)

(* The Run row after a Result (final, or put back for a retry) is well *)
(* formed.                                                             *)
LEMMA AfterResultType ==
  ASSUME TypeInv, NEW r \in Runs, NEW k \in Results, NEW t \in Nat,
         run[r].dispatch = "executing"
  PROVE  AfterResult(r, k, t) \in RunRow /\ AfterResult(r, k, t).dispatch # "executing"
<1> DEFINE next == t + RetryDelay[run[r].attempts]
<1>1. run[r] \in RunRow /\ 0 \in 0 .. MaxOffers
  BY RunAssumption DEF RunAssumption, TypeInv, TypeOK
<1>2. run[r].active \in 0 .. MaxOffers
  BY <1>1 DEF RunRow
<1>3. run[r].attempts \in 1 .. MaxAttempts
  BY <1>1, RunAssumption DEF RunAssumption, TypeInv, ExecutionCounted, RunRow
<1>4. next \in Nat
  BY <1>3, DurationAssumption DEF DurationAssumption
<1>5. /\ Unassigned(run[r], "retry_wait", next) \in RunRow
      /\ Unassigned(run[r], "retry_wait", next).dispatch = "retry_wait"
  <2>. HIDE DEF next
  <2>. QED  BY <1>1, <1>4, UnassignedType, Names, ZenonT(40)
<1>6. /\ Settled(run[r], "timeout", "terminal", 0) \in RunRow
      /\ Settled(run[r], "timeout", "terminal", 0).dispatch # "executing"
  BY <1>1, EndedType, Zenon DEF Terminal, TerminalDispatch
<1>7. /\ Settled(run[r], "failed", "dead_letter", run[r].active) \in RunRow
      /\ Settled(run[r], "failed", "dead_letter", run[r].active).dispatch # "executing"
  BY <1>1, <1>2, EndedType, Zenon DEF Terminal, TerminalDispatch
<1>8. /\ Settled(run[r], "failed", "terminal", run[r].active) \in RunRow
      /\ Settled(run[r], "failed", "terminal", run[r].active).dispatch # "executing"
  BY <1>1, <1>2, EndedType, Zenon DEF Terminal, TerminalDispatch
<1>9. /\ Settled(run[r], "success", "terminal", run[r].active) \in RunRow
      /\ Settled(run[r], "success", "terminal", run[r].active).dispatch # "executing"
  BY <1>1, <1>2, EndedType, Zenon DEF Terminal, TerminalDispatch
<1>. QED
  BY <1>5, <1>6, <1>7, <1>8, <1>9 DEF AfterResult

(* StoreResult, the commit of a Result, preserves the type invariant. *)
LEMMA StoreResultType ==
  ASSUME TypeInv, NEW a \in Attempts, NEW k \in Results, NEW resumed \in BOOLEAN,
         NEW t \in Nat, StoreResult(a, k, resumed, t)
  PROVE  TypeInv'
<1>1. a[1] \in Runs
  BY AttemptRun
<1>2. /\ AfterResult(a[1], k, t) \in RunRow
      /\ AfterResult(a[1], k, t).dispatch # "executing"
  BY <1>1, AfterResultType DEF StoreResult, AwaitsResult, OwnsRun
<1>3. OutcomeOf(a[1], k) \in Outcome
  BY DEF OutcomeOf, Outcome, Results
<1>4. k \in Results \cup {"none"}
  OBVIOUS
<1>. QED
  BY <1>1, <1>2, <1>3, <1>4, FinishAndWriteType, Zenon DEF StoreResult

(* Resume, a worker asking what became of its attempt, preserves the type *)
(* invariant.                                                             *)
LEMMA ResumeType ==
  ASSUME TypeInv, NEW s \in Sessions, NEW a \in Attempts, NEW stored \in BOOLEAN,
         Resume(s, a, stored)
  PROVE  TypeInv'
<1> DEFINE state == IF stored \/ SpoolCanWrite(a) THEN "open" ELSE "denied"
           exp == IF ActiveGrant(s, a) THEN grant[a].exp ELSE now + GrantTTL
<1>1. state \in {"none", "open", "denied"}
  OBVIOUS
<1>2. exp \in Nat
  BY DurationAssumption DEF DurationAssumption, TypeInv, TypeOK, GrantRow
<1>3. grant' = [grant EXCEPT ![a] = [state |-> state, target |-> s, exp |-> exp]]
  BY DEF Resume
<1>4. grant' \in [Attempts -> GrantRow]
  <2>. HIDE DEF state, exp
  <2>. QED  BY <1>1, <1>2, <1>3, ZenonT(40) DEF TypeInv, TypeOK, GrantRow
<1>. QED
  BY <1>4, Zenon DEF TypeInv, TypeOK, ExecutionCounted, Resume

(* BeginCoreAttempt, a Core starting a Run itself, preserves the type *)
(* invariant.                                                         *)
LEMMA BeginCoreAttemptType ==
  ASSUME TypeInv, NEW c \in Cores, NEW r \in Runs, BeginCoreAttempt(c, r)
  PROVE  TypeInv'
<1> DEFINE n == run[r].offers + 1
           new == [executor |-> "core", session |-> NULL, core |-> c,
                   fence |-> run[r].fence + 1, no |-> run[r].attempts + 1,
                   offerExp |-> run[r].runDl, leaseExp |-> run[r].runDl,
                   deadline |-> run[r].runDl, slot |-> NULL,
                   outcome |-> "none", result |-> "none"]
<1>1. run[r] \in RunRow
  BY DEF TypeInv, TypeOK
<1>2. run[r].offers < MaxOffers /\ run[r].attempts < MaxAttempts
  BY <1>1, RunAssumption
     DEF RunAssumption, BeginCoreAttempt, CoreClaimable, ClaimableState, AttemptLimit, RunRow
<1>3. n \in 0 .. MaxOffers /\ <<r, n>> \in Attempts
  BY <1>1, <1>2, RunAssumption DEF RunAssumption, RunRow, Attempts, Offers
<1>4. /\ run[r].attempts + 1 \in 0 .. MaxAttempts
      /\ run[r].attempts + 1 # 0
      /\ run[r].fence + 1 \in Nat
      /\ run[r].runDl \in Nat
      /\ 0 \in Nat
  BY <1>1, <1>2, RunAssumption DEF RunAssumption, RunRow
<1>5. /\ CoreStarted(run[r]) \in RunRow
      /\ CoreStarted(run[r]).attempts = run[r].attempts + 1
  BY <1>1, <1>3, <1>4, Names, Zenon DEF CoreStarted, RunRow
<1>6. run' \in [Runs -> RunRow] /\ ExecutionCounted'
  BY <1>4, <1>5, RunWriteType, Zenon DEF BeginCoreAttempt
<1>7. new \in AttemptRow
  <2>. "none" \in Outcome
    BY DEF Outcome
  <2>. QED  BY <1>4, Zenon DEF AttemptRow
<1>8. att' = [att EXCEPT ![<<r, n>>] = new]
  BY DEF BeginCoreAttempt
<1>9. att' \in [Attempts -> AttemptRow]
  <2>. HIDE DEF new, n
  <2>. QED  BY <1>3, <1>7, <1>8, Zenon DEF TypeInv, TypeOK
<1>. QED
  BY <1>6, <1>9 DEF TypeInv, TypeOK, BeginCoreAttempt

-----------------------------------------------------------------------------
(* RuntimeSessions *)

(* The rows that reconnects, heartbeats, drains and closures write. *)
LEMMA SessionRowTypes ==
  ASSUME NEW row \in SessionRow, NEW n \in Nat
  PROVE  /\ Drained(row, n) \in SessionRow
         /\ Reported(row, n) \in SessionRow
         /\ \A status \in SessionStatus : ClosedRow(row, status) \in SessionRow
         /\ RevokedRow(row) \in SessionRow
<1>1. /\ row.inflight \in Nat
      /\ row.cap \in Nat
      /\ 0 \in Nat
      /\ NULL \in Cores \cup {NULL}
      /\ TRUE \in BOOLEAN
      /\ "draining" \in SessionStatus
      /\ "revoked" \in SessionStatus
  BY DEF SessionRow, SessionStatus
<1>2. /\ (IF row.drain THEN row.resume ELSE n) \in Nat
      /\ (IF row.drain THEN 0 ELSE Later(n, row.inflight)) \in Nat
      /\ (IF row.drain THEN 0 ELSE Later(row.cap, row.inflight)) \in Nat
      /\ Later(row.cap, row.inflight) \in Nat
  BY <1>1, EarlierLaterType, Zenon DEF SessionRow
<1>3. Drained(row, n) \in SessionRow
  BY <1>1, <1>2, Zenon DEF Drained, SessionRow
<1>4. Reported(row, n) \in SessionRow
  BY <1>2, Zenon DEF Reported, SessionRow
<1>5. ASSUME NEW status \in SessionStatus
      PROVE  ClosedRow(row, status) \in SessionRow
  BY <1>1, <1>2, Zenon DEF ClosedRow, SessionRow
<1>6. RevokedRow(row) \in SessionRow
  BY <1>1, <1>2, Zenon DEF RevokedRow, SessionRow
<1>. QED
  BY <1>3, <1>4, <1>5, <1>6

(* The capacity update of a Node heartbeat preserves the type invariant. *)
LEMMA HeartbeatNodeType ==
  ASSUME TypeOK, NEW n \in Nodes, NEW reported \in Reports, HeartbeatNode(n, reported)
  PROVE  node' \in [Nodes -> NodeRow]
<1>1. node[n] \in NodeRow /\ Later(reported, node[n].inflight) \in Nat
  BY SessionAssumption, EarlierLaterType, ZenonT(40) DEF SessionAssumption, TypeOK, NodeRow
<1>. QED
  BY <1>1, Zenon DEF HeartbeatNode, TypeOK, NodeRow

(* Attach, the binding of a Session to a Core, preserves the type *)
(* invariant.                                                     *)
LEMMA AttachType ==
  ASSUME TypeOK, NEW s \in Sessions, NEW c \in Cores, Attach(s, c)
  PROVE  conns' \in [Sessions -> Seq(Cores)]
<1>1. conns[s] \in Seq(Cores)
  BY DEF TypeOK
<1>2. Append(conns[s], c) \in Seq(Cores)
  BY <1>1
<1>. QED
  BY <1>2, Zenon DEF Attach, TypeOK

(* A step of a Session that writes no Run: the shape of all operations of  *)
(* this component.                                                         *)
LEMMA SessionWriteType ==
  ASSUME TypeInv, NEW s \in Sessions, NEW row \in SessionRow,
         sess' = [sess EXCEPT ![s] = row],
         node' \in [Nodes -> NodeRow], conns' \in [Sessions -> Seq(Cores)],
         UNCHANGED <<now, run, att, cancel, revoked, grant>>
  PROVE  TypeInv'
<1>1. sess' \in [Sessions -> SessionRow]
  BY Zenon DEF TypeInv, TypeOK
<1>. QED
  BY <1>1 DEF TypeInv, TypeOK, ExecutionCounted

(* CreateSession, a worker of a new generation, preserves the type *)
(* invariant.                                                      *)
LEMMA CreateSessionType ==
  ASSUME TypeInv, NEW s \in Sessions, NEW c \in Cores, NEW reported \in Reports,
         CreateSession(s, c, reported)
  PROVE  TypeInv'
<1> DEFINE fresh == [status |-> "active", core |-> c, inflight |-> 0,
                     cap |-> reported, drain |-> FALSE, resume |-> 0]
           row == IF node[NodeOf[s]].status = "draining"
                    THEN Drained(fresh, reported) ELSE fresh
<1>1. /\ reported \in Nat
      /\ NodeOf[s] \in Nodes
      /\ 0 \in Nat
      /\ "active" \in SessionStatus
  BY SessionAssumption DEF SessionAssumption, SessionStatus
<1>2. fresh \in SessionRow
  BY <1>1, Zenon DEF SessionRow
<1>3. row \in SessionRow
  <2>. HIDE DEF fresh
  <2>. QED  BY <1>1, <1>2, SessionRowTypes
<1>4. sess' = [sess EXCEPT ![s] = row]
  BY ZenonT(40) DEF CreateSession
<1>5. node' \in [Nodes -> NodeRow] /\ conns' \in [Sessions -> Seq(Cores)]
  BY <1>1, HeartbeatNodeType, AttachType, Zenon DEF CreateSession, TypeInv
<1>. HIDE DEF row
<1>. QED
  BY <1>3, <1>4, <1>5, SessionWriteType, ZenonT(40) DEF CreateSession

(* AttachSession, a worker coming back to its Session, preserves the type *)
(* invariant.                                                             *)
LEMMA AttachSessionType ==
  ASSUME TypeInv, NEW s \in Sessions, NEW c \in Cores, NEW reported \in Reports,
         AttachSession(s, c, reported)
  PROVE  TypeInv'
<1> DEFINE old == [sess[s] EXCEPT !.core = c]
           base == IF old.drain \/ node[NodeOf[s]].status = "draining"
                     THEN Drained(old, reported) ELSE [old EXCEPT !.status = "active"]
<1>1. reported \in Nat /\ NodeOf[s] \in Nodes /\ "active" \in SessionStatus
  BY SessionAssumption DEF SessionAssumption, SessionStatus
<1>2. old \in SessionRow
  BY ZenonT(40) DEF TypeInv, TypeOK, SessionRow
<1>3. base \in SessionRow
  <2>. HIDE DEF old
  <2>1. [old EXCEPT !.status = "active"] \in SessionRow
    BY <1>1, <1>2, Zenon DEF SessionRow
  <2>. QED  BY <1>1, <1>2, <2>1, SessionRowTypes
<1>4. Reported(base, reported) \in SessionRow
  <2>. HIDE DEF base
  <2>. QED  BY <1>1, <1>3, SessionRowTypes
<1>5. sess' = [sess EXCEPT ![s] = Reported(base, reported)]
  BY DEF AttachSession
<1>6. node' \in [Nodes -> NodeRow] /\ conns' \in [Sessions -> Seq(Cores)]
  BY <1>1, HeartbeatNodeType, AttachType DEF AttachSession, TypeInv
<1>. HIDE DEF base
<1>. QED
  BY <1>4, <1>5, <1>6, SessionWriteType, Zenon DEF AttachSession

(* HeartbeatSession, the liveness report of a Session, preserves the type *)
(* invariant.                                                             *)
LEMMA HeartbeatSessionType ==
  ASSUME TypeInv, NEW s \in Sessions, NEW reported \in Reports,
         HeartbeatSession(s, reported)
  PROVE  TypeInv'
<1>1. reported \in Nat /\ NodeOf[s] \in Nodes /\ sess[s] \in SessionRow
  BY SessionAssumption DEF SessionAssumption, TypeInv, TypeOK
<1>2. node' \in [Nodes -> NodeRow] /\ conns' \in [Sessions -> Seq(Cores)]
  BY <1>1, HeartbeatNodeType DEF HeartbeatSession, TypeInv, TypeOK
<1>3. Reported(sess[s], reported) \in SessionRow
  BY <1>1, SessionRowTypes, Zenon
<1>. QED
  BY <1>2, <1>3, SessionWriteType, ZenonT(40) DEF HeartbeatSession

(* The operations that close or drain one Session. *)
LEMMA CloseSessionType ==
  ASSUME TypeInv, NEW s \in Sessions,
         \/ DrainSession(s)
         \/ \E status \in {"offline", "closed"} : CloseSession(s, status)
         \/ ReapStaleSession(s)
  PROVE  TypeInv'
<1>1. sess[s] \in SessionRow /\ sess[s].cap \in Nat
  BY DEF TypeInv, TypeOK, SessionRow
<1>2. "offline" \in SessionStatus /\ "closed" \in SessionStatus
  BY DEF SessionStatus
<1>3. /\ Drained(sess[s], sess[s].cap) \in SessionRow
      /\ ClosedRow(sess[s], "offline") \in SessionRow
      /\ ClosedRow(sess[s], "closed") \in SessionRow
  BY <1>1, <1>2, SessionRowTypes
<1>4. \E row \in SessionRow : sess' = [sess EXCEPT ![s] = row]
  BY <1>3 DEF DrainSession, CloseSession, ReapStaleSession
<1>5. UNCHANGED <<now, run, att, cancel, conns, node, revoked, grant>>
  BY DEF DrainSession, CloseSession, ReapStaleSession
<1>6. node' \in [Nodes -> NodeRow] /\ conns' \in [Sessions -> Seq(Cores)]
  BY <1>5 DEF TypeInv, TypeOK
<1>. QED
  BY <1>4, <1>5, <1>6, SessionWriteType, ZenonT(40)

(* The operations of an administrator write several Session rows at once. *)
LEMMA AdminWriteType ==
  ASSUME TypeInv, sess' \in [Sessions -> SessionRow], node' \in [Nodes -> NodeRow],
         revoked' \subseteq Creds, UNCHANGED <<now, run, att, cancel, conns, grant>>
  PROVE  TypeInv'
BY DEF TypeInv, TypeOK, ExecutionCounted

(* DrainNode, the start of a maintenance window, preserves the type *)
(* invariant.                                                       *)
LEMMA DrainNodeType ==
  ASSUME TypeInv, NEW n \in Nodes, DrainNode(n)
  PROVE  TypeInv'
<1>1. \A s \in Sessions : /\ sess[s] \in SessionRow
                          /\ Drained(sess[s], sess[s].cap) \in SessionRow
  BY SessionRowTypes, Zenon DEF TypeInv, TypeOK, SessionRow
<1>2. sess' \in [Sessions -> SessionRow]
  BY <1>1, Zenon DEF DrainNode
<1>3. node' \in [Nodes -> NodeRow]
  BY Zenon DEF DrainNode, TypeInv, TypeOK, NodeRow
<1>. QED
  BY <1>2, <1>3, AdminWriteType DEF DrainNode, TypeInv, TypeOK

(* ActivateNode, the end of a maintenance window, preserves the type *)
(* invariant.                                                        *)
LEMMA ActivateNodeType ==
  ASSUME TypeInv, NEW n \in Nodes, NEW fresh \in SUBSET Sessions, ActivateNode(n, fresh)
  PROVE  TypeInv'
<1> DEFINE revived(s) == [sess[s] EXCEPT !.status = "active", !.cap = sess[s].resume,
                                         !.drain = FALSE, !.resume = 0]
<1>1. ASSUME NEW s \in Sessions
      PROVE  sess[s] \in SessionRow /\ revived(s) \in SessionRow
  <2>1. sess[s] \in SessionRow
    BY DEF TypeInv, TypeOK
  <2>2. /\ sess[s].resume \in Nat
        /\ 0 \in Nat
        /\ FALSE \in BOOLEAN
        /\ "active" \in SessionStatus
    BY <2>1 DEF SessionRow, SessionStatus
  <2>. QED
    BY <2>1, <2>2, Zenon DEF SessionRow
<1>2. sess' = [s \in Sessions |-> IF s \in fresh THEN revived(s) ELSE sess[s]]
  BY Zenon DEF ActivateNode
<1>3. sess' \in [Sessions -> SessionRow]
  <2>. HIDE DEF revived
  <2>. QED  BY <1>1, <1>2, Zenon
<1>4. node' \in [Nodes -> NodeRow]
  BY ZenonT(40) DEF ActivateNode, TypeInv, TypeOK, NodeRow
<1>. QED
  BY <1>3, <1>4, AdminWriteType, Zenon DEF ActivateNode, TypeInv, TypeOK

(* RevokeNode, the removal of a Node, preserves the type invariant. *)
LEMMA RevokeNodeType ==
  ASSUME TypeInv, NEW n \in Nodes, RevokeNode(n)
  PROVE  TypeInv'
<1>1. \A s \in Sessions : sess[s] \in SessionRow /\ RevokedRow(sess[s]) \in SessionRow
  BY SessionRowTypes DEF TypeInv, TypeOK
<1>2. sess' \in [Sessions -> SessionRow]
  BY <1>1, Zenon DEF RevokeNode
<1>3. node[n] \in NodeRow /\ Later(node[n].cap, node[n].inflight) \in Nat
  BY EarlierLaterType, Zenon DEF TypeInv, TypeOK, NodeRow
<1>4. node' \in [Nodes -> NodeRow]
  BY <1>3, Zenon DEF RevokeNode, TypeInv, TypeOK, NodeRow
<1>. QED
  BY <1>2, <1>4, AdminWriteType DEF RevokeNode, TypeInv, TypeOK

(* RevokeCredential, the removal of a credential, preserves the type *)
(* invariant.                                                        *)
LEMMA RevokeCredentialType ==
  ASSUME TypeInv, NEW k \in Creds, RevokeCredential(k)
  PROVE  TypeInv'
<1> DEFINE gone(s) == [RevokedRow(sess[s]) EXCEPT !.drain = FALSE, !.resume = 0]
<1>1. ASSUME NEW s \in Sessions
      PROVE  sess[s] \in SessionRow /\ gone(s) \in SessionRow
  <2>1. sess[s] \in SessionRow /\ RevokedRow(sess[s]) \in SessionRow
    BY SessionRowTypes DEF TypeInv, TypeOK
  <2>2. 0 \in Nat /\ FALSE \in BOOLEAN
    OBVIOUS
  <2>. QED
    BY <2>1, <2>2, Zenon DEF SessionRow
<1>2. sess' = [s \in Sessions |-> IF CredOf[s] = k /\ sess[s].status \in Resumable
                                    THEN gone(s) ELSE sess[s]]
  BY Zenon DEF RevokeCredential
<1>3. sess' \in [Sessions -> SessionRow]
  <2>. HIDE DEF gone
  <2>. QED  BY <1>1, <1>2, Zenon
<1>. QED
  BY <1>3, AdminWriteType, Zenon DEF RevokeCredential, TypeInv, TypeOK

-----------------------------------------------------------------------------
(* The empty database is well typed. *)
LEMMA InitType == Init => TypeInv
<1>. SUFFICES ASSUME Init PROVE TypeInv
  OBVIOUS
<1>0. /\ 0 \in Nat
      /\ 0 \in 0 .. MaxOffers
      /\ 0 \in 0 .. MaxAttempts
      /\ "absent" \in RunStatus
      /\ "pending" \in DispatchState
      /\ "none" \in CancelState
      /\ "none" \in Outcome
      /\ "absent" \in SessionStatus
      /\ NULL \in Cores \cup {NULL}
      /\ NULL \in Sessions \cup {NULL}
  BY RunAssumption
     DEF RunAssumption, RunStatus, DispatchState, CancelState, Outcome, SessionStatus
<1>1. run \in [Runs -> RunRow]
  BY <1>0, Zenon DEF Init, RunRow
<1>2. att \in [Attempts -> AttemptRow]
  BY <1>0, Zenon DEF Init, NoAttempt, AttemptRow
<1>3. cancel \in [Runs -> CancelRow]
  BY <1>0, Zenon DEF Init, CancelRow
<1>4. sess \in [Sessions -> SessionRow]
  BY <1>0, Zenon DEF Init, SessionRow
<1>5. conns \in [Sessions -> Seq(Cores)]
  <2>1. conns = [s \in Sessions |-> <<>>]
    BY Zenon DEF Init
  <2>. QED
    BY <2>1
<1>6. node \in [Nodes -> NodeRow]
  <2>1. \A n \in Nodes : NodeCapacity[n] \in Nat
    BY SessionAssumption DEF SessionAssumption
  <2>. QED
    BY <1>0, <2>1, Zenon DEF Init, NodeRow
<1>7. grant \in [Attempts -> GrantRow]
  BY <1>0, Zenon DEF Init, GrantRow
<1>8. ExecutionCounted
  BY Zenon DEF Init, ExecutionCounted
<1>. QED
  BY <1>1, <1>2, <1>3, <1>4, <1>5, <1>6, <1>7, <1>8, ZenonT(40) DEF Init, TypeInv, TypeOK

(* Every step of the Run API and the deadline reconciler preserves the *)
(* type invariant.                                                     *)
LEMMA RunStepType == TypeInv /\ RunStep => TypeInv'
<1>. SUFFICES ASSUME TypeInv, NEW r \in Runs,
                     \/ CreateRun(r) \/ Reconcile(r)
                     \/ ReapCancellation(r) \/ ReapCoreCancellation(r)
              PROVE  TypeInv'
  BY DEF RunStep
<1>1. CASE Reconcile(r)
  <2>1. \A t \in now .. now + 1 : t \in Nat
    BY DEF TypeInv, TypeOK
  <2>. QED
    BY <1>1, <2>1, ReconcileUnassignedType, ReconcileCoreExecutionType,
       ReconcileOfferType, ReconcileRuntimeExecutionType DEF Reconcile
<1>. QED
  BY <1>1, CreateRunType, ReapCancellationType

(* Every step of the lease service preserves the type invariant. *)
LEMMA LeaseStepType == TypeInv /\ LeaseStep => TypeInv'
<1>. SUFFICES ASSUME TypeInv, LeaseStep PROVE TypeInv'
  OBVIOUS
<1>1. ASSUME NEW a \in Attempts, FinishAndReleaseOffer(a, "offer_rejected")
      PROVE  TypeInv'
  BY <1>1, FinishAndReleaseOfferType, Names
<1>. QED
  BY <1>1, ClaimOfferType, AckAssignmentType, RenewLeaseType
     DEF LeaseStep, RejectAssignment, ReleaseUnackedOffer

(* Every step of the Result and Resume services preserves the type *)
(* invariant.                                                      *)
LEMMA ResultStepType == TypeInv /\ ResultStep => TypeInv'
<1>. SUFFICES ASSUME TypeInv, ResultStep PROVE TypeInv'
  OBVIOUS
<1>1. ASSUME NEW a \in Attempts, NEW k \in Results, NEW t \in Nat,
             StoreResult(a, k, TRUE, t) \/ StoreResult(a, k, FALSE, t)
      PROVE  TypeInv'
  BY <1>1, StoreResultType, Zenon
<1>2. now \in Nat /\ now .. now + 1 \subseteq Nat
  BY DEF TypeInv, TypeOK
<1>. QED
  BY <1>1, <1>2, ResumeType, BeginCoreAttemptType, ZenonT(40)
     DEF ResultStep, Finalize, FinalizeCore

(* Every step of the cancellation coordinator and its reapers preserves *)
(* the type invariant.                                                  *)
LEMMA CancelStepType == TypeInv /\ CancelStep => TypeInv'
<1>. SUFFICES ASSUME TypeInv, CancelStep PROVE TypeInv'
  OBVIOUS
<1>1. "delivered" \in CancelState /\ "stopped" \in CancelState
  BY DEF CancelState
<1>2. ASSUME NEW s \in Sessions, NEW r \in Runs, NextCommand(s, r)
      PROVE  TypeInv'
  BY <1>1, <1>2, AdvanceAloneType DEF NextCommand
<1>3. ASSUME NEW c \in Cores, NEW a \in Attempts, AcknowledgeCoreStopped(c, a)
      PROVE  TypeInv'
  BY <1>1, <1>3, AttemptRun, AdvanceAndFinishType DEF AcknowledgeCoreStopped
<1>. QED
  BY <1>2, <1>3, CancelOwnedRunType, AckCancelType DEF CancelStep

(* Every step of the Session service preserves the type invariant. *)
LEMMA SessionStepType == TypeInv /\ SessionStep => TypeInv'
BY CreateSessionType, AttachSessionType, HeartbeatSessionType, CloseSessionType
   DEF SessionStep

(* Every administrative step preserves the type invariant. *)
LEMMA AdminStepType == TypeInv /\ AdminStep => TypeInv'
BY DrainNodeType, ActivateNodeType, RevokeNodeType, RevokeCredentialType DEF AdminStep

(* Every step of the control plane preserves types. *)
LEMMA NextType == TypeInv /\ [Next]_vars => TypeInv'
<1>. SUFFICES ASSUME TypeInv, [Next]_vars PROVE TypeInv'
  OBVIOUS
<1>1. CASE Tick
  BY <1>1 DEF Tick, TypeInv, TypeOK, ExecutionCounted
<1>2. CASE UNCHANGED vars
  BY <1>2 DEF vars, TypeInv, TypeOK, ExecutionCounted
<1>. QED
  BY <1>1, <1>2, RunStepType, LeaseStepType, ResultStepType, CancelStepType,
     SessionStepType, AdminStepType DEF Next

(* TypeInv holds in every reachable state: the counters of attempts and    *)
(* offers stay within the budgets of the Run, and every row keeps the      *)
(* values its columns allow, whatever the services do.                     *)
THEOREM TypeInvariance == Spec => []TypeInv
BY InitType, NextType, PTL DEF Spec

(* TypeOK, the type invariant that TLC checks, for every instance. *)
THEOREM TypeCorrect == Spec => []TypeOK
<1>1. TypeInv => TypeOK
  BY DEF TypeInv
<1>. QED
  BY <1>1, TypeInvariance, PTL

=============================================================================
