----------------------- MODULE RuntimeSettlementProofs -----------------------
(***************************************************************************)
(* Ownership of Runs, the Results they adopt and the evidence of their     *)
(* cancellation, for every instance of the Runtime control plane: the      *)
(* invariant of RuntimeOwnershipProofs is kept by Results, Core executors, *)
(* cancellation and administration, holds initially, and implies the three *)
(* properties.                                                             *)
(***************************************************************************)
EXTENDS RuntimeOwnershipProofs, RuntimeTypeProofs

-----------------------------------------------------------------------------
(* RuntimeResults *)

(* StoreResult, the commit of a Result, preserves the ownership *)
(* invariant.                                                   *)
LEMMA StoreResultOwnership ==
  ASSUME TypeOK, OwnershipInv, NEW a \in Attempts, NEW k \in Results, NEW resumed,
         NEW t, StoreResult(a, k, resumed, t)
  PROVE  OwnershipInv'
<1>1. PICK r \in Runs, n \in Offers : a = <<r, n>> /\ a[1] = r /\ a[2] = n
  BY AttemptPair
<1>2. /\ run[r].active = n
      /\ FinishAttempt(<<r, n>>, OutcomeOf(r, k), k)
      /\ run' = [run EXCEPT ![r] = AfterResult(r, k, t)]
      /\ cancel' = cancel
  BY <1>1 DEF StoreResult, AwaitsResult, OwnsRun
<1>3. OutcomeOf(r, k) # "none"
  BY DEF OutcomeOf, Results
<1>4. CASE AfterResult(r, k, t) = Settled(run[r], "timeout", "terminal", 0)
  BY <1>2, <1>3, <1>4, EndedHeld, ZenonT(40) DEF TerminalDispatch
<1>5. CASE AfterResult(r, k, t) = Settled(run[r], "failed", "dead_letter", n)
  BY <1>2, <1>3, <1>5, EndedHeld, ZenonT(40) DEF TerminalDispatch
<1>6. CASE AfterResult(r, k, t) = Settled(run[r], "failed", "terminal", n)
  BY <1>2, <1>3, <1>6, EndedHeld, ZenonT(40) DEF TerminalDispatch
<1>7. CASE /\ AfterResult(r, k, t) = Settled(run[r], "success", "terminal", n)
           /\ OutcomeOf(r, k) = "success"
  <2>. DEFINE outcome == OutcomeOf(r, k)
  <2>1. FinishAttempt(<<r, n>>, outcome, k) /\ outcome = "success" /\ outcome # "none"
    BY <1>2, <1>3, <1>7
  <2>. HIDE DEF outcome
  <2>. QED
    BY <1>2, <1>7, <2>1, EndedHeld, Zenon DEF TerminalDispatch
<1>8. CASE /\ \E next : AfterResult(r, k, t) = Unassigned(run[r], "retry_wait", next)
           /\ k \notin {"success", "fatal"}
  BY <1>2, <1>3, <1>8, TakenBack, Zenon
<1>9. \/ AfterResult(r, k, t) = Settled(run[r], "timeout", "terminal", 0)
      \/ AfterResult(r, k, t) = Settled(run[r], "failed", "dead_letter", n)
      \/ AfterResult(r, k, t) = Settled(run[r], "failed", "terminal", n)
      \/ /\ AfterResult(r, k, t) = Settled(run[r], "success", "terminal", n)
         /\ OutcomeOf(r, k) = "success"
      \/ /\ \E next : AfterResult(r, k, t) = Unassigned(run[r], "retry_wait", next)
         /\ k \notin {"success", "fatal"}
  BY <1>2 DEF AfterResult, OutcomeOf
<1>. QED
  BY <1>4, <1>5, <1>6, <1>7, <1>8, <1>9

(* BeginCoreAttempt, a Core starting a Run itself, preserves the *)
(* ownership invariant.                                          *)
LEMMA BeginCoreAttemptOwnership ==
  ASSUME TypeOK, OwnershipInv, NEW c \in Cores, NEW r \in Runs, BeginCoreAttempt(c, r)
  PROVE  OwnershipInv'
<1> DEFINE n == run[r].offers + 1
           new == CoreStarted(run[r])
           offer == [executor |-> "core", session |-> NULL, core |-> c,
                     fence |-> run[r].fence + 1, no |-> run[r].attempts + 1,
                     offerExp |-> run[r].runDl, leaseExp |-> run[r].runDl,
                     deadline |-> run[r].runDl, slot |-> NULL,
                     outcome |-> "none", result |-> "none"]
<1>1. /\ run[r].status = "running"
      /\ run[r].active = 0
      /\ run[r].offers < MaxOffers
      /\ run[r] \in RunRow
      /\ run[r].fence = run[r].offers
  BY RowTyped, NumberedRow DEF BeginCoreAttempt, CoreClaimable, ClaimableState
<1>2. n \in Offers
  BY <1>1, RunAssumption DEF RunAssumption, RunRow, Offers
<1>3. /\ offer.executor # "none"
      /\ offer.outcome = "none"
      /\ offer.result = "none"
      /\ offer.fence = n
      /\ offer.leaseExp = run[r].runDl
      /\ offer.no = run[r].attempts + 1
  BY <1>1
<1>4. /\ new.status = run[r].status
      /\ new.dispatch = "executing"
      /\ new.active = n
      /\ new.result = run[r].result
      /\ new.settled = run[r].settled
      /\ new.offers = n
      /\ new.fence = n
      /\ new.latest = n
      /\ new.lease = run[r].runDl
      /\ new.attempts = run[r].attempts + 1
      /\ new.cancel = run[r].cancel
  BY <1>1, CoreStartedRow
<1>5. /\ att' = [att EXCEPT ![<<r, n>>] = offer]
      /\ run' = [run EXCEPT ![r] = new]
      /\ cancel' = cancel
  BY DEF BeginCoreAttempt
<1>6. n = run[r].offers + 1 /\ <<r, n>> \in Attempts
  BY <1>2, OfferId
<1>. HIDE DEF n, offer, new
<1>7. run'[r] = new /\ \A q \in Runs \ {r} : run'[q] = run[q]
  BY <1>5, Zenon DEF TypeOK
<1>8. att'[<<r, n>>] = offer /\ \A b \in Attempts \ {<<r, n>>} : att'[b] = att[b]
  BY <1>5, <1>6, Zenon DEF TypeOK
<1>9. OfferWritten(r, n)
  BY <1>1, <1>3, <1>4, <1>7, <1>8 DEF OfferWritten
<1>. QED
  BY <1>1, <1>2, <1>5, <1>6, <1>7, <1>8, <1>9, Offered

(* Every step of the Result and Resume services preserves the ownership *)
(* invariant.                                                           *)
LEMMA ResultStepOwnership == TypeOK /\ OwnershipInv /\ ResultStep => OwnershipInv'
<1>. SUFFICES ASSUME TypeOK, OwnershipInv, ResultStep PROVE OwnershipInv'
  OBVIOUS
<1>1. ASSUME NEW s, NEW a, NEW stored, Resume(s, a, stored)
      PROVE  OwnershipInv'
  BY <1>1, FrameUnchanged DEF Resume
<1>. QED
  BY <1>1, StoreResultOwnership, BeginCoreAttemptOwnership, Zenon
     DEF ResultStep, Finalize, FinalizeCore

-----------------------------------------------------------------------------
(* RuntimeCancellation *)

(* What Advance changes: the state of the cancellation and its mirror. *)
LEMMA AdvancedRow ==
  ASSUME TypeOK, NEW r \in Runs, NEW state, Advance(r, state)
  PROVE  /\ \A q \in Runs \ {r} : run'[q] = run[q] /\ cancel'[q] = cancel[q]
         /\ run'[r].cancel = state
         /\ run'[r].status = run[r].status
         /\ run'[r].dispatch = run[r].dispatch
         /\ run'[r].active = run[r].active
         /\ run'[r].result = run[r].result
         /\ run'[r].settled = run[r].settled
         /\ run'[r].offers = run[r].offers
         /\ run'[r].fence = run[r].fence
         /\ run'[r].latest = run[r].latest
         /\ cancel'[r].state = state
         /\ cancel'[r].target = cancel[r].target
<1> DEFINE row == [run[r] EXCEPT !.cancel = state]
           new == [cancel[r] EXCEPT !.state = state]
<1>1. run' = [run EXCEPT ![r] = row] /\ cancel' = [cancel EXCEPT ![r] = new]
  BY Zenon DEF Advance, TypeOK
<1>2. /\ row.cancel = state
      /\ row.status = run[r].status
      /\ row.dispatch = run[r].dispatch
      /\ row.active = run[r].active
      /\ row.result = run[r].result
      /\ row.settled = run[r].settled
      /\ row.offers = run[r].offers
      /\ row.fence = run[r].fence
      /\ row.latest = run[r].latest
  BY ZenonT(40) DEF TypeOK, RunRow
<1>3. new.state = state /\ new.target = cancel[r].target
  BY Zenon DEF TypeOK, CancelRow
<1>. HIDE DEF row, new
<1>4. /\ run'[r] = row
      /\ cancel'[r] = new
      /\ \A q \in Runs \ {r} : run'[q] = run[q] /\ cancel'[q] = cancel[q]
  BY <1>1, Zenon DEF TypeOK
<1>. QED
  BY <1>2, <1>3, <1>4, Zenon

(* A command is delivered, or the worker answers without having stopped:   *)
(* the target stays unfinished.                                            *)
LEMMA AdvanceAloneOwnership ==
  ASSUME TypeOK, OwnershipInv, NEW r \in Runs, run[r].status = "canceled",
         cancel[r].target # 0, cancel[r].state \in Waiting,
         NEW state \in {"delivered", "stopping", "unsupported", "failed"}, Advance(r, state),
         att' = att
  PROVE  OwnershipInv'
<1>1. /\ \A q \in Runs \ {r} : run'[q] = run[q] /\ cancel'[q] = cancel[q]
      /\ run'[r].cancel = state
      /\ run'[r].status = run[r].status
      /\ run'[r].dispatch = run[r].dispatch
      /\ run'[r].active = run[r].active
      /\ run'[r].result = run[r].result
      /\ run'[r].settled = run[r].settled
      /\ run'[r].offers = run[r].offers
      /\ run'[r].fence = run[r].fence
      /\ run'[r].latest = run[r].latest
      /\ cancel'[r].state = state
      /\ cancel'[r].target = cancel[r].target
  BY AdvancedRow
<1>2. RowInv(r) /\ run[r].active = 0
  BY DEF OwnershipInv, RowInv
<1>3. RowInv(r)'
  BY <1>1, <1>2 DEF RowInv
<1>4. ASSUME NEW n \in Offers PROVE OfferInv(r, n)'
  <2>1. OfferInv(r, n) /\ n # 0
    BY DEF OwnershipInv, Offers
  <2>. QED
    BY <1>1, <1>2, <2>1 DEF OfferInv, Unfinished, Waiting
<1>. QED
  BY <1>1, <1>3, <1>4, Frame

(* The target of a cancellation finishes: a confirmed stop or the reaper. *)
LEMMA AdvanceAndFinishOwnership ==
  ASSUME TypeOK, OwnershipInv, NEW r \in Runs, run[r].status = "canceled",
         NEW n \in Offers, cancel[r].target = n,
         NEW state \in {"stopped", "unconfirmed", "unsupported", "failed"}, Advance(r, state),
         FinishAttempt(<<r, n>>, "canceled", "none")
  PROVE  OwnershipInv'
<1>1. /\ \A q \in Runs \ {r} : run'[q] = run[q] /\ cancel'[q] = cancel[q]
      /\ run'[r].cancel = state
      /\ run'[r].status = run[r].status
      /\ run'[r].dispatch = run[r].dispatch
      /\ run'[r].active = run[r].active
      /\ run'[r].result = run[r].result
      /\ run'[r].settled = run[r].settled
      /\ run'[r].offers = run[r].offers
      /\ run'[r].fence = run[r].fence
      /\ run'[r].latest = run[r].latest
      /\ cancel'[r].state = state
      /\ cancel'[r].target = cancel[r].target
  BY AdvancedRow
<1> DEFINE a == <<r, n>>
<1>2. a \in Attempts /\ n # 0
  BY OfferId DEF Offers
<1>3. /\ \A b \in Attempts \ {a} : att'[b] = att[b]
      /\ att'[a].outcome = "canceled"
      /\ att'[a].result = "none"
      /\ att'[a].slot = NULL
      /\ att'[a].executor = att[a].executor
      /\ att'[a].fence = att[a].fence
  BY <1>2, FinishedRow
<1>4. RowInv(r) /\ run[r].active = 0
  BY DEF OwnershipInv, RowInv
<1>5. RowInv(r)'
  BY <1>1, <1>2, <1>4 DEF RowInv, Waiting
<1>6. ASSUME NEW m \in Offers PROVE OfferInv(r, m)'
  <2>1. OfferInv(r, m) /\ m # 0
    BY DEF OwnershipInv, Offers
  <2>2. CASE m = n
    BY <1>1, <1>3, <1>4, <2>1, <2>2 DEF OfferInv, Unfinished, Waiting
  <2>3. CASE m # n
    <3>1. att'[<<r, m>>] = att[<<r, m>>]
      BY <1>3, <2>3, OfferId
    <3>. QED
      BY <1>1, <1>4, <2>1, <2>3, <3>1 DEF OfferInv, Unfinished
  <2>. QED
    BY <2>2, <2>3
<1>7. \A q \in Runs \ {r} : \A m \in Offers : att'[<<q, m>>] = att[<<q, m>>]
  BY <1>3, OfferId, Zenon
<1>. QED
  BY <1>1, <1>5, <1>6, <1>7, Frame

(* CancelOwnedRun: the Run ends and its active attempt becomes the target. *)
LEMMA CancelOwnedRunOwnership ==
  ASSUME TypeOK, OwnershipInv, NEW r \in Runs, CancelOwnedRun(r)
  PROVE  OwnershipInv'
<1> DEFINE state == IF run[r].active = 0 THEN "stopped" ELSE "requested"
           ended == Settled(run[r], "canceled", "terminal", 0)
           new == [ended EXCEPT !.cancel = state]
           row == [state |-> state, target |-> run[r].active, at |-> now]
<1>1. /\ run' = [run EXCEPT ![r] = new]
      /\ cancel' = [cancel EXCEPT ![r] = row]
      /\ att' = att
      /\ run[r].status = "running"
  BY DEF CancelOwnedRun, CanceledRun
<1>2. "canceled" \in RunStatus /\ "terminal" \in DispatchState /\ run[r] \in RunRow
  BY Names DEF TypeOK
<1>3. /\ ended.status = "canceled"
      /\ ended.dispatch = "terminal"
      /\ ended.active = 0
      /\ ended.result = 0
      /\ ended.settled = run[r].settled + 1
      /\ ended.offers = run[r].offers
      /\ ended.fence = run[r].fence
      /\ ended.latest = run[r].latest
  BY <1>2, SettledRow
<1>4. ended \in RunRow
  BY <1>2, RunAssumption, EndedType DEF RunAssumption, Terminal, TerminalDispatch
<1>5. row.state = state /\ row.target = run[r].active
  OBVIOUS
<1>. HIDE DEF ended, state
<1>6. /\ new.status = ended.status
      /\ new.dispatch = ended.dispatch
      /\ new.active = ended.active
      /\ new.result = ended.result
      /\ new.settled = ended.settled
      /\ new.offers = ended.offers
      /\ new.fence = ended.fence
      /\ new.latest = ended.latest
      /\ new.cancel = state
  BY <1>4, Zenon DEF RunRow
<1>. HIDE DEF new, row
<1>7. /\ run'[r] = new
      /\ cancel'[r] = row
      /\ \A q \in Runs \ {r} : run'[q] = run[q] /\ cancel'[q] = cancel[q]
  BY <1>1, Zenon DEF TypeOK
<1>8. RowInv(r)
  BY DEF OwnershipInv
<1>9. RowInv(r)'
  BY <1>1, <1>3, <1>5, <1>6, <1>7, <1>8 DEF RowInv, state, Terminal, TerminalDispatch, Waiting
<1>10. ASSUME NEW n \in Offers PROVE OfferInv(r, n)'
  <2>1. OfferInv(r, n) /\ n # 0
    BY DEF OwnershipInv, Offers
  <2>2. /\ run'[r].status = "canceled"
        /\ run'[r].active = 0
        /\ run'[r].result = 0
        /\ run'[r].offers = run[r].offers
        /\ cancel'[r].target = run[r].active
        /\ cancel'[r].state = IF run[r].active = 0 THEN "stopped" ELSE "requested"
    BY <1>3, <1>5, <1>6, <1>7 DEF state
  <2>. QED
    BY <1>1, <2>1, <2>2 DEF OfferInv, Unfinished, Waiting
<1>. QED
  BY <1>1, <1>7, <1>9, <1>10, Frame

(* The attempt that a cancellation targets is an offer of its Run. *)
LEMMA TargetOffer ==
  ASSUME TypeOK, NEW r \in Runs, cancel[r].target # 0
  PROVE  \E n \in Offers : cancel[r].target = n /\ Target(r) = <<r, n>>
<1>1. cancel[r].target \in 1 .. MaxOffers
  BY RunAssumption DEF RunAssumption, TypeOK, CancelRow
<1>. QED
  BY <1>1 DEF Target, Offers

(* AckCancel, a worker reporting on a cancellation, preserves the *)
(* ownership invariant.                                           *)
LEMMA AckCancelOwnership ==
  ASSUME TypeOK, OwnershipInv, NEW s, NEW r \in Runs,
         NEW state \in AckState, AckCancel(s, r, state)
  PROVE  OwnershipInv'
<1>1. PICK n \in Offers : cancel[r].target = n /\ Target(r) = <<r, n>>
  BY TargetOffer DEF AckCancel, CancelPrincipal
<1>2. /\ run[r].status = "canceled"
      /\ cancel[r].target # 0
      /\ cancel[r].state \in Waiting
      /\ Advance(r, state)
  BY DEF AckCancel, CancelPrincipal, TransitionAllowed, Waiting
<1>3. CASE state = "stopped"
  <2>1. FinishAttempt(<<r, n>>, "canceled", "none")
    BY <1>1, <1>3 DEF AckCancel
  <2>. QED
    BY <1>1, <1>2, <1>3, <2>1, AdvanceAndFinishOwnership
<1>4. CASE state # "stopped"
  <2>1. state \in {"delivered", "stopping", "unsupported", "failed"} /\ att' = att
    BY <1>4 DEF AckCancel, AckState, AckFinalState
  <2>. QED
    BY <1>2, <2>1, AdvanceAloneOwnership
<1>. QED
  BY <1>3, <1>4

(* AcknowledgeCoreStopped, a Core confirming that it stopped, preserves *)
(* the ownership invariant.                                             *)
LEMMA AcknowledgeCoreStoppedOwnership ==
  ASSUME TypeOK, OwnershipInv, NEW c, NEW a \in Attempts, AcknowledgeCoreStopped(c, a)
  PROVE  OwnershipInv'
<1>1. PICK r \in Runs, n \in Offers : a = <<r, n>> /\ a[1] = r /\ a[2] = n
  BY AttemptPair
<1>2. /\ run[r].status = "canceled"
      /\ cancel[r].target = n
      /\ Advance(r, "stopped")
      /\ FinishAttempt(<<r, n>>, "canceled", "none")
  BY <1>1 DEF AcknowledgeCoreStopped
<1>. QED
  BY <1>2, AdvanceAndFinishOwnership

(* The reapers of overdue cancellations preserve the ownership invariant. *)
LEMMA ReapCancellationOwnership ==
  ASSUME TypeOK, OwnershipInv, NEW r \in Runs,
         ReapCancellation(r) \/ ReapCoreCancellation(r)
  PROVE  OwnershipInv'
<1>1. PICK n \in Offers : cancel[r].target = n /\ Target(r) = <<r, n>>
  BY TargetOffer DEF ReapCancellation, ReapCoreCancellation, CancellationDue
<1>2. /\ run[r].status = "canceled"
      /\ FinishAttempt(<<r, n>>, "canceled", "none")
  BY <1>1 DEF ReapCancellation, ReapCoreCancellation, CancellationDue
<1>3. PICK state \in {"unconfirmed", "unsupported", "failed"} : Advance(r, state)
  BY DEF ReapCancellation, ReapCoreCancellation
<1>. QED
  BY <1>1, <1>2, <1>3, AdvanceAndFinishOwnership

(* Every step of the cancellation coordinator and its reapers preserves *)
(* the ownership invariant.                                             *)
LEMMA CancelStepOwnership == TypeOK /\ OwnershipInv /\ CancelStep => OwnershipInv'
<1>. SUFFICES ASSUME TypeOK, OwnershipInv, CancelStep PROVE OwnershipInv'
  OBVIOUS
<1>1. ASSUME NEW s \in Sessions, NEW r \in Runs, NextCommand(s, r)
      PROVE  OwnershipInv'
  <2>1. /\ run[r].status = "canceled"
        /\ cancel[r].target # 0
        /\ cancel[r].state \in Waiting
        /\ Advance(r, "delivered")
        /\ att' = att
    BY <1>1 DEF NextCommand, CommandPending, CancelPrincipal, Waiting
  <2>. QED
    BY <2>1, AdvanceAloneOwnership
<1>. QED
  BY <1>1, CancelOwnedRunOwnership, AckCancelOwnership, AcknowledgeCoreStoppedOwnership
     DEF CancelStep

-----------------------------------------------------------------------------
(* The steps of Sessions, Nodes and the clock leave the Runs alone. *)
LEMMA SessionStepOwnership == OwnershipInv /\ (Tick \/ SessionStep \/ AdminStep) => OwnershipInv'
<1>1. ASSUME OwnershipInv, Tick PROVE OwnershipInv'
  BY <1>1, FrameUnchanged DEF Tick
<1>2. ASSUME OwnershipInv, SessionStep PROVE OwnershipInv'
  <2>1. UNCHANGED <<run, att, cancel>>
    <3>1. ASSUME NEW s, NEW c, NEW reported,
                 CreateSession(s, c, reported) \/ AttachSession(s, c, reported)
          PROVE  UNCHANGED <<run, att, cancel>>
      BY <3>1, Zenon DEF CreateSession, AttachSession
    <3>2. ASSUME NEW s, NEW reported, HeartbeatSession(s, reported)
          PROVE  UNCHANGED <<run, att, cancel>>
      BY <3>2 DEF HeartbeatSession
    <3>3. ASSUME NEW s, NEW status,
                 DrainSession(s) \/ CloseSession(s, status) \/ ReapStaleSession(s)
          PROVE  UNCHANGED <<run, att, cancel>>
      BY <3>3 DEF DrainSession, CloseSession, ReapStaleSession
    <3>. QED
      BY <1>2, <3>1, <3>2, <3>3 DEF SessionStep
  <2>. QED
    BY <1>2, <2>1, FrameUnchanged
<1>3. ASSUME OwnershipInv, AdminStep PROVE OwnershipInv'
  <2>1. UNCHANGED <<run, att, cancel>>
    BY <1>3, Zenon DEF AdminStep, DrainNode, ActivateNode, RevokeNode, RevokeCredential
  <2>. QED
    BY <1>3, <2>1, FrameUnchanged
<1>. QED
  BY <1>1, <1>2, <1>3

(* Every step of the Run API and the deadline reconciler preserves the *)
(* ownership invariant.                                                *)
LEMMA RunStepOwnership == TypeOK /\ OwnershipInv /\ RunStep => OwnershipInv'
<1>. SUFFICES ASSUME TypeOK, OwnershipInv, NEW r \in Runs,
                     \/ CreateRun(r) \/ Reconcile(r)
                     \/ ReapCancellation(r) \/ ReapCoreCancellation(r)
              PROVE  OwnershipInv'
  BY DEF RunStep
<1>. QED
  BY CreateRunOwnership, ReconcileUnassignedOwnership, ReconcileCoreExecutionOwnership,
     ReconcileOfferOwnership, ReconcileRuntimeExecutionOwnership, ReapCancellationOwnership
     DEF Reconcile

(* The empty database satisfies the ownership invariant. *)
LEMMA InitOwnership == Init => OwnershipInv
<1>. SUFFICES ASSUME Init PROVE OwnershipInv
  OBVIOUS
<1>1. ASSUME NEW r \in Runs PROVE RowInv(r)
  BY DEF Init, RowInv, Terminal, TerminalDispatch, Waiting
<1>2. ASSUME NEW r \in Runs, NEW n \in Offers PROVE OfferInv(r, n)
  <2>1. att[<<r, n>>] = NoAttempt
    BY OfferId DEF Init
  <2>2. n \in Nat /\ n > 0 /\ run[r].offers = 0 /\ run[r].active = 0 /\ cancel[r].target = 0
        /\ run[r].status = "absent"
    BY RunAssumption DEF RunAssumption, Init, Offers
  <2>3. /\ NoAttempt.executor = "none"
        /\ NoAttempt.outcome = "none"
        /\ NoAttempt.result = "none"
    BY DEF NoAttempt
  <2>. QED
    BY <2>1, <2>2, <2>3 DEF OfferInv, Unfinished
<1>. QED
  BY <1>1, <1>2 DEF OwnershipInv

(* The invariant holds in every reachable state, of any number of Runs,    *)
(* Sessions, Nodes and Cores and any durations and budgets.                *)
THEOREM OwnershipInvariance == Spec => [](TypeInv /\ OwnershipInv)
<1>1. Init => OwnershipInv
  BY InitOwnership
<1>2. TypeInv /\ OwnershipInv /\ [Next]_vars => OwnershipInv'
  <2>. SUFFICES ASSUME TypeInv, OwnershipInv, [Next]_vars PROVE OwnershipInv'
    OBVIOUS
  <2>1. CASE UNCHANGED vars
    BY <2>1, FrameUnchanged DEF vars
  <2>. QED
    BY <2>1, RunStepOwnership, LeaseStepOwnership, ResultStepOwnership, CancelStepOwnership,
       SessionStepOwnership DEF Next, TypeInv
<1>. QED
  BY <1>1, <1>2, TypeInvariance, PTL DEF Spec

-----------------------------------------------------------------------------
(* A running Run that is offered or executing is held by exactly one       *)
(* attempt, with the Run's fencing token and lease; every other attempt    *)
(* has finished, or is the target of a cancellation.                       *)
THEOREM OwnershipCorrect == Spec => []Ownership
<1>1. TypeInv /\ OwnershipInv => Ownership
  <2>. SUFFICES ASSUME TypeInv, OwnershipInv, NEW r \in Runs
                PROVE  /\ run[r].active # 0 <=>
                            /\ run[r].status = "running"
                            /\ run[r].dispatch \in {"offered", "executing"}
                       /\ run[r].active # 0 =>
                            LET a == Active(r) IN
                            /\ run[r].active = run[r].latest
                            /\ Unfinished(a)
                            /\ att[a].result = "none"
                            /\ att[a].fence = run[r].fence
                            /\ att[a].leaseExp = run[r].lease
                            /\ att[a].no = IF run[r].dispatch = "offered"
                                             THEN 0 ELSE run[r].attempts
                       /\ \A a \in AttemptsOf(r) : Unfinished(a) =>
                            \/ a[2] = run[r].active
                            \/ run[r].status = "canceled" /\ a[2] = cancel[r].target
    BY DEF Ownership
  <2>1. RowInv(r) /\ \A n \in Offers : OfferInv(r, n)
    BY DEF OwnershipInv
  <2>2. ASSUME run[r].active # 0
        PROVE  /\ Unfinished(Active(r))
               /\ att[Active(r)].result = "none"
               /\ att[Active(r)].fence = run[r].fence
               /\ att[Active(r)].leaseExp = run[r].lease
               /\ att[Active(r)].no = IF run[r].dispatch = "offered" THEN 0 ELSE run[r].attempts
    <3>1. run[r].active \in Offers
      BY <2>2, RunAssumption DEF RunAssumption, TypeInv, TypeOK, RunRow, Offers
    <3>. QED
      BY <2>1, <2>2, <3>1 DEF RowInv, OfferInv, Active, Unfinished
  <2>3. ASSUME NEW a \in AttemptsOf(r), Unfinished(a)
        PROVE  \/ a[2] = run[r].active
               \/ run[r].status = "canceled" /\ a[2] = cancel[r].target
    <3>1. PICK n \in Offers : a = <<r, n>> /\ a[2] = n
      BY AttemptPair DEF AttemptsOf
    <3>. QED
      BY <2>1, <2>3, <3>1 DEF OfferInv
  <2>4. run[r].active # 0 => run[r].active = run[r].latest
    BY <2>1 DEF RowInv
  <2>. QED
    BY <2>1, <2>2, <2>3, <2>4, ZenonT(40) DEF RowInv
<1>. QED
  BY <1>1, OwnershipInvariance, PTL

(* A Run ends exactly once, succeeds only with the stored success of the   *)
(* attempt whose Result it adopts, and no final Result is stored for a Run *)
(* that goes on or that was cancelled.                                     *)
THEOREM ResultAdoptedCorrect == Spec => []ResultAdopted
<1>1. TypeInv /\ OwnershipInv => ResultAdopted
  <2>. SUFFICES ASSUME TypeInv, OwnershipInv, NEW r \in Runs
                PROVE  LET final == {a \in AttemptsOf(r) : att[a].result \in {"success", "fatal"}} IN
                       /\ run[r].settled = IF run[r].status \in Terminal THEN 1 ELSE 0
                       /\ run[r].status = "success" => att[<<r, run[r].result>>].outcome = "success"
                       /\ run[r].result # 0 => run[r].result = run[r].latest
                       /\ final # {} => /\ run[r].status \in {"success", "failed", "timeout"}
                                        /\ final = {<<r, run[r].latest>>}
    BY DEF ResultAdopted
  <2>. DEFINE final == {a \in AttemptsOf(r) : att[a].result \in {"success", "fatal"}}
  <2>1. RowInv(r) /\ \A n \in Offers : OfferInv(r, n)
    BY DEF OwnershipInv
  <2>2. run[r].status = "success" => att[<<r, run[r].result>>].outcome = "success"
    <3>1. run[r].result # 0 => run[r].result \in Offers
      BY RunAssumption DEF RunAssumption, TypeInv, TypeOK, RunRow, Offers
    <3>. QED
      BY <2>1, <3>1 DEF RowInv, OfferInv
  <2>3. ASSUME NEW a \in final
        PROVE  a = <<r, run[r].latest>> /\ run[r].status \in {"success", "failed", "timeout"}
    <3>1. PICK n \in Offers : a = <<r, n>> /\ a[2] = n
      BY AttemptPair DEF AttemptsOf
    <3>. QED
      BY <2>1, <2>3, <3>1 DEF OfferInv
  <2>4. final # {} => /\ run[r].status \in {"success", "failed", "timeout"}
                      /\ final = {<<r, run[r].latest>>}
    <3>. HIDE DEF final
    <3>. QED  BY <2>3
  <2>. QED
    BY <2>1, <2>2, <2>4 DEF RowInv
<1>. QED
  BY <1>1, OwnershipInvariance, PTL

(* A cancellation and its mirror on the Run agree, and a stopped or reaped *)
(* cancellation has ended its target and freed its slot.                   *)
THEOREM CancellationEvidenceCorrect == Spec => []CancellationEvidence
<1>1. TypeInv /\ OwnershipInv => CancellationEvidence
  <2>. SUFFICES ASSUME TypeInv, OwnershipInv, NEW r \in Runs
                PROVE  /\ run[r].cancel = cancel[r].state
                       /\ cancel[r].state # "none" <=> run[r].status = "canceled"
                       /\ cancel[r].target # 0 =>
                            /\ cancel[r].target = run[r].latest
                            /\ cancel[r].state \in {"stopped", "unconfirmed"} =>
                                 /\ att[Target(r)].outcome = "canceled"
                                 /\ att[Target(r)].slot = NULL
                       /\ cancel[r].state \in Waiting => Unfinished(Target(r))
    BY DEF CancellationEvidence, Waiting
  <2>1. RowInv(r) /\ \A n \in Offers : OfferInv(r, n)
    BY DEF OwnershipInv
  <2>2. CASE cancel[r].target = 0
    BY <2>1, <2>2 DEF RowInv
  <2>3. CASE cancel[r].target # 0
    <3>1. PICK n \in Offers : cancel[r].target = n /\ Target(r) = <<r, n>>
      BY <2>3, TargetOffer DEF TypeInv
    <3>2. OfferInv(r, n)
      BY <2>1
    <3>. QED
      BY <2>1, <3>1, <3>2, Zenon DEF RowInv, OfferInv, Unfinished
  <2>. QED
    BY <2>2, <2>3
<1>. QED
  BY <1>1, OwnershipInvariance, PTL

=============================================================================
