------------------------ MODULE RuntimeFinalityProofs ------------------------
(***************************************************************************)
(* What no step of the Runtime control plane does: touch an attempt that   *)
(* no longer holds its Run, or change how a Run ended.  Both follow from   *)
(* the invariant of RuntimeOwnershipProofs, one transaction at a time.     *)
(***************************************************************************)
EXTENDS RuntimeSettlementProofs

(* The attempts that a step may still change. *)
Touchable(a) ==
  /\ Unfinished(a)
  /\ \/ run[a[1]].status = "running" /\ run[a[1]].active = a[2]
     \/ run[a[1]].status = "canceled" /\ cancel[a[1]].target = a[2]

AttemptsInert ==
  \A a \in Attempts : att[a].executor # "none" /\ att'[a] # att[a] => Touchable(a)

(* A step that writes one attempt row is inert when the row is touchable   *)
(* or not yet used.                                                        *)
LEMMA OneAttempt ==
  ASSUME NEW a \in Attempts, \A b \in Attempts \ {a} : att'[b] = att[b],
         att[a].executor = "none" \/ Touchable(a)
  PROVE  AttemptsInert
BY DEF AttemptsInert

(* The attempt that holds a Run is touchable. *)
LEMMA HolderTouchable ==
  ASSUME OwnershipInv, NEW r \in Runs, NEW n \in Offers, run[r].active = n
  PROVE  Touchable(<<r, n>>)
<1>1. RowInv(r) /\ OfferInv(r, n) /\ n # 0
  BY DEF OwnershipInv, Offers
<1>. QED
  BY <1>1 DEF Touchable, RowInv, OfferInv

(* So is the unfinished target of a cancellation. *)
LEMMA TargetTouchable ==
  ASSUME NEW r \in Runs, NEW n \in Offers, cancel[r].target = n,
         run[r].status = "canceled", Unfinished(<<r, n>>)
  PROVE  Touchable(<<r, n>>)
BY DEF Touchable

(* The next offer of a Run has no attempt row yet. *)
LEMMA NextOfferUnused ==
  ASSUME TypeOK, OwnershipInv, NEW r \in Runs, run[r].offers < MaxOffers
  PROVE  LET a == <<r, run[r].offers + 1>> IN a \in Attempts /\ att[a].executor = "none"
<1>1. run[r].offers \in Nat /\ run[r].offers + 1 \in Offers
  BY RowTyped, RunAssumption DEF RunAssumption, Offers
<1>2. OfferInv(r, run[r].offers + 1) /\ ~(run[r].offers + 1 <= run[r].offers)
  BY <1>1 DEF OwnershipInv
<1>. QED
  BY <1>1, <1>2, OfferId DEF OfferInv

(* FinishAttempt on the holder, or on the target of a cancellation. *)
LEMMA FinishInert ==
  ASSUME TypeOK, NEW r \in Runs, NEW n \in Offers, Touchable(<<r, n>>),
         NEW outcome, NEW result, FinishAttempt(<<r, n>>, outcome, result)
  PROVE  AttemptsInert
<1>1. <<r, n>> \in Attempts
  BY OfferId
<1>. QED
  BY <1>1, FinishedRow, OneAttempt

(* Every step of the lease service writes only attempts that may still be *)
(* written.                                                               *)
LEMMA LeaseStepInert == TypeOK /\ OwnershipInv /\ LeaseStep => AttemptsInert
<1>. SUFFICES ASSUME TypeOK, OwnershipInv, LeaseStep PROVE AttemptsInert
  OBVIOUS
<1>1. ASSUME NEW s, NEW r \in Runs, ClaimOffer(s, r) PROVE AttemptsInert
  <2>1. run[r].offers < MaxOffers
    BY <1>1 DEF ClaimOffer, Claimable, ClaimableState
  <2>. DEFINE a == <<r, run[r].offers + 1>>
  <2>2. a \in Attempts /\ att[a].executor = "none"
    BY <2>1, NextOfferUnused
  <2>3. \A b \in Attempts \ {a} : att'[b] = att[b]
    BY <1>1, Zenon DEF ClaimOffer, TypeOK
  <2>. QED
    BY <2>2, <2>3, OneAttempt
<1>2. ASSUME NEW s, NEW a \in Attempts,
             \/ AckAssignment(s, a) \/ RenewLease(s, a)
             \/ FinishAndReleaseOffer(a, "offer_rejected")
      PROVE  AttemptsInert
  <2>1. PICK r \in Runs, n \in Offers : a = <<r, n>> /\ a[1] = r /\ a[2] = n
    BY AttemptPair
  <2>2. run[r].active = n
    BY <1>2, <2>1 DEF AckAssignment, RenewLease, FinishAndReleaseOffer, OwnsRun
  <2>3. Touchable(a)
    BY <2>1, <2>2, HolderTouchable
  <2>4. CASE AckAssignment(s, a)
    <3>1. \A b \in Attempts \ {a} : att'[b] = att[b]
      BY <2>4, Zenon DEF AckAssignment, TypeOK
    <3>. QED
      BY <2>3, <3>1, OneAttempt
  <2>5. CASE RenewLease(s, a)
    <3>1. \A b \in Attempts \ {a} : att'[b] = att[b]
      BY <2>5, Zenon DEF RenewLease, TypeOK
    <3>. QED
      BY <2>3, <3>1, OneAttempt
  <2>6. CASE FinishAndReleaseOffer(a, "offer_rejected")
    BY <2>1, <2>3, <2>6, FinishInert DEF FinishAndReleaseOffer
  <2>. QED
    BY <1>2, <2>4, <2>5, <2>6
<1>. QED
  BY <1>1, <1>2 DEF LeaseStep, RejectAssignment, ReleaseUnackedOffer

(* Every step of the Result and Resume services writes only attempts that *)
(* may still be written.                                                  *)
LEMMA ResultStepInert == TypeOK /\ OwnershipInv /\ ResultStep => AttemptsInert
<1>. SUFFICES ASSUME TypeOK, OwnershipInv, ResultStep PROVE AttemptsInert
  OBVIOUS
<1>1. ASSUME NEW a \in Attempts, NEW k, NEW resumed, NEW t,
             StoreResult(a, k, resumed, t)
      PROVE  AttemptsInert
  <2>1. PICK r \in Runs, n \in Offers : a = <<r, n>> /\ a[1] = r /\ a[2] = n
    BY AttemptPair
  <2>2. run[r].active = n /\ FinishAttempt(<<r, n>>, OutcomeOf(r, k), k)
    BY <1>1, <2>1 DEF StoreResult, AwaitsResult, OwnsRun
  <2>. QED
    BY <2>2, HolderTouchable, FinishInert
<1>2. ASSUME NEW c, NEW r \in Runs, BeginCoreAttempt(c, r) PROVE AttemptsInert
  <2>1. run[r].offers < MaxOffers
    BY <1>2 DEF BeginCoreAttempt, CoreClaimable, ClaimableState
  <2>. DEFINE a == <<r, run[r].offers + 1>>
  <2>2. a \in Attempts /\ att[a].executor = "none"
    BY <2>1, NextOfferUnused
  <2>3. \A b \in Attempts \ {a} : att'[b] = att[b]
    BY <1>2, Zenon DEF BeginCoreAttempt, TypeOK
  <2>. QED
    BY <2>2, <2>3, OneAttempt
<1>3. ASSUME NEW s, NEW a, NEW stored, Resume(s, a, stored) PROVE AttemptsInert
  BY <1>3 DEF Resume, AttemptsInert
<1>. QED
  BY <1>1, <1>2, <1>3, Zenon DEF ResultStep, Finalize, FinalizeCore

(* Every step of the cancellation coordinator and its reapers writes only *)
(* attempts that may still be written.                                    *)
LEMMA CancelStepInert == TypeOK /\ OwnershipInv /\ CancelStep => AttemptsInert
<1>. SUFFICES ASSUME TypeOK, OwnershipInv, CancelStep PROVE AttemptsInert
  OBVIOUS
<1>1. ASSUME NEW s, NEW r \in Runs, NEW state, AckCancel(s, r, state) PROVE AttemptsInert
  <2>1. CASE state = "stopped"
    <3>1. PICK n \in Offers : cancel[r].target = n /\ Target(r) = <<r, n>>
      BY <1>1, TargetOffer DEF AckCancel, CancelPrincipal
    <3>2. /\ run[r].status = "canceled"
          /\ Unfinished(<<r, n>>)
          /\ FinishAttempt(<<r, n>>, "canceled", "none")
      BY <1>1, <2>1, <3>1 DEF AckCancel, CancelPrincipal
    <3>. QED
      BY <3>1, <3>2, TargetTouchable, FinishInert
  <2>2. CASE state # "stopped"
    BY <1>1, <2>2 DEF AckCancel, AttemptsInert
  <2>. QED
    BY <2>1, <2>2
<1>2. ASSUME NEW c, NEW a \in Attempts, AcknowledgeCoreStopped(c, a) PROVE AttemptsInert
  <2>1. PICK r \in Runs, n \in Offers : a = <<r, n>> /\ a[1] = r /\ a[2] = n
    BY AttemptPair
  <2>2. /\ run[r].status = "canceled"
        /\ cancel[r].target = n
        /\ Unfinished(<<r, n>>)
        /\ FinishAttempt(<<r, n>>, "canceled", "none")
    BY <1>2, <2>1 DEF AcknowledgeCoreStopped
  <2>. QED
    BY <2>2, TargetTouchable, FinishInert
<1>3. ASSUME NEW s, NEW r, CancelOwnedRun(r) \/ NextCommand(s, r) PROVE AttemptsInert
  BY <1>3 DEF CancelOwnedRun, NextCommand, AttemptsInert
<1>. QED
  BY <1>1, <1>2, <1>3 DEF CancelStep

(* Every step of the Run API and the deadline reconciler writes only *)
(* attempts that may still be written.                               *)
LEMMA RunStepInert == TypeOK /\ OwnershipInv /\ RunStep => AttemptsInert
<1>. SUFFICES ASSUME TypeOK, OwnershipInv, NEW r \in Runs,
                     \/ CreateRun(r) \/ Reconcile(r)
                     \/ ReapCancellation(r) \/ ReapCoreCancellation(r)
              PROVE  AttemptsInert
  BY DEF RunStep
<1>1. CASE CreateRun(r) \/ ReconcileUnassigned(r)
  BY <1>1 DEF CreateRun, ReconcileUnassigned, AttemptsInert
<1>2. ASSUME NEW t, \/ ReconcileOffer(r, t) \/ ReconcileCoreExecution(r)
                    \/ ReconcileRuntimeExecution(r, t)
      PROVE  AttemptsInert
  <2>1. PICK n \in Offers : run[r].active = n /\ Active(r) = <<r, n>>
    BY <1>2, HeldActive DEF ReconcileOffer, ReconcileCoreExecution, ReconcileRuntimeExecution,
                            OfferDue, ExecutionDue
  <2>2. \E outcome : FinishAttempt(<<r, n>>, outcome, "none")
    BY <1>2, <2>1 DEF ReconcileOffer, ReconcileCoreExecution, ReconcileRuntimeExecution
  <2>. QED
    BY <2>1, <2>2, HolderTouchable, FinishInert
<1>3. CASE ReapCancellation(r) \/ ReapCoreCancellation(r)
  <2>1. PICK n \in Offers : cancel[r].target = n /\ Target(r) = <<r, n>>
    BY <1>3, TargetOffer DEF ReapCancellation, ReapCoreCancellation, CancellationDue
  <2>2. /\ run[r].status = "canceled"
        /\ Unfinished(<<r, n>>)
        /\ FinishAttempt(<<r, n>>, "canceled", "none")
    BY <1>3, <2>1 DEF ReapCancellation, ReapCoreCancellation, CancellationDue
  <2>. QED
    BY <2>1, <2>2, TargetTouchable, FinishInert
<1>. QED
  BY <1>1, <1>2, <1>3 DEF Reconcile

(* Steps of Sessions, Nodes and the clock write neither Runs nor attempts. *)
LEMMA RunsUntouched == Tick \/ SessionStep \/ AdminStep => UNCHANGED <<run, att>>
<1>1. ASSUME NEW s, NEW c, NEW reported,
             CreateSession(s, c, reported) \/ AttachSession(s, c, reported)
      PROVE  UNCHANGED <<run, att>>
  BY <1>1, Zenon DEF CreateSession, AttachSession
<1>2. ASSUME NEW s, NEW reported, NEW status,
             \/ HeartbeatSession(s, reported) \/ DrainSession(s)
             \/ CloseSession(s, status) \/ ReapStaleSession(s)
      PROVE  UNCHANGED <<run, att>>
  BY <1>2 DEF HeartbeatSession, DrainSession, CloseSession, ReapStaleSession
<1>3. AdminStep => UNCHANGED <<run, att>>
  BY Zenon DEF AdminStep, DrainNode, ActivateNode, RevokeNode, RevokeCredential
<1>. QED
  BY <1>1, <1>2, <1>3 DEF Tick, SessionStep

(* A late, duplicated or reordered message about an attempt that no longer *)
(* holds its Run changes nothing: every write to an existing attempt is to *)
(* the unfinished attempt that holds a running Run or that a cancellation  *)
(* targets.                                                                *)
THEOREM StaleAttemptInertCorrect == Spec => StaleAttemptInert
<1>1. TypeInv /\ OwnershipInv /\ [Next]_vars => [AttemptsInert]_vars
  BY RunStepInert, LeaseStepInert, ResultStepInert, CancelStepInert, RunsUntouched
     DEF Next, TypeInv, AttemptsInert
<1>2. [AttemptsInert]_vars =>
        [\A a \in Attempts : att[a].executor # "none" /\ att'[a] # att[a] =>
           /\ Unfinished(a)
           /\ \/ run[a[1]].status = "running" /\ run[a[1]].active = a[2]
              \/ run[a[1]].status = "canceled" /\ cancel[a[1]].target = a[2]]_vars
  BY DEF AttemptsInert, Touchable
<1>. QED
  BY <1>1, <1>2, OwnershipInvariance, PTL DEF Spec, StaleAttemptInert

-----------------------------------------------------------------------------
(* How a Run ended is kept. *)
RowsFinal ==
  \A r \in Runs : run[r].status \in Terminal =>
    /\ run'[r].status = run[r].status
    /\ run'[r].dispatch = run[r].dispatch
    /\ run'[r].result = run[r].result
    /\ run'[r].settled = run[r].settled

(* A step that writes one Run row keeps the ends when that Run is open. *)
LEMMA OpenRow ==
  ASSUME TypeOK, NEW r \in Runs, run[r].status \notin Terminal,
         NEW row, run' = [run EXCEPT ![r] = row]
  PROVE  RowsFinal
<1>1. \A q \in Runs \ {r} : run'[q] = run[q]
  BY Zenon DEF TypeOK
<1>. QED
  BY <1>1 DEF RowsFinal

(* Advance leaves status and Result of the Run alone. *)
LEMMA AdvanceFinal ==
  ASSUME TypeOK, NEW r \in Runs, NEW state, Advance(r, state)
  PROVE  RowsFinal
<1>1. \A q \in Runs \ {r} : run'[q] = run[q]
  BY AdvancedRow
<1>2. /\ run'[r].status = run[r].status
      /\ run'[r].dispatch = run[r].dispatch
      /\ run'[r].result = run[r].result
      /\ run'[r].settled = run[r].settled
  BY AdvancedRow
<1>. QED
  BY <1>1, <1>2 DEF RowsFinal

(* Every step of the Run API and the deadline reconciler leaves the ended *)
(* Runs as they are.                                                      *)
LEMMA RunStepFinal == TypeOK /\ RunStep => RowsFinal
<1>. SUFFICES ASSUME TypeOK, NEW r \in Runs,
                     \/ CreateRun(r) \/ Reconcile(r)
                     \/ ReapCancellation(r) \/ ReapCoreCancellation(r)
              PROVE  RowsFinal
  BY DEF RunStep
<1>1. CASE CreateRun(r)
  <2>1. run[r].status \notin Terminal
    BY <1>1 DEF CreateRun, Terminal
  <2>2. \A q \in Runs \ {r} : run'[q] = run[q]
    BY <1>1, Zenon DEF CreateRun, TypeOK
  <2>. QED
    BY <2>1, <2>2 DEF RowsFinal
<1>2. ASSUME NEW t, \/ ReconcileUnassigned(r) \/ ReconcileOffer(r, t)
                    \/ ReconcileCoreExecution(r) \/ ReconcileRuntimeExecution(r, t)
      PROVE  RowsFinal
  <2>1. run[r].status \notin Terminal
    BY <1>2, ZenonT(40) DEF ReconcileUnassigned, ReconcileOffer, ReconcileCoreExecution,
                ReconcileRuntimeExecution, UnassignedDue, OfferDue, ExecutionDue,
                HeldByActive, OwnsRun, Active, Terminal
  <2>2. \E row : run' = [run EXCEPT ![r] = row]
    BY <1>2, Zenon DEF ReconcileUnassigned, ReconcileOffer, ReconcileCoreExecution,
                ReconcileRuntimeExecution
  <2>. QED
    BY <2>1, <2>2, OpenRow, Zenon
<1>3. CASE ReapCancellation(r) \/ ReapCoreCancellation(r)
  BY <1>3, AdvanceFinal DEF ReapCancellation, ReapCoreCancellation
<1>. QED
  BY <1>1, <1>2, <1>3 DEF Reconcile

(* Every step of the lease service leaves the ended Runs as they are. *)
LEMMA LeaseStepFinal == TypeOK /\ LeaseStep => RowsFinal
<1>. SUFFICES ASSUME TypeOK, LeaseStep PROVE RowsFinal
  OBVIOUS
<1>1. ASSUME NEW s, NEW r \in Runs, ClaimOffer(s, r) PROVE RowsFinal
  <2>1. /\ run[r].status \notin Terminal
        /\ run' = [run EXCEPT ![r] = OfferedRun(run[r], OfferRow(s, r))]
    BY <1>1 DEF ClaimOffer, Claimable, ClaimableState, Terminal
  <2>. QED
    BY <2>1, OpenRow, Zenon
<1>2. ASSUME NEW s, NEW a \in Attempts,
             \/ AckAssignment(s, a) \/ RenewLease(s, a)
             \/ FinishAndReleaseOffer(a, "offer_rejected")
      PROVE  RowsFinal
  <2>1. a[1] \in Runs
    BY AttemptRun
  <2>2. run[a[1]].status \notin Terminal
    BY <1>2 DEF AckAssignment, RenewLease, FinishAndReleaseOffer, OwnsRun, Terminal
  <2>3. \A q \in Runs \ {a[1]} : run'[q] = run[q]
    BY <1>2, <2>1, ZenonT(40) DEF AckAssignment, RenewLease, FinishAndReleaseOffer, TypeOK
  <2>. QED
    BY <2>1, <2>2, <2>3 DEF RowsFinal
<1>. QED
  BY <1>1, <1>2 DEF LeaseStep, RejectAssignment, ReleaseUnackedOffer

(* Every step of the Result and Resume services leaves the ended Runs as *)
(* they are.                                                             *)
LEMMA ResultStepFinal == TypeOK /\ ResultStep => RowsFinal
<1>. SUFFICES ASSUME TypeOK, ResultStep PROVE RowsFinal
  OBVIOUS
<1>1. ASSUME NEW a \in Attempts, NEW k, NEW resumed, NEW t,
             StoreResult(a, k, resumed, t)
      PROVE  RowsFinal
  <2>1. /\ a[1] \in Runs
        /\ run[a[1]].status \notin Terminal
        /\ run' = [run EXCEPT ![a[1]] = AfterResult(a[1], k, t)]
    BY <1>1, AttemptRun DEF StoreResult, AwaitsResult, OwnsRun, Terminal
  <2>. QED
    BY <2>1, OpenRow, Zenon
<1>2. ASSUME NEW c, NEW r \in Runs, BeginCoreAttempt(c, r) PROVE RowsFinal
  <2>1. /\ run[r].status \notin Terminal
        /\ run' = [run EXCEPT ![r] = CoreStarted(run[r])]
    BY <1>2 DEF BeginCoreAttempt, CoreClaimable, ClaimableState, Terminal
  <2>. QED
    BY <2>1, OpenRow, Zenon
<1>3. ASSUME NEW s, NEW a, NEW stored, Resume(s, a, stored) PROVE RowsFinal
  BY <1>3 DEF Resume, RowsFinal
<1>. QED
  BY <1>1, <1>2, <1>3, Zenon DEF ResultStep, Finalize, FinalizeCore

(* Every step of the cancellation coordinator and its reapers leaves the *)
(* ended Runs as they are.                                               *)
LEMMA CancelStepFinal == TypeOK /\ CancelStep => RowsFinal
<1>. SUFFICES ASSUME TypeOK, CancelStep PROVE RowsFinal
  OBVIOUS
<1>1. ASSUME NEW r \in Runs, CancelOwnedRun(r) PROVE RowsFinal
  <2>1. run[r].status \notin Terminal /\ \E row : run' = [run EXCEPT ![r] = row]
    BY <1>1, ZenonT(40) DEF CancelOwnedRun, Terminal
  <2>. QED
    BY <2>1, OpenRow, Zenon
<1>2. ASSUME NEW s, NEW r \in Runs, NEW state, NextCommand(s, r) \/ AckCancel(s, r, state)
      PROVE  RowsFinal
  BY <1>2, AdvanceFinal DEF NextCommand, AckCancel
<1>3. ASSUME NEW c, NEW a \in Attempts, AcknowledgeCoreStopped(c, a) PROVE RowsFinal
  BY <1>3, AttemptRun, AdvanceFinal DEF AcknowledgeCoreStopped
<1>. QED
  BY <1>1, <1>2, <1>3 DEF CancelStep

(* A Run that has ended stays as it ended: no late acknowledgement,        *)
(* Result, cancellation or deadline changes its status, its dispatch       *)
(* state, the Result it adopted or its terminal evidence.                  *)
THEOREM TerminalIsFinalCorrect == Spec => TerminalIsFinal
<1>1. TypeInv /\ [Next]_vars => [RowsFinal]_vars
  BY RunStepFinal, LeaseStepFinal, ResultStepFinal, CancelStepFinal, RunsUntouched
     DEF Next, TypeInv, RowsFinal
<1>2. [RowsFinal]_vars =>
        [\A r \in Runs : run[r].status \in Terminal =>
           /\ run'[r].status = run[r].status
           /\ run'[r].dispatch = run[r].dispatch
           /\ run'[r].result = run[r].result
           /\ run'[r].settled = run[r].settled]_vars
  BY DEF RowsFinal
<1>. QED
  BY <1>1, <1>2, TypeInvariance, PTL DEF Spec, TerminalIsFinal

=============================================================================
