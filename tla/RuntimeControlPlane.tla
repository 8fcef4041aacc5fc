------------------------- MODULE RuntimeControlPlane -------------------------
(***************************************************************************)
(* The Runtime control plane: Runs of one agent, the workers' Sessions and *)
(* Nodes, several Core instances and the maintenance workers, all acting   *)
(* on the same PostgreSQL rows.  A crash of a Core or a worker is the      *)
(* absence of its next call; what it leaves behind is in the rows.         *)
(***************************************************************************)
EXTENDS RuntimeState, RuntimeLeases, RuntimeResults, RuntimeReconciler,
        RuntimeCancellation, RuntimeSessions

NoAttempt ==
  [executor |-> "none", session |-> NULL, core |-> NULL, fence |-> 0, no |-> 0,
   offerExp |-> 0, leaseExp |-> 0, deadline |-> 0, slot |-> NULL,
   outcome |-> "none", result |-> "none"]

(* Nodes are enrolled; there is no Run and no Session yet. *)
Init ==
  /\ now = 0
  /\ run = [r \in Runs |->
       [status |-> "absent", dispatch |-> "pending", offers |-> 0, attempts |-> 0,
        fence |-> 0, active |-> 0, latest |-> 0, dispatchDl |-> 0, runDl |-> 0,
        lease |-> 0, next |-> 0, cancel |-> "none", result |-> 0, settled |-> 0]]
  /\ att = [a \in Attempts |-> NoAttempt]
  /\ cancel = [r \in Runs |-> [state |-> "none", target |-> 0, at |-> 0]]
  /\ sess = [s \in Sessions |-> [status |-> "absent", core |-> NULL, inflight |-> 0,
                                 cap |-> 0, drain |-> FALSE, resume |-> 0]]
  /\ conns = [s \in Sessions |-> <<>>]
  /\ node = [n \in Nodes |-> [status |-> "active", inflight |-> 0,
                              cap |-> NodeCapacity[n]]]
  /\ revoked = {}
  /\ grant = [a \in Attempts |-> [state |-> "none", target |-> NULL, exp |-> 0]]

(* Time passes while some deadline is still to come.  This bounds the      *)
(* clock: past the last deadline of all rows nothing depends on it.        *)
Tick ==
  /\ \/ now < CreateBy
     \/ \E r \in Runs : run[r].status = "running" /\ now < run[r].runDl
     \/ \E r \in Runs : /\ cancel[r].target # 0
                        /\ Unfinished(Target(r))
                        /\ now < cancel[r].at + CancelTTL
  /\ now' = now + 1
  /\ UNCHANGED <<run, att, cancel, sess, conns, node, revoked, grant>>

(* The two clock readings of one transaction of the reconciler or of the   *)
(* finalizer are at most one tick apart.                                   *)
Reconcile(r) ==
  \/ ReconcileUnassigned(r)
  \/ ReconcileCoreExecution(r)
  \/ \E t \in now .. now + 1 : ReconcileOffer(r, t) \/ ReconcileRuntimeExecution(r, t)

LeaseStep ==
  \E s \in Sessions :
    \/ \E r \in Runs : ClaimOffer(s, r)
    \/ \E a \in Attempts :
         \/ AckAssignment(s, a)
         \/ RejectAssignment(s, a)
         \/ RenewLease(s, a)
         \/ \E k \in 1 .. MaxAttachments : ReleaseUnackedOffer(s, k, a)

ResultStep ==
  \/ \E s \in Sessions, a \in Attempts :
       \/ \E k \in Results, t \in now .. now + 1 : Finalize(s, a, k, t)
       \/ \E stored \in BOOLEAN : Resume(s, a, stored)
  \/ \E c \in Cores :
       \/ \E r \in Runs : BeginCoreAttempt(c, r)
       \/ \E a \in Attempts, k \in Results : FinalizeCore(c, a, k)

CancelStep ==
  \/ \E r \in Runs : CancelOwnedRun(r)
  \/ \E s \in Sessions, r \in Runs :
       \/ NextCommand(s, r)
       \/ \E state \in AckState : AckCancel(s, r, state)
  \/ \E c \in Cores, a \in Attempts : AcknowledgeCoreStopped(c, a)

SessionStep ==
  \E s \in Sessions :
    \/ \E c \in Cores, reported \in Reports :
         CreateSession(s, c, reported) \/ AttachSession(s, c, reported)
    \/ \E reported \in Reports : HeartbeatSession(s, reported)
    \/ DrainSession(s)
    \/ \E status \in {"offline", "closed"} : CloseSession(s, status)
    \/ ReapStaleSession(s)

AdminStep ==
  \/ \E n \in Nodes :
       \/ DrainNode(n)
       \/ \E fresh \in SUBSET Sessions : ActivateNode(n, fresh)
       \/ RevokeNode(n)
  \/ \E k \in Creds : RevokeCredential(k)

RunStep ==
  \E r \in Runs :
    \/ CreateRun(r)
    \/ Reconcile(r)
    \/ ReapCancellation(r)
    \/ ReapCoreCancellation(r)

Next ==
  \/ Tick
  \/ RunStep
  \/ LeaseStep
  \/ ResultStep
  \/ CancelStep
  \/ SessionStep
  \/ AdminStep

Spec == Init /\ [][Next]_vars

-----------------------------------------------------------------------------
(* The maintenance workers run on every Core for ever, oldest due row      *)
(* first, and a transaction that fails ends the batch: as long as some     *)
(* row's transaction fails, a later row may never get its turn.            *)

SlotStuck(a) == att[a].slot # NULL /\ node[NodeOf[att[a].slot]].status = "revoked"

ReconcileBatchFails ==
  \E r \in Runs : (OfferDue(r) \/ ExecutionDue(r)) /\ SlotStuck(Active(r))

CancelBatchFails ==
  \E r \in Runs : CancellationDue(r) /\ SlotStuck(Target(r))

Fairness ==
  /\ WF_vars(Tick)
  /\ \A r \in Runs :
       /\ WF_vars(~ReconcileBatchFails /\ Reconcile(r))
       /\ WF_vars(~CancelBatchFails /\ ReapCancellation(r))
       /\ WF_vars(ReapCoreCancellation(r))

FairSpec == Spec /\ Fairness

=============================================================================
