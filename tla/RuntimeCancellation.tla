------------------------- MODULE RuntimeCancellation -------------------------
(***************************************************************************)
(* RuntimeCancellationCoordinator: an owner cancels a Run at once, and the *)
(* attempt that was working on it is told to stop.  The attempt keeps its  *)
(* slot until it confirms that it stopped or the command's deadline ends.  *)
(***************************************************************************)
EXTENDS RuntimeState

Target(r) == <<r, cancel[r].target>>

(* runtimeCancellationActiveAttemptMatches *)
CancelTargetMatches(r) ==
  /\ run[r].latest = run[r].active
  /\ run[r].fence = att[Active(r)].fence
  /\ Unfinished(Active(r))

(* FinalizeRuntimeRunCancellation with the terminal event, the ledger row  *)
(* and the effects of PersistCancellationTerminal.                         *)
CanceledRun(row, state) ==
  [Settled(row, "canceled", "terminal", 0) EXCEPT !.cancel = state]

(* CancelOwnedRun.  A Run nobody works on is stopped at once; otherwise    *)
(* the request targets the active attempt, which stays unfinished.         *)
CancelOwnedRun(r) ==
  LET state == IF run[r].active = 0 THEN "stopped" ELSE "requested" IN
  /\ run[r].status = "running"
  /\ run[r].cancel = "none"
  /\ IF run[r].active = 0 THEN run[r].dispatch \in {"pending", "retry_wait"}
                          ELSE CancelTargetMatches(r)
  /\ cancel' = [cancel EXCEPT ![r] =
                  [state |-> state, target |-> run[r].active, at |-> now]]
  /\ run' = [run EXCEPT ![r] = CanceledRun(run[r], state)]
  /\ UNCHANGED <<now, att, sess, conns, node, revoked, grant>>

(* Mutant: the Run does not mirror the new state. *)
AdvanceUnmirrored(r, state) ==
  /\ cancel' = [cancel EXCEPT ![r].state = state]
  /\ run' = run

(* AdvanceRuntimeRunCancellation and its mirror on the Run. *)
Advance(r, state) ==
  /\ cancel' = [cancel EXCEPT ![r].state = state]
  /\ run' = [run EXCEPT ![r].cancel = state]

(* The Run is cancelled and s runs the attempt the cancellation targets. *)
CancelPrincipal(s, r) ==
  /\ sess[s].status \in Live
  /\ node[NodeOf[s]].status # "revoked"
  /\ CredOf[s] \notin revoked
  /\ run[r].status = "canceled"
  /\ run[r].dispatch = "terminal"
  /\ cancel[r].target # 0
  /\ att[Target(r)].executor = "runtime"
  /\ att[Target(r)].session = s

(* LockNextRuntimeCancellationCommandRun *)
CommandPending(s, r) ==
  /\ CancelPrincipal(s, r)
  /\ run[r].cancel = cancel[r].state
  /\ cancel[r].state \in {"requested", "delivered", "stopping"}
  /\ Unfinished(Target(r))
  /\ cancel[r].at + CancelTTL > now

(* NextCommand.  It hands out a command again and again until it is        *)
(* acknowledged; only the first time changes the state.                    *)
NextCommand(s, r) ==
  /\ CommandPending(s, r)
  /\ cancel[r].state = "requested"
  /\ Advance(r, "delivered")
  /\ UNCHANGED <<now, att, sess, conns, node, revoked, grant>>

AckFinalState == {"stopped", "unsupported", "failed"}

(* validRuntimeCancellationAck *)
AckState == {"delivered", "stopping"} \cup AckFinalState

(* runtimeCancellationTransitionAllowed, and the CHECK constraint          *)
(* run_cancellations_state_evidence, by which a cancellation that has      *)
(* been 'stopping' can no longer become 'unsupported'.                     *)
TransitionAllowed(from, to) ==
  \/ from = "requested" /\ to \in {"delivered", "stopping"} \cup AckFinalState
  \/ from = "delivered" /\ to \in {"stopping"} \cup AckFinalState
  \/ from = "stopping" /\ to \in AckFinalState \ {"unsupported"}

(* AckCancel.  Only 'stopped' ends the attempt and frees its slot; after   *)
(* 'unsupported' and 'failed' the attempt waits for the reaper.            *)
AckCancel(s, r, state) ==
  /\ CancelPrincipal(s, r)
  /\ TransitionAllowed(cancel[r].state, state)
  /\ Advance(r, state)
  /\ IF state = "stopped"
       THEN /\ Unfinished(Target(r))
            /\ FinishAttempt(Target(r), "canceled", "none")
       ELSE UNCHANGED <<att, sess, node>>
  /\ UNCHANGED <<now, conns, revoked, grant>>

(* AcknowledgeCoreStopped, by the Core whose call has returned. *)
AcknowledgeCoreStopped(c, a) ==
  LET r == a[1] IN
  /\ run[r].status = "canceled"
  /\ run[r].dispatch = "terminal"
  /\ run[r].latest = a[2]
  /\ att[a].executor = "core"
  /\ att[a].core = c
  /\ cancel[r].target = a[2]
  /\ cancel[r].state \in {"requested", "delivered", "stopping"}
  /\ Unfinished(a)
  /\ Advance(r, "stopped")
  /\ FinishAttempt(a, "canceled", "none")
  /\ UNCHANGED <<now, conns, revoked, grant>>

(* Mutant: a negative acknowledgement is taken for a stop. *)
UnansweredDue(r) ==
  /\ run[r].status = "canceled"
  /\ cancel[r].target # 0
  /\ cancel[r].at + CancelTTL <= now
  /\ Unfinished(Target(r))
  /\ cancel[r].state \notin AckFinalState

(* A cancellation whose deadline has passed while its target is unfinished. *)
CancellationDue(r) ==
  /\ run[r].status = "canceled"
  /\ cancel[r].target # 0
  /\ cancel[r].at + CancelTTL <= now
  /\ Unfinished(Target(r))
  /\ att[Target(r)].result = "none"

(* ReapExpiredCancellation.  A negative acknowledgement is kept as it is;  *)
(* anything else becomes 'unconfirmed'.                                    *)
ReapCancellation(r) ==
  /\ CancellationDue(r)
  /\ att[Target(r)].executor = "runtime"
  /\ att[Target(r)].slot # NULL
  /\ \/ /\ cancel[r].state \in {"requested", "delivered", "stopping"}
        /\ Advance(r, "unconfirmed")
     \/ /\ cancel[r].state \in {"failed", "unsupported"}
        /\ Advance(r, cancel[r].state)
  /\ FinishAttempt(Target(r), "canceled", "none")
  /\ UNCHANGED <<now, conns, revoked, grant>>

(* Mutant: only a Core that began to stop is reaped. *)
ReapStoppingCore(r) ==
  /\ CancellationDue(r)
  /\ att[Target(r)].executor = "core"
  /\ cancel[r].state = "stopping"
  /\ Advance(r, "unconfirmed")
  /\ FinishAttempt(Target(r), "canceled", "none")
  /\ UNCHANGED <<now, conns, revoked, grant>>

(* reapExpiredCoreCancellation *)
ReapCoreCancellation(r) ==
  /\ CancellationDue(r)
  /\ att[Target(r)].executor = "core"
  /\ cancel[r].state \in {"requested", "delivered", "stopping"}
  /\ Advance(r, "unconfirmed")
  /\ FinishAttempt(Target(r), "canceled", "none")
  /\ UNCHANGED <<now, conns, revoked, grant>>

=============================================================================
