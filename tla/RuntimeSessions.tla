--------------------------- MODULE RuntimeSessions ---------------------------
(***************************************************************************)
(* RuntimeSessionService, the Session reaper, the administration of Nodes  *)
(* and the revocation of credentials.  Whether a heartbeat is stale is     *)
(* abstracted: a Session may be found stale at any time.  Controlled Node  *)
(* upgrades and contract generations are left out: every row has the       *)
(* current contract.                                                       *)
(***************************************************************************)
EXTENDS RuntimeState

SameWorker(s, t) == NodeOf[s] = NodeOf[t] /\ WorkerOf[s] = WorkerOf[t]

Resumable == Live \cup {"offline"}

(* Mutant: only live Sessions count as newer. *)
StaleLiveGeneration(s) ==
  \E t \in Sessions \ {s} :
    sess[t].status \in Live /\ SameWorker(s, t) /\ EpochOf[t] >= EpochOf[s]

(* HasNewerRuntimeSessionGeneration: offline and terminal rows count. *)
StaleGeneration(s) ==
  \E t \in Sessions \ {s} :
    sess[t].status # "absent" /\ SameWorker(s, t) /\ EpochOf[t] >= EpochOf[s]

(* Mutant: the credential is not checked. *)
AdmittedWithoutCredential(s) == node[NodeOf[s]].status # "revoked"

(* GetRuntimeNode, the credential join and the Node's lifecycle. *)
Admitted(s) ==
  /\ node[NodeOf[s]].status # "revoked"
  /\ CredOf[s] \notin revoked

(* HeartbeatRuntimeNode: what one worker reports becomes the capacity of   *)
(* the whole Node, but never less than what is in use.                     *)
HeartbeatNode(n, reported) ==
  node' = [node EXCEPT ![n].cap = Later(reported, node[n].inflight)]

(* Mutant: only the evidence is written. *)
DrainRecorded(row, capacity) ==
  [row EXCEPT !.drain = TRUE, !.resume = IF row.drain THEN @ ELSE capacity]

(* The drain evidence is written once; a drained row keeps capacity 0 and  *)
(* remembers the capacity it had.                                          *)
Drained(row, capacity) ==
  [row EXCEPT !.status = "draining", !.cap = 0, !.drain = TRUE,
              !.resume = IF row.drain THEN @ ELSE capacity]

(* HeartbeatRuntimeSession *)
Reported(row, reported) ==
  [row EXCEPT !.cap = IF row.drain THEN 0 ELSE Later(reported, row.inflight)]

Attach(s, c) ==
  /\ Len(conns[s]) < MaxAttachments
  /\ conns' = [conns EXCEPT ![s] = Append(@, c)]

-----------------------------------------------------------------------------
(* CreateDrainingRuntimeSessionSuccessor: on a draining Node a worker may  *)
(* only replace its own latest Session, and only after that went offline.  *)
LatestPredecessor(p, s) ==
  /\ sess[p].status # "absent"
  /\ SameWorker(p, s)
  /\ EpochOf[p] < EpochOf[s]
  /\ \A t \in Sessions :
       sess[t].status # "absent" /\ SameWorker(t, s) /\ EpochOf[t] < EpochOf[s]
         => EpochOf[t] <= EpochOf[p]

SuccessorAllowed(s) ==
  \E p \in Sessions : LatestPredecessor(p, s) /\ sess[p].status = "offline"

(* CreateOrAttachSession for an id that has no row. *)
CreateSession(s, c, reported) ==
  LET fresh == [status |-> "active", core |-> c, inflight |-> 0,
                cap |-> reported, drain |-> FALSE, resume |-> 0]
      draining == node[NodeOf[s]].status = "draining"
  IN
  /\ sess[s].status = "absent"
  /\ ~StaleGeneration(s)
  /\ Admitted(s)
  /\ ~\E t \in Sessions : SameWorker(s, t) /\ sess[t].status \in Live
  /\ draining => SuccessorAllowed(s)
  /\ sess' = [sess EXCEPT ![s] = IF draining THEN Drained(fresh, reported) ELSE fresh]
  /\ HeartbeatNode(NodeOf[s], reported)
  /\ Attach(s, c)
  /\ UNCHANGED <<now, run, att, cancel, revoked, grant>>

(* attachExistingSession with ClaimRuntimeSessionForCore: a reconnect, to  *)
(* the same Core while the Session is live and to any Core after that.     *)
AttachSession(s, c, reported) ==
  LET row == [sess[s] EXCEPT !.core = c]
      drain == row.drain \/ node[NodeOf[s]].status = "draining"
  IN
  /\ ~StaleGeneration(s)
  /\ \/ sess[s].status = "offline"
     \/ sess[s].status \in Live /\ sess[s].core = c
  /\ Admitted(s)
  /\ sess' = [sess EXCEPT ![s] =
       Reported(IF drain THEN Drained(row, reported)
                         ELSE [row EXCEPT !.status = "active"], reported)]
  /\ HeartbeatNode(NodeOf[s], reported)
  /\ Attach(s, c)
  /\ UNCHANGED <<now, run, att, cancel, revoked, grant>>

HeartbeatSession(s, reported) ==
  /\ sess[s].status \in Live
  /\ Admitted(s)
  /\ sess' = [sess EXCEPT ![s] = Reported(@, reported)]
  /\ HeartbeatNode(NodeOf[s], reported)
  /\ UNCHANGED <<now, run, att, cancel, conns, revoked, grant>>

(* DrainSession *)
DrainSession(s) ==
  /\ sess[s].status \in Live
  /\ Admitted(s)
  /\ sess' = [sess EXCEPT ![s] = Drained(@, sess[s].cap)]
  /\ UNCHANGED <<now, run, att, cancel, conns, node, revoked, grant>>

(* CloseRuntimeSession and CloseStaleRuntimeSession: the row they write.   *)
(* inflight stays: it is what the attempts still hold.                     *)
ClosedRow(row, status) ==
  [row EXCEPT !.status = status, !.core = NULL,
              !.cap = IF row.drain THEN 0 ELSE Later(row.cap, row.inflight)]

(* CloseSession, by the current attachment.  A CHECK constraint refuses    *)
(* the row of a drained Session that still has work in flight.             *)
CloseSession(s, status) ==
  /\ sess[s].status \in Live
  /\ SessionRowOK(ClosedRow(sess[s], status))
  /\ sess' = [sess EXCEPT ![s] = ClosedRow(sess[s], status)]
  /\ UNCHANGED <<now, run, att, cancel, conns, node, revoked, grant>>

(* reapCandidate of RuntimeSessionReaper. *)
ReapStaleSession(s) ==
  /\ sess[s].status \in Live
  /\ SessionRowOK(ClosedRow(sess[s], "offline"))
  /\ sess' = [sess EXCEPT ![s] = ClosedRow(sess[s], "offline")]
  /\ UNCHANGED <<now, run, att, cancel, conns, node, revoked, grant>>

-----------------------------------------------------------------------------
(* drainLockedRuntimeNode *)
DrainNode(n) ==
  /\ node[n].status # "revoked"
  /\ sess' = [s \in Sessions |->
       IF NodeOf[s] = n /\ sess[s].status \in Live
         THEN Drained(sess[s], sess[s].cap) ELSE sess[s]]
  /\ node' = [node EXCEPT ![n].status = "draining"]
  /\ UNCHANGED <<now, run, att, cancel, conns, revoked, grant>>

(* No attempt and no counter of the Node is in use. *)
Quiescent(n) ==
  /\ ~\E a \in Attempts : Unfinished(a) /\ att[a].session # NULL /\ NodeOf[att[a].session] = n
  /\ node[n].inflight = 0
  /\ \A s \in Sessions : NodeOf[s] = n /\ sess[s].status \in Resumable => sess[s].inflight = 0

(* The conditions on one Session of runtimeNodeActivationCandidateCount;   *)
(* a live Session that fails them makes the activation fail.               *)
ActivationCandidate(s) ==
  /\ sess[s].status = "draining"
  /\ sess[s].inflight = 0
  /\ sess[s].drain
  /\ CredOf[s] \notin revoked
  /\ ~\E t \in Sessions : SameWorker(s, t) /\ EpochOf[t] > EpochOf[s]
                            /\ sess[t].status \in Resumable

(* activateRuntimeNodeOnce.  `fresh' are the live Sessions with a recent   *)
(* heartbeat: only they are checked and only they are made active again.   *)
ActivateNode(n, fresh) ==
  /\ node[n].status = "draining"
  /\ Quiescent(n)
  /\ fresh # {}
  /\ \A s \in fresh : NodeOf[s] = n /\ ActivationCandidate(s)
  /\ sess' = [s \in Sessions |->
       IF s \in fresh
         THEN [sess[s] EXCEPT !.status = "active", !.cap = sess[s].resume,
                              !.drain = FALSE, !.resume = 0]
         ELSE sess[s]]
  /\ node' = [node EXCEPT ![n].status = "active"]
  /\ UNCHANGED <<now, run, att, cancel, conns, revoked, grant>>

RevokedRow(row) ==
  [row EXCEPT !.status = "revoked", !.core = NULL, !.cap = Later(row.cap, row.inflight)]

(* revokeLockedRuntimeNode.  It keeps the drain evidence, so the CHECK     *)
(* constraint refuses it while a drained Session has work in flight.       *)
RevokeNode(n) ==
  LET closing == {s \in Sessions : NodeOf[s] = n /\ sess[s].status \in Resumable} IN
  /\ node[n].status # "revoked"
  /\ \A s \in closing : SessionRowOK(RevokedRow(sess[s]))
  /\ sess' = [s \in Sessions |-> IF s \in closing THEN RevokedRow(sess[s]) ELSE sess[s]]
  /\ node' = [node EXCEPT ![n].status = "revoked", ![n].cap = Later(@, node[n].inflight)]
  /\ UNCHANGED <<now, run, att, cancel, conns, revoked, grant>>

(* revokeAgentCredentialOnce: it clears the drain evidence. *)
RevokeCredential(k) ==
  /\ k \notin revoked
  /\ sess' = [s \in Sessions |->
       IF CredOf[s] = k /\ sess[s].status \in Resumable
         THEN [RevokedRow(sess[s]) EXCEPT !.drain = FALSE, !.resume = 0]
         ELSE sess[s]]
  /\ revoked' = revoked \cup {k}
  /\ UNCHANGED <<now, run, att, cancel, conns, node, grant>>

=============================================================================
