-------------------------- MODULE RuntimeProperties --------------------------
(***************************************************************************)
(* What the Runtime control plane promises.                                *)
(***************************************************************************)
EXTENDS RuntimeControlPlane

Terminal == {"success", "failed", "timeout", "canceled"}
AttemptsOf(r) == {a \in Attempts : a[1] = r}

(* Ownership of a Run.  A running Run that is offered or executing is held *)
(* by exactly one attempt: its latest, unfinished, with the Run's fencing  *)
(* token and the lease the Run row mirrors; every other attempt of it has  *)
(* finished.  A Run in any other state is held by none, and only a         *)
(* cancelled one may have left an attempt unfinished: the one its          *)
(* cancellation targets.  This is what OwnsRun's comparisons in ClaimOffer,*)
(* AckAssignment, RenewLease, finalizeTx and the reconciler rely on.       *)
Ownership ==
  \A r \in Runs :
    /\ run[r].active # 0 <=> run[r].status = "running"
                               /\ run[r].dispatch \in {"offered", "executing"}
    /\ run[r].active # 0 =>
         LET a == Active(r) IN
         /\ run[r].active = run[r].latest
         /\ Unfinished(a)
         /\ att[a].result = "none"
         /\ att[a].fence = run[r].fence
         /\ att[a].leaseExp = run[r].lease
         /\ att[a].no = IF run[r].dispatch = "offered" THEN 0 ELSE run[r].attempts
    /\ \A a \in AttemptsOf(r) :
         Unfinished(a) => \/ a[2] = run[r].active
                          \/ run[r].status = "canceled" /\ a[2] = cancel[r].target

(* Every slot that ClaimOffer takes is given back exactly once, whichever  *)
(* of rejection, expiry, Result, cancellation and disconnect comes first:  *)
(* the inflight counters of Sessions and Nodes count the attempts that     *)
(* hold a slot, and a finished attempt holds none.                         *)
SlotAccounting ==
  /\ \A s \in Sessions :
       sess[s].inflight = Cardinality({a \in Attempts : att[a].slot = s})
  /\ \A n \in Nodes :
       node[n].inflight =
         Cardinality({a \in Attempts : att[a].slot # NULL /\ NodeOf[att[a].slot] = n})
  /\ \A a \in Attempts : att[a].slot # NULL => Unfinished(a) /\ att[a].slot = att[a].session

(* Attempt numbers and fencing tokens: the confirmed attempts of a Run are *)
(* numbered 1, 2, ... without gap or repetition up to attempt_count, the   *)
(* fencing token of the n-th offer is n, and the budgets hold.             *)
AttemptBudget ==
  \A r \in Runs :
    LET confirmed == {a \in AttemptsOf(r) : att[a].no # 0} IN
    /\ {att[a].no : a \in confirmed} = 1 .. run[r].attempts
    /\ Cardinality(confirmed) = run[r].attempts
    /\ run[r].attempts <= AttemptLimit(r)
    /\ run[r].fence = run[r].offers
    /\ \A a \in AttemptsOf(r) : att[a].executor # "none" <=> a[2] <= run[r].offers
    /\ \A a \in AttemptsOf(r) : att[a].executor # "none" => att[a].fence = a[2]

(* The Result a Run ends with.  A Run is settled (terminal event, ledger   *)
(* row, effects) exactly once; it succeeds only with the stored success of *)
(* one attempt, adopts no other attempt's Result, and a final Result is    *)
(* never stored for a Run that goes on or that was cancelled.              *)
ResultAdopted ==
  \A r \in Runs :
    LET final == {a \in AttemptsOf(r) : att[a].result \in {"success", "fatal"}} IN
    /\ run[r].settled = IF run[r].status \in Terminal THEN 1 ELSE 0
    /\ run[r].status = "success" => att[<<r, run[r].result>>].outcome = "success"
    /\ run[r].result # 0 => run[r].result = run[r].latest
    /\ final # {} => /\ run[r].status \in {"success", "failed", "timeout"}
                     /\ final = {<<r, run[r].latest>>}

(* A cancellation and the Run row that mirrors its state agree; a stopped  *)
(* cancellation has left nothing running, and one that was reaped or       *)
(* confirmed has freed the slot of its target.                             *)
CancellationEvidence ==
  \A r \in Runs :
    /\ run[r].cancel = cancel[r].state
    /\ cancel[r].state # "none" <=> run[r].status = "canceled"
    /\ cancel[r].target # 0 =>
         /\ cancel[r].target = run[r].latest
         /\ cancel[r].state \in {"stopped", "unconfirmed"}
              => att[Target(r)].outcome = "canceled" /\ att[Target(r)].slot = NULL
    /\ cancel[r].state \in {"requested", "delivered", "stopping"} => Unfinished(Target(r))

(* At most one Session of a worker is live, and it is the newest the       *)
(* worker ever had: a replayed Hello of an older generation never regains  *)
(* authority (rejectStaleRuntimeSessionGeneration), so the unique index on *)
(* live workers never fires on a reconnect.                                *)
NewestGenerationLive ==
  \A s, t \in Sessions :
    /\ s # t
    /\ SameWorker(s, t)
    /\ sess[s].status \in Live
    /\ sess[t].status # "absent"
    => sess[t].status \notin Live /\ EpochOf[t] < EpochOf[s]

(* Reconnects, heartbeats, drains and activations never write a Session or *)
(* Node row that the CHECK constraints on capacity and drain evidence      *)
(* would refuse, and a live Session is attached to the Core of its newest  *)
(* attachment.                                                             *)
RowsConsistent ==
  /\ \A s \in Sessions :
       /\ SessionRowOK(sess[s])
       /\ sess[s].status \in Live <=> sess[s].core # NULL
       /\ sess[s].core # NULL => conns[s] # <<>> /\ sess[s].core = conns[s][Len(conns[s])]
  /\ \A n \in Nodes : node[n].inflight <= node[n].cap \/ node[n].status = "draining"

(* An active Session is on an active Node: draining or revoking a Node     *)
(* leaves no Session that could still claim, and activation revives none   *)
(* that is stale.                                                          *)
ActiveOnActiveNode ==
  \A s \in Sessions :
    /\ sess[s].status = "active" => node[NodeOf[s]].status = "active"
    /\ sess[s].status \in Live => CredOf[s] \notin revoked
                                    /\ node[NodeOf[s]].status # "revoked"

(* A Resume Grant moves the right to hand in a Result, it never doubles    *)
(* it: of the Session that ran an attempt and the Session that holds its   *)
(* grant at most one is admitted, whatever reconnects come in between.     *)
SingleWriter ==
  \A a \in Attempts : \A s, t \in Sessions :
    /\ Principal(s) /\ att[a].session = s
    /\ Principal(t) /\ ActiveGrant(t, a)
    => s = t

-----------------------------------------------------------------------------
(* A Run that has ended stays as it ended: no late acknowledgement, Result,*)
(* cancellation or deadline changes its status, its dispatch state, the    *)
(* Result it adopted or its terminal evidence.                             *)
TerminalIsFinal ==
  [][\A r \in Runs : run[r].status \in Terminal =>
       /\ run'[r].status = run[r].status
       /\ run'[r].dispatch = run[r].dispatch
       /\ run'[r].result = run[r].result
       /\ run'[r].settled = run[r].settled]_vars

(* A message about an attempt that no longer holds its Run is inert: only  *)
(* the attempt that holds a running Run, or that a cancellation targets,   *)
(* ever changes, and a finished attempt keeps its outcome and its Result.  *)
StaleAttemptInert ==
  [][\A a \in Attempts : att[a].executor # "none" /\ att'[a] # att[a] =>
       /\ Unfinished(a)
       /\ \/ run[a[1]].status = "running" /\ run[a[1]].active = a[2]
          \/ run[a[1]].status = "canceled" /\ cancel[a[1]].target = a[2]]_vars

(* Draining is an admission fence: once a Session has been asked to drain, *)
(* or its Node drains or is revoked, the Session takes no new slot until   *)
(* the Node is activated again.                                            *)
DrainFence ==
  [][\A s \in Sessions : sess'[s].inflight > sess[s].inflight =>
       ~sess[s].drain /\ node[NodeOf[s]].status = "active"]_vars

(* The lease of a confirmed attempt never gets shorter while the attempt   *)
(* runs, and never outlives the attempt's or the Run's deadline.           *)
LeaseWindow ==
  [][\A a \in Attempts : Unfinished(a) /\ att[a].no # 0 /\ att'[a].outcome = "none" =>
       /\ att'[a].leaseExp >= att[a].leaseExp
       /\ att'[a].leaseExp <= att'[a].deadline
       /\ att'[a].deadline <= run'[a[1]].runDl]_vars

-----------------------------------------------------------------------------
(* Every Run ends: whatever workers, Cores and clients do or fail to do,   *)
(* the deadline reconciler ends a Run that nobody else ends.  It cannot    *)
(* while a Run's slot is on a revoked Node.                                *)
EveryRunEnds ==
  \A r \in Runs : run[r].status = "running" ~>
                    run[r].status # "running" \/ ReconcileBatchFails

(* Every slot comes back: an attempt that holds capacity gives it up, even *)
(* when its worker is gone and its Run was cancelled.                      *)
EverySlotReturns ==
  \A a \in Attempts : att[a].slot # NULL ~>
                        att[a].slot = NULL \/ ReconcileBatchFails \/ CancelBatchFails

(* Every cancelled Core call ends: the owner may cancel before the Core    *)
(* has registered the function that stops the call, or the Core may crash  *)
(* in it and never answer; the reaper then ends the attempt.               *)
EveryCoreCallEnds ==
  \A a \in Attempts : att[a].executor = "core" /\ cancel[a[1]].target = a[2] ~>
                        ~Unfinished(a)

-----------------------------------------------------------------------------
(* Three statements of the code's own comments that it does not keep.      *)

(* ClaimOffer's comment: "An expired offer is released in the same         *)
(* transaction before the next candidate is considered."  So a Session     *)
(* whose unanswered offer has expired could claim another Run at once.     *)
ExpiredOfferReleasedByClaim ==
  \A s \in Sessions, a \in Attempts, r \in Runs :
    /\ Principal(s) /\ sess[s].status = "active" /\ node[NodeOf[s]].status = "active"
    /\ att[a].slot = s /\ att[a].no = 0
    /\ OwnsRun(a, "offered") /\ att[a].offerExp <= now
    /\ Claimable(r)
    => ENABLED ClaimOffer(s, r)

(* RuntimeSessionReaper's comment: it "closes transport Sessions whose     *)
(* database heartbeat has expired".  So it could close any live Session.   *)
StaleSessionReapable ==
  \A s \in Sessions : sess[s].status \in Live => ENABLED ReapStaleSession(s)

(* RevokeAgentCredential's comment: the slots of its attempts stay held    *)
(* and "the expiry reconciler fences the attempts and releases both slots  *)
(* exactly once".                                                          *)
ReconcilerReleasesSlots ==
  \A a \in Attempts : att[a].slot # NULL /\ CredOf[att[a].slot] \in revoked ~>
                        att[a].slot = NULL

=============================================================================
