---------------------------- MODULE RuntimeLeases ----------------------------
(***************************************************************************)
(* RuntimeLeaseService: offers, confirmations, rejections, renewals and    *)
(* the cleanup of an offer after a lost connection, and the creation of a  *)
(* Run.  A message that is late, duplicated or reordered is a call made in *)
(* a later state; a replay that the code answers from stored evidence      *)
(* changes no row and is a stuttering step.                                *)
(***************************************************************************)
EXTENDS RuntimeState

(* A Run is inserted with its deadlines and counters. *)
CreateRun(r) ==
  /\ now <= CreateBy
  /\ run[r].status = "absent"
  /\ run' = [run EXCEPT ![r].status = "running",
                        ![r].dispatchDl = now + DispatchTTL,
                        ![r].runDl = now + RunTTL]
  /\ UNCHANGED <<now, att, cancel, sess, conns, node, revoked, grant>>

(* The caller's Session is live and attached, its Node is not revoked and  *)
(* its credential is active.  A call through an attachment that a newer    *)
(* one replaced fails this lock, so calls carry the current attachment.    *)
Principal(s) ==
  /\ sess[s].status \in Live
  /\ node[NodeOf[s]].status # "revoked"
  /\ CredOf[s] \notin revoked

(* GetExistingUnacceptedRunOfferForSession. *)
ExistingOffer(s, a) ==
  /\ att[a].session = s
  /\ att[a].no = 0
  /\ Unfinished(a)
  /\ OwnsRun(a, "offered")
  /\ att[a].offerExp > now
  /\ DispatchBy(a[1]) > now

(* Mutant: the offer budget is not checked. *)
ClaimableBeyondBudget(r) ==
  /\ run[r].status = "running"
  /\ \/ run[r].dispatch = "pending"
     \/ run[r].dispatch = "retry_wait" /\ run[r].next <= now
  /\ run[r].active = 0
  /\ run[r].attempts < AttemptLimit(r)
  /\ DispatchBy(r) > now

(* Mutant: the dispatch state and the active attempt are not checked. *)
ClaimableWhileHeld(r) ==
  /\ run[r].status = "running"
  /\ run[r].offers < MaxOffers
  /\ run[r].attempts < AttemptLimit(r)
  /\ DispatchBy(r) > now

(* LockNextClaimableRuntimeRunForAgent.  SKIP LOCKED passes over a Run     *)
(* that another transaction holds, so any claimable Run may be the next.   *)
ClaimableState(r) ==
  /\ run[r].status = "running"
  /\ \/ run[r].dispatch = "pending"
     \/ run[r].dispatch = "retry_wait" /\ run[r].next <= now
  /\ run[r].active = 0
  /\ run[r].offers < MaxOffers
  /\ run[r].attempts < AttemptLimit(r)
  /\ DispatchBy(r) > now

Claimable(r) == Mode[r] = "runtime" /\ ClaimableState(r)

(* Mutant: the Node's counter is not checked. *)
SlotFreeOnSession(s) ==
  /\ sess[s].status = "active"
  /\ sess[s].inflight < sess[s].cap
  /\ node[NodeOf[s]].status = "active"

(* ClaimRuntimeSessionSlot and ClaimRuntimeNodeSlot. *)
SlotFree(s) ==
  /\ sess[s].status = "active"
  /\ sess[s].inflight < sess[s].cap
  /\ node[NodeOf[s]].status = "active"
  /\ node[NodeOf[s]].inflight < node[NodeOf[s]].cap

(* Mutant: the Node's counter is not raised. *)
ClaimSessionSlot(s) ==
  /\ SlotFree(s)
  /\ sess' = [sess EXCEPT ![s].inflight = @ + 1]
  /\ node' = node

ClaimSlots(s) ==
  /\ SlotFree(s)
  /\ sess' = [sess EXCEPT ![s].inflight = @ + 1]
  /\ node' = [node EXCEPT ![NodeOf[s]].inflight = @ + 1]

(* The NOT EXISTS guard of CreateRuntimeRunOffer, which is also a unique   *)
(* index: a Session has at most one offer it has not answered.             *)
Outstanding(s) ==
  \E a \in Attempts : att[a].session = s /\ att[a].no = 0 /\ Unfinished(a)

(* Mutant: the fencing token is not raised. *)
OfferRowOldFence(s, r) ==
  [executor |-> "runtime", session |-> s, core |-> sess[s].core,
   fence |-> run[r].fence, no |-> 0,
   offerExp |-> now + OfferTTL, leaseExp |-> now + LeaseTTL,
   deadline |-> now + AttemptTTL,
   slot |-> s, outcome |-> "none", result |-> "none"]

(* CreateRuntimeRunOffer: the row it inserts. *)
OfferRow(s, r) ==
  [executor |-> "runtime", session |-> s, core |-> sess[s].core,
   fence |-> run[r].fence + 1, no |-> 0,
   offerExp |-> Earlier(now + OfferTTL,
                  Earlier(now + LeaseTTL,
                    Earlier(now + AttemptTTL, DispatchBy(r)))),
   leaseExp |-> Earlier(now + LeaseTTL, Earlier(now + AttemptTTL, run[r].runDl)),
   deadline |-> Earlier(now + AttemptTTL, run[r].runDl),
   slot |-> s, outcome |-> "none", result |-> "none"]

(* MirrorRuntimeRunOffer. *)
OfferedRun(row, offer) ==
  [row EXCEPT !.dispatch = "offered", !.next = 0,
              !.offers = @ + 1, !.latest = row.offers + 1,
              !.active = row.offers + 1, !.fence = offer.fence,
              !.lease = offer.leaseExp]

(* ClaimOffer.  An existing offer is returned unchanged, so a new one is   *)
(* made only when there is none; an offer of this Session that has         *)
(* expired, or that a cancellation took its Run from, blocks a new one.    *)
ClaimOffer(s, r) ==
  /\ Principal(s)
  /\ ~\E a \in Attempts : ExistingOffer(s, a)
  /\ Claimable(r)
  /\ ClaimSlots(s)
  /\ ~Outstanding(s)
  /\ att' = [att EXCEPT ![<<r, run[r].offers + 1>>] = OfferRow(s, r)]
  /\ run' = [run EXCEPT ![r] = OfferedRun(run[r], OfferRow(s, r))]
  /\ UNCHANGED <<now, cancel, conns, revoked, grant>>

(* lockLeaseMutation and rejectCanceledOrTerminalRun: the call names an    *)
(* attempt of its own Session, and the Run is neither ended nor cancelled. *)
LeaseMutation(s, a) ==
  /\ Principal(s)
  /\ att[a].executor = "runtime"
  /\ att[a].session = s
  /\ run[a[1]].cancel = "none"

(* leaseOfferExpired *)
OfferLive(a) ==
  /\ att[a].offerExp > now
  /\ att[a].deadline > now
  /\ run[a[1]].runDl > now

(* Mutant: the deadlines do not bind the lease. *)
LeaseUncapped(a) == now + LeaseTTL

(* The lease ConfirmRunAssignment and RenewRuntimeRunAttempt compute. *)
LeaseUntil(a) ==
  Earlier(now + LeaseTTL, Earlier(att[a].deadline, run[a[1]].runDl))

(* AckAssignment with ConfirmRunAssignment and its mirror on the Run.  A   *)
(* draining Session may still confirm what it was offered before.          *)
AckAssignment(s, a) ==
  LET r == a[1] IN
  /\ LeaseMutation(s, a)
  /\ att[a].no = 0
  /\ Unfinished(a)
  /\ OwnsRun(a, "offered")
  /\ OfferLive(a)
  /\ run[r].attempts < AttemptLimit(r)
  /\ att' = [att EXCEPT ![a].no = run[r].attempts + 1,
                        ![a].leaseExp = LeaseUntil(a),
                        ![a].core = sess[s].core]
  /\ run' = [run EXCEPT ![r].dispatch = "executing",
                        ![r].attempts = @ + 1,
                        ![r].lease = LeaseUntil(a)]
  /\ UNCHANGED <<now, cancel, sess, conns, node, revoked, grant>>

(* Mutant: a late answer to an offer that was taken back is accepted. *)
FinishAndReleaseAnyOffer(a, outcome) ==
  /\ att[a].no = 0
  /\ run[a[1]].dispatch \in {"pending", "offered"}
  /\ FinishAttempt(a, outcome, "none")
  /\ run' = [run EXCEPT ![a[1]] = Unassigned(run[a[1]], "pending", 0)]
  /\ UNCHANGED <<now, cancel, conns, revoked, grant>>

(* finishAndReleaseOffer: the attempt ends, its slot is freed and the Run  *)
(* is pending again.  offer_count keeps what was used.                     *)
FinishAndReleaseOffer(a, outcome) ==
  /\ att[a].no = 0
  /\ Unfinished(a)
  /\ OwnsRun(a, "offered")
  /\ FinishAttempt(a, outcome, "none")
  /\ run' = [run EXCEPT ![a[1]] = Unassigned(run[a[1]], "pending", 0)]
  /\ UNCHANGED <<now, cancel, conns, revoked, grant>>

(* RejectAssignment: the offer need not be unexpired. *)
RejectAssignment(s, a) ==
  /\ LeaseMutation(s, a)
  /\ FinishAndReleaseOffer(a, "offer_rejected")

(* executionLeaseExpired *)
LeaseLive(a) ==
  /\ att[a].leaseExp > now
  /\ att[a].deadline > now
  /\ run[a[1]].lease > now
  /\ run[a[1]].runDl > now

(* RenewLease: a lease never gets shorter and never outlives a deadline.   *)
RenewLease(s, a) ==
  LET expiry == Later(att[a].leaseExp, LeaseUntil(a)) IN
  /\ LeaseMutation(s, a)
  /\ att[a].no # 0
  /\ Unfinished(a)
  /\ OwnsRun(a, "executing")
  /\ LeaseLive(a)
  /\ att' = [att EXCEPT ![a].leaseExp = expiry, ![a].core = sess[s].core]
  /\ run' = [run EXCEPT ![a[1]].lease = expiry]
  /\ UNCHANGED <<now, cancel, sess, conns, node, revoked, grant>>

(* lockOfferReleasePrincipal, for the k-th attachment of s: either it is   *)
(* the current one of a live Session, or the Session is offline or closed  *)
(* and the attachment is detached.                                         *)
OfferReleasePrincipal(s, k) ==
  /\ k \in DOMAIN conns[s]
  /\ node[NodeOf[s]].status # "revoked"
  /\ CredOf[s] \notin revoked
  /\ \/ sess[s].status \in Live /\ k = Len(conns[s])
     \/ sess[s].status \in {"offline", "closed"}

(* ReleaseUnackedOffer, called by the Core of attachment k after a failed  *)
(* send, an answer that did not come in time, or a disconnect.             *)
ReleaseUnackedOffer(s, k, a) ==
  /\ OfferReleasePrincipal(s, k)
  /\ ExistingOffer(s, a)
  /\ sess[s].status \in Live \/ att[a].core = conns[s][k]
  /\ FinishAndReleaseOffer(a, "offer_rejected")

=============================================================================
