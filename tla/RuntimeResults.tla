---------------------------- MODULE RuntimeResults ----------------------------
(***************************************************************************)
(* ResultFinalizer, the Resume Grants that let a replacement Session hand  *)
(* in the Result of the Session it replaces, and the Core executors that   *)
(* call an agent's HTTP or MCP endpoint themselves.  The client events of  *)
(* an attempt are abstracted: a Result with missing events is refused and  *)
(* sent again later.                                                       *)
(***************************************************************************)
EXTENDS RuntimeState, RuntimeLeases

(* Mutant: the Run's own state is not compared. *)
AttemptAwaitsResult(a) ==
  /\ att[a].no # 0
  /\ Unfinished(a)
  /\ att[a].result = "none"

(* runtimeResultActiveAttemptMatches, after the terminal and cancellation  *)
(* checks.                                                                 *)
AwaitsResult(a) ==
  /\ OwnsRun(a, "executing")
  /\ run[a[1]].cancel = "none"
  /\ run[a[1]].latest = a[2]
  /\ att[a].no # 0
  /\ Unfinished(a)
  /\ att[a].result = "none"

(* LockActiveRuntimeResumeGrantForAttemptTarget *)
ActiveGrant(s, a) ==
  /\ grant[a].state = "open"
  /\ grant[a].target = s
  /\ grant[a].exp > now

(* The deadline check of finalizeTx: after the Run's deadline a Result is  *)
(* taken and ends the Run as timed out; before it the lease and the        *)
(* attempt deadline bind, and a Resume Grant lifts only the lease.         *)
InTime(a, resumed) ==
  \/ now >= run[a[1]].runDl
  \/ (resumed \/ now < att[a].leaseExp) /\ now < att[a].deadline

(* runtimeResultTerminalSemantics: the attempt's outcome and the Run row.  *)
(* k is the classification, so a Core Result is never "retryable".  The    *)
(* retry is scheduled from a second reading t of the clock and without     *)
(* regard to the deadlines.                                                *)
OutcomeOf(r, k) ==
  IF now >= run[r].runDl THEN "timeout"
  ELSE CASE k = "success" -> "success"
         [] k = "retryable" -> "retryable_failure"
         [] k = "fatal" -> "non_retryable_failure"

AfterResult(r, k, t) ==
  IF now >= run[r].runDl
    THEN Settled(run[r], "timeout", "terminal", 0)
  ELSE IF k = "retryable" /\ run[r].attempts >= AttemptLimit(r)
    THEN Settled(run[r], "failed", "dead_letter", run[r].active)
  ELSE IF k = "success"
    THEN Settled(run[r], "success", "terminal", run[r].active)
  ELSE IF k = "retryable"
    THEN Unassigned(run[r], "retry_wait", t + RetryDelay[run[r].attempts])
  ELSE Settled(run[r], "failed", "terminal", run[r].active)

(* The part of finalizeTx after authorization. *)
StoreResult(a, k, resumed, t) ==
  /\ AwaitsResult(a)
  /\ InTime(a, resumed)
  /\ FinishAttempt(a, OutcomeOf(a[1], k), k)
  /\ run' = [run EXCEPT ![a[1]] = AfterResult(a[1], k, t)]
  /\ UNCHANGED <<now, cancel, conns, revoked, grant>>

(* Finalize for a Runtime attempt, sent by the Session that ran it or by   *)
(* one that holds a Resume Grant for it.                                   *)
Finalize(s, a, k, t) ==
  /\ Principal(s)
  /\ att[a].executor = "runtime"
  /\ \/ /\ att[a].session = s
        /\ StoreResult(a, k, FALSE, t)
     \/ /\ att[a].session # s
        /\ ActiveGrant(s, a)
        /\ StoreResult(a, k, TRUE, t)

(* CreateRuntimeResumeGrant.  An unrevoked grant blocks another one for    *)
(* good, even after it expired: nothing ever revokes an expired grant.     *)
(* The query also admits the successor of a credential that was revoked as *)
(* a planned rotation.  No statement of the code ever writes               *)
(* rotation_predecessor_id, or revokes with that kind, so no two           *)
(* credentials are so related and the two Sessions share theirs.           *)
GrantCreatable(s, a) ==
  LET source == att[a].session IN
  /\ att[a].executor = "runtime"
  /\ att[a].no # 0
  /\ source # s
  /\ sess[source].status \in {"offline", "closed"}
  /\ NodeOf[source] = NodeOf[s]
  /\ WorkerOf[source] = WorkerOf[s]
  /\ CredOf[source] = CredOf[s]
  /\ grant[a].state = "none"

(* runtimeResumeSpoolCanWrite *)
SpoolCanWrite(a) ==
  /\ AwaitsResult(a)
  /\ now < att[a].deadline
  /\ now < run[a[1]].runDl

(* resumeAttempt for a Session other than the attempt's own.  `stored':    *)
(* the caller names the Result that is already stored.                     *)
Resume(s, a, stored) ==
  /\ Principal(s)
  /\ att[a].session # s
  /\ ActiveGrant(s, a) \/ GrantCreatable(s, a)
  /\ stored => att[a].result # "none"
  /\ grant' = [grant EXCEPT ![a] =
       [state |-> IF stored \/ SpoolCanWrite(a) THEN "open" ELSE "denied",
        target |-> s,
        exp |-> IF ActiveGrant(s, a) THEN grant[a].exp ELSE now + GrantTTL]]
  /\ UNCHANGED <<now, run, att, cancel, sess, conns, node, revoked>>

-----------------------------------------------------------------------------
(* Mutant: a Run that another Core executes is taken again. *)
CoreClaimableTwice(r) ==
  /\ Mode[r] = "core"
  /\ run[r].status = "running"
  /\ run[r].offers < MaxOffers
  /\ DispatchBy(r) > now
  /\ run[r].cancel = "none"

(* LockCoreRunForExecution *)
CoreClaimable(r) ==
  /\ Mode[r] = "core"
  /\ ClaimableState(r)
  /\ run[r].cancel = "none"

(* MirrorCoreRunAcceptedAttempt *)
CoreStarted(row) ==
  [row EXCEPT !.dispatch = "executing", !.next = 0,
              !.offers = @ + 1, !.attempts = @ + 1, !.fence = @ + 1,
              !.latest = row.offers + 1, !.active = row.offers + 1,
              !.lease = row.runDl]

(* beginCoreAttempt: offer, acceptance and mirror in one transaction.  A   *)
(* Core attempt holds no slot and its lease lasts until the Run's deadline.*)
BeginCoreAttempt(c, r) ==
  LET n == run[r].offers + 1 IN
  /\ CoreClaimable(r)
  /\ att' = [att EXCEPT ![<<r, n>>] =
       [executor |-> "core", session |-> NULL, core |-> c,
        fence |-> run[r].fence + 1, no |-> run[r].attempts + 1,
        offerExp |-> run[r].runDl, leaseExp |-> run[r].runDl,
        deadline |-> run[r].runDl, slot |-> NULL,
        outcome |-> "none", result |-> "none"]]
  /\ run' = [run EXCEPT ![r] = CoreStarted(run[r])]
  /\ UNCHANGED <<now, cancel, sess, conns, node, revoked, grant>>

(* finalizeCoreResult and finalizeCoreSetupFailure: the Core that owns the *)
(* call reports what the endpoint answered.  A failure of an endpoint that *)
(* is not idempotent is final.                                             *)
FinalizeCore(c, a, k) ==
  /\ att[a].executor = "core"
  /\ att[a].core = c
  /\ k # "retryable"
  /\ StoreResult(a, k, FALSE, now)

=============================================================================
