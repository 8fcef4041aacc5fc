---------------------------- MODULE RuntimeState ----------------------------
(***************************************************************************)
(* The PostgreSQL rows that the Runtime control plane works on, and the    *)
(* row updates that several of its services share.                         *)
(*                                                                         *)
(* Every service call is one database transaction that locks Session,      *)
(* Node, credential, Run and Attempt rows before it reads them, so every   *)
(* call is one atomic step here.  PostgreSQL's clock is the only clock:    *)
(* `now' is what clock_timestamp() returns.  A statement that matches no   *)
(* row, or that a CHECK constraint rejects, rolls the transaction back, so *)
(* both appear as guards.  One agent owns all Runs and all Sessions: every *)
(* query filters on the agent and agents share no row but the Node.        *)
(***************************************************************************)
EXTENDS Integers, FiniteSets, Sequences

CONSTANTS
  Runs,             \* Run ids
  Mode,             \* connection_mode_snapshot of a Run: "runtime" or "core"
  MaxOffers,        \* max_offer_count of every Run
  MaxAttempts,      \* max_attempts of a Runtime Run (a Core Run has 1)
  Sessions,         \* Runtime Session ids
  NodeOf,           \* node_id of a Session
  WorkerOf,         \* worker_id of a Session
  EpochOf,          \* session_epoch of a Session
  CredOf,           \* credential_id of a Session
  Nodes, Workers, Creds,
  Cores,            \* Core instances
  Reports,          \* the capacities a worker may report
  NodeCapacity,     \* the capacity a Node is enrolled with
  MaxAttachments,   \* bound on the connections one Session makes
  NULL              \* SQL NULL, for a Session or a Core

CONSTANTS           \* durations, in clock ticks
  DispatchTTL, RunTTL, OfferTTL, LeaseTTL, AttemptTTL,
  CancelTTL,        \* the deadline of a cancellation
  GrantTTL,         \* life of a Resume Grant
  RetryDelay,       \* RetryDelay[n]: back-off after the n-th attempt
  CreateBy          \* bound: no Run is created after this instant

VARIABLES
  now,      \* clock_timestamp()
  run,      \* runs
  att,      \* run_attempts: attempt <<r, n>> is the n-th offer of r
  cancel,   \* run_cancellations, at most one per Run
  sess,     \* runtime_sessions
  conns,    \* runtime_session_attachments: the Core of every attachment
  node,     \* runtime_nodes
  revoked,  \* credentials (agent_tokens) that are revoked
  grant     \* runtime_resume_grants: the latest one of every attempt

vars == <<now, run, att, cancel, sess, conns, node, revoked, grant>>

ASSUME RunAssumption ==
  /\ IsFiniteSet(Runs)
  /\ Mode \in [Runs -> {"runtime", "core"}]
  /\ MaxOffers \in Nat \ {0}
  /\ MaxAttempts \in Nat \ {0}

ASSUME SessionAssumption ==
  /\ NodeOf \in [Sessions -> Nodes]
  /\ WorkerOf \in [Sessions -> Workers]
  /\ EpochOf \in [Sessions -> Nat]
  /\ CredOf \in [Sessions -> Creds]
  /\ NULL \notin Sessions
  /\ NULL \notin Cores
  /\ Reports \subseteq Nat
  /\ NodeCapacity \in [Nodes -> Nat]
  /\ MaxAttachments \in Nat

ASSUME DurationAssumption ==
  /\ DispatchTTL \in Nat \ {0}
  /\ RunTTL \in Nat
  /\ DispatchTTL <= RunTTL
  /\ OfferTTL \in Nat \ {0}
  /\ LeaseTTL \in Nat \ {0}
  /\ AttemptTTL \in Nat \ {0}
  /\ CancelTTL \in Nat \ {0}
  /\ GrantTTL \in Nat \ {0}
  /\ RetryDelay \in [1 .. MaxAttempts -> Nat \ {0}]
  /\ CreateBy \in Nat

-----------------------------------------------------------------------------
(* Row types.  0 is NULL for an offer number and for a timestamp that is   *)
(* only read while the row is in a state that has it.                      *)

Offers == 1 .. MaxOffers
Attempts == Runs \X Offers

RunStatus == {"absent", "running", "success", "failed", "timeout", "canceled"}
DispatchState ==
  {"pending", "offered", "executing", "retry_wait", "terminal", "dead_letter"}
TerminalDispatch == {"terminal", "dead_letter"}
Outcome ==
  {"none", "offer_rejected", "offer_expired", "success", "retryable_failure",
   "non_retryable_failure", "lease_expired", "canceled", "timeout",
   "result_unknown"}
CancelState ==
  {"none", "requested", "delivered", "stopping", "stopped", "unsupported",
   "failed", "unconfirmed"}
SessionStatus == {"absent", "active", "draining", "offline", "closed", "revoked"}
Live == {"active", "draining"}
Results == {"success", "retryable", "fatal"}

RunRow ==
  [status : RunStatus, dispatch : DispatchState,
   offers : 0 .. MaxOffers, attempts : 0 .. MaxAttempts, fence : Nat,
   active : 0 .. MaxOffers,     \* active_attempt_id
   latest : 0 .. MaxOffers,     \* latest_attempt_id
   dispatchDl : Nat, runDl : Nat,
   lease : Nat,                 \* lease_expires_at, mirrored
   next : Nat,                  \* next_attempt_at
   cancel : CancelState,        \* cancel_state, mirrored
   result : 0 .. MaxOffers,     \* the attempt whose Result the Run adopted
   settled : Nat]               \* terminal events (and ledger rows) written

AttemptRow ==
  [executor : {"none", "runtime", "core"},
   session : Sessions \cup {NULL}, core : Cores \cup {NULL},
   fence : Nat, no : 0 .. MaxAttempts,
   offerExp : Nat, leaseExp : Nat, deadline : Nat,
   slot : Sessions \cup {NULL},   \* active_runtime_session_id
   outcome : Outcome,             \* "none" while finished_at IS NULL
   result : Results \cup {"none"}]

CancelRow == [state : CancelState, target : 0 .. MaxOffers, at : Nat]

SessionRow ==
  [status : SessionStatus, core : Cores \cup {NULL},
   inflight : Nat, cap : Nat,
   drain : BOOLEAN,               \* drain_requested_at IS NOT NULL
   resume : Nat]                  \* resume_capacity

NodeRow == [status : {"active", "draining", "revoked"}, inflight : Nat, cap : Nat]

GrantRow ==
  [state : {"none", "open", "denied"},
   target : Sessions \cup {NULL}, exp : Nat]

TypeOK ==
  /\ now \in Nat
  /\ run \in [Runs -> RunRow]
  /\ att \in [Attempts -> AttemptRow]
  /\ cancel \in [Runs -> CancelRow]
  /\ sess \in [Sessions -> SessionRow]
  /\ conns \in [Sessions -> Seq(Cores)]
  /\ node \in [Nodes -> NodeRow]
  /\ revoked \subseteq Creds
  /\ grant \in [Attempts -> GrantRow]

-----------------------------------------------------------------------------
(* Shared expressions and row updates. *)

Earlier(x, y) == IF x <= y THEN x ELSE y
Later(x, y) == IF x >= y THEN x ELSE y

AttemptLimit(r) == IF Mode[r] = "core" THEN 1 ELSE MaxAttempts

(* The earlier deadline: after it a Run that no attempt holds times out. *)
DispatchBy(r) == Earlier(run[r].dispatchDl, run[r].runDl)

Active(r) == <<r, run[r].active>>

Unfinished(a) == att[a].executor # "none" /\ att[a].outcome = "none"

(* The Run still belongs to this attempt: active_attempt_id, lease_id and  *)
(* fencing_token all name it.                                              *)
OwnsRun(a, dispatch) ==
  /\ run[a[1]].status = "running"
  /\ run[a[1]].dispatch = dispatch
  /\ run[a[1]].active = a[2]
  /\ run[a[1]].fence = att[a].fence

(* CHECK constraints of runtime_sessions. *)
SessionRowOK(row) ==
  /\ row.inflight <= row.cap \/ row.status = "draining"
  /\ row.drain => row.cap = 0 /\ row.status \in {"draining", "offline", "closed", "revoked"}
  /\ ~row.drain => row.status # "draining"

(* ReleaseRuntimeSessionSlot and ReleaseRuntimeNodeSlot: both update only  *)
(* a row whose inflight is positive, and no row aborts the transaction.    *)
(* So does the trigger that makes a revoked Node immutable: a slot on a    *)
(* revoked Node cannot be released.                                        *)
ReleaseSlots(s) ==
  /\ sess[s].inflight > 0
  /\ node[NodeOf[s]].inflight > 0
  /\ node[NodeOf[s]].status # "revoked"
  /\ sess' = [sess EXCEPT ![s].inflight = @ - 1]
  /\ node' = [node EXCEPT ![NodeOf[s]].inflight = @ - 1]

(* Mutant: the release is not recorded on the attempt. *)
FinishAttemptUnmarked(a, outcome, result) ==
  /\ att' = [att EXCEPT ![a].outcome = outcome, ![a].result = result]
  /\ IF att[a].slot = NULL THEN UNCHANGED <<sess, node>>
                           ELSE ReleaseSlots(att[a].slot)

(* An attempt finishes.  The capacity it still holds is marked released    *)
(* (a compare-and-set on the attempt row) and only then both counters      *)
(* drop; an attempt of a Core executor holds none.                         *)
FinishAttempt(a, outcome, result) ==
  /\ att' = [att EXCEPT ![a].outcome = outcome,
                        ![a].result = result,
                        ![a].slot = NULL]
  /\ IF att[a].slot = NULL THEN UNCHANGED <<sess, node>>
                           ELSE ReleaseSlots(att[a].slot)

(* The Run leaves its attempt without ending. *)
Unassigned(row, dispatch, next) ==
  [row EXCEPT !.dispatch = dispatch, !.active = 0, !.lease = 0, !.next = next]

(* The Run ends: the terminal event, the usage ledger row and the effects  *)
(* are inserted in the same transaction.                                   *)
Settled(row, status, dispatch, result) ==
  [row EXCEPT !.status = status, !.dispatch = dispatch, !.active = 0,
              !.lease = 0, !.next = 0, !.result = result,
              !.settled = @ + 1]

=============================================================================
