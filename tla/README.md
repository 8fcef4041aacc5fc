# Verification of OpenLinker Core

OpenLinker Core is a control plane, written in Go over PostgreSQL, that hands
*Runs* of an agent to workers. Several Core instances run at once and share
nothing but the database: every service operation is one transaction, the
database clock is the only clock, and row locks, unique indexes, CHECK
constraints and triggers decide every race. This directory models the Runtime
part of it (`pkg/runtime`, `pkg/db/queries`, `migrations`) in TLA+, checks the
model with TLC on small instances and proves its main safety properties with
TLAPS for every instance.

## The system

| Part | Code | Here |
| --- | --- | --- |
| Row schema: Runs, attempts, cancellations, Sessions, Nodes, Resume Grants | `migrations/086…`, `migrations/100…` | `RuntimeState` |
| Creation of a Run; offers, confirmation, rejection, renewal, cleanup after a disconnect | `lease.go`, `runtime_leases.sql`, `service.go` | `RuntimeLeases` |
| Deadline reconciler | `reconciler.go`, `runtime_reconciler.sql` | `RuntimeReconciler` |
| Results, retries, settlement | `finalizer.go`, `runs.sql` | `RuntimeResults` |
| Resume Grants | `resume.go`, `resume_authorization.go` | `RuntimeResults` |
| Core executors (HTTP and MCP endpoints called by a Core itself) | `core_executor.go`, `runtime_core_attempts.sql` | `RuntimeResults`, `RuntimeCancellation` |
| Cancellation coordinator and reapers | `cancellation.go`, `runtime_cancellations.sql` | `RuntimeCancellation` |
| Sessions, attachments, heartbeats, drain, reaper | `session.go`, `session_reaper.go`, `runtime_nodes.sql` | `RuntimeSessions` |
| Node administration, credential revocation | `admin_nodes.go`, `credential_revocation.go` | `RuntimeSessions` |
| Maintenance worker | `maintenance_worker.go` | fairness of `RuntimeControlPlane` |
| Effect outbox, its worker, deliveries that an Effect owns, replay | `effect_worker.go`, `run_effects.sql`, `webhook/effect_handler.go`, `delivery/effect_handler.go` | `EffectOutbox` |
| Event store, signal bus, Redis leases, transports, cluster membership, cutover, Node upgrade | `pkg/runtime`, `pkg/cutover` | planned |
| Workflows, the older webhook and delivery workers, registry bridge, external executions, event wake-up | `pkg/workflow`, `pkg/webhook`, `pkg/delivery`, `pkg/registry`, `pkg/externalexecution`, `pkg/eventwake` | planned |
| Tasks, agents, A2A, MCP, skills, authentication, PKI, dashboards, assembly | other packages | mostly without state of interest here |

`PROJECT.json` lists all parts with their sources, and the places in the code
where something can go wrong that a test would hardly reach.

How the parts interact: an owner creates a Run; a Session (the connection of a
worker process, on a Node) claims it, which takes one slot of the Session and
one of the Node and creates an *offer*; the worker confirms, which turns the
offer into an *execution* with a lease that the worker renews; it hands in a
Result, which ends the Run or schedules a retry. Meanwhile the owner may
cancel, the worker may vanish, reconnect to another Core or be replaced by a
newer generation that asks for a Resume Grant, an administrator may drain,
activate or revoke the Node or the credential, and the reconciler takes back
whatever is overdue.

## How the model is built

**One transaction, one action.** An action has the guards of the whole
operation (the caller's authentication, the row locks and their WHERE clauses,
the Go comparisons, the CHECK constraints of the rows it would write) and all
of its writes. An operation that returns an error or rolls back changes no row
and is a stuttering step, and so is a replay that the code answers from stored
evidence. A message that is lost, late, duplicated or reordered is the call not
made, or made in a later state. A crash of a Core or a worker is the absence of
its next call: everything that matters is in the rows.

**State** (`RuntimeState`): `now` (the database clock), `run`, `att` (attempts,
identified by their Run and the number of the offer), `cancel`, `sess`,
`conns` (the Core of each attachment of a Session, in order), `node`,
`revoked` (credentials) and `grant` (Resume Grants). Columns that no guard
compares are left out; identities are model values. Settlement (terminal
event, usage ledger, effects, inserted in the transaction that ends the Run) is
counted in `run[r].settled`. `att[a].slot` is the capacity an attempt holds:
the code keeps `slot_acquired_at` and `slot_released_at` on the attempt row.

**Actions.**

| Module | Action | Code |
| --- | --- | --- |
| `RuntimeLeases` | `CreateRun` | insertion of a Run |
| | `ClaimOffer`, `AckAssignment`, `RejectAssignment`, `RenewLease`, `ReleaseUnackedOffer` | the methods of `RuntimeLeaseService` |
| `RuntimeReconciler` | `ReconcileUnassigned`, `ReconcileOffer`, `ReconcileCoreExecution`, `ReconcileRuntimeExecution` | one candidate of `ReconcileBatch` |
| `RuntimeResults` | `Finalize`, `FinalizeCore` | `ResultFinalizer.finalizeTx` |
| | `Resume` | `resumeAttempt` with `lockOrCreateSpoolGrant` |
| | `BeginCoreAttempt` | `beginCoreAttempt` |
| `RuntimeCancellation` | `CancelOwnedRun`, `NextCommand`, `AckCancel`, `AcknowledgeCoreStopped`, `ReapCancellation`, `ReapCoreCancellation` | `RuntimeCancellationCoordinator` |
| `RuntimeSessions` | `CreateSession`, `AttachSession`, `HeartbeatSession`, `DrainSession`, `CloseSession`, `ReapStaleSession` | `session.go`, `session_reaper.go` |
| | `DrainNode`, `ActivateNode`, `RevokeNode`, `RevokeCredential` | `admin_nodes.go`, `credential_revocation.go` |
| `RuntimeControlPlane` | `Tick` | the clock |

`RuntimeControlPlane` composes them: `Init`, `Next`, `Spec` and `FairSpec`.
`RuntimeProperties` states what the system promises. `MCRuntime` gives the
constants their values.

**Abstractions.** There is one agent. Whether a heartbeat is stale is
nondeterministic, so the reaper may close any live Session and an activation
may find any Session fresh. The clock is read once per transaction, except in
the reconciler and the finalizer, whose second reading `t` may be one tick
later: their decision and the retry time they write come from two readings, and
a deadline may lie between them. A Resume Grant needs the credential of the
Session it replaces; the query would also admit the successor of a credential
revoked as `planned_rotation`, but no statement of the code writes
`rotation_predecessor_id` or that kind of revocation (`RevokeAgentCredential`
writes `manual`), so that case has no reachable state and is left out. A Core's
registry of cancel functions is in its memory and left out: a call that it
misses is one the Core never stops. A Result carries its
classification (`success`, `retryable`, `fatal`); a Result refused because
events are missing is a stuttering step. Contract negotiation, certificates and
tokens are the one condition `Principal`.

## Runs

| Run | Instance | Checks |
| --- | --- | --- |
| `lifecycle` | one Run, one Session, all actions, two offers and attempts | `TypeOK`, `Ownership`, `SlotAccounting`, `AttemptBudget`, `ResultAdopted`, `CancellationEvidence`, `TerminalIsFinal`, `StaleAttemptInert`, `LeaseWindow` |
| `contention` | two Runs, two workers of one Node | `Ownership`, `SlotAccounting` |
| `reconnect` | one Run, two generations of a worker, two Cores | `Ownership`, `NewestGenerationLive`, `SingleWriter`, `StaleAttemptInert` |
| `admin` | two workers of one Node that report different capacities, drain, activation, revocation | `RowsConsistent`, `ActiveOnActiveNode`, `DrainFence` |
| `core` | two Runs that two Cores execute themselves | `Ownership`, `AttemptBudget`, `ResultAdopted`, `CancellationEvidence`, `TerminalIsFinal`, and under fairness `EveryRunEnds`, `EveryCoreCallEnds` |
| `liveness` | one Run, one Session, fairness | `EveryRunEnds`, `EverySlotReturns` |
| `claim_expired` | violated: a comment of `ClaimOffer` | `ExpiredOfferReleasedByClaim` |
| `reap_draining` | violated: the comment of the Session reaper | `StaleSessionReapable` |
| `revoked_node` | violated: a comment of the credential revocation | `ReconcilerReleasesSlots` |

What the properties say is written above each of them. In short: a Run has at
most one holder and only the holder's messages count (`Ownership`,
`StaleAttemptInert`); capacity is taken and given back exactly once
(`SlotAccounting`); attempt numbers and fencing tokens are dense and within
budget (`AttemptBudget`); a Run ends once, with the right Result, for good
(`ResultAdopted`, `TerminalIsFinal`); cancellation evidence is true
(`CancellationEvidence`); leases stay in their window (`LeaseWindow`); an old
generation of a worker never regains authority and a Result has one writer
(`NewestGenerationLive`, `SingleWriter`); administrative rows obey their
constraints and draining is a fence (`RowsConsistent`, `ActiveOnActiveNode`,
`DrainFence`); every Run ends, every slot returns and every cancelled call of a
Core ends, whoever stops answering (`EveryRunEnds`, `EverySlotReturns`,
`EveryCoreCallEnds`).

**Bounds.** `MaxOffers` and `MaxAttempts` are the code's own budgets, set to 2
so that a first attempt is fenced by a second one and the budget is then
exhausted. Durations are one to four ticks, ordered as in the default
configuration (offer < lease < attempt <= run, dispatch <= run), so that each
deadline can pass alone. `CreateBy` bounds when Runs are created and, with
`Tick`'s guard, the clock: past the last deadline nothing depends on it.
`MaxAttachments` bounds reconnects per Session. Two Sessions of one worker are
enough for a replacement, two workers of one Node for competition over its
slots, two Cores for a move of a Session between them. `contention` treats
Runs and workers as symmetric, which is sound: it checks only invariants, none
names a Run or a Session, and both Sessions have the same constants. The other
runs of the control plane use no symmetry: generations of a worker are ordered,
and they check temporal properties.

**Deadlock** is not checked in these runs: once every Run has ended and every
deadline has passed, a system in which no Session is left may stop.

**Fairness** (`FairSpec`): time passes, and the maintenance workers of every
Core keep taking the oldest due row. Nothing is assumed of workers, owners and
administrators. A transaction that fails ends its batch
(`ReconcileBatch` returns the error), so a row that fails each time can keep
all later rows waiting; the fairness of a reconciler step is therefore
conditioned on no due row failing, and `EveryRunEnds` and `EverySlotReturns`
name that exception. Cancelled Core calls are reaped first and hold no slot, so
`EveryCoreCallEnds` needs none. The only row that fails for ever is one whose slot is on a revoked
Node.

**Disagreements found.** (1) `ClaimOffer`'s comment says that an expired offer is
released in the same transaction; the query that would find it filters it out,
and a unique index then refuses new offers for that Session until the
reconciler has run. (2) The Session reaper cannot close a drained Session that
has work in flight: its row would have capacity 0 below its inflight count,
which a CHECK constraint allows only in status `draining`. (3) A slot on a
revoked Node is never released: a trigger makes the row immutable, the
reconciler's transaction fails, and its batch stops there every time.
Also visible in the models, without a statement in the code that they would
contradict: `runtimeCancellationTransitionAllowed` allows `stopping` to
`unsupported`, which a CHECK constraint refuses; and an expired Resume Grant is
never revoked and so blocks another one for its attempt for good.

## Proofs

The theorems hold for any numbers of Runs, Sessions, Nodes and Cores and any
durations and budgets that satisfy the assumptions named in `RuntimeState`
(budgets are positive, deadlines are ordered as the configuration validates).

- `RuntimeTypeProofs`: `TypeCorrect`, that is `Spec => []TypeOK`. The counters'
  bounds need one more fact, `ExecutionCounted`: a Run that executes has
  counted its attempt, so the table of retry delays is never read at 0.
- `RuntimeOwnershipProofs` and `RuntimeSettlementProofs`: `OwnershipCorrect`,
  `ResultAdoptedCorrect` and `CancellationEvidenceCorrect`. None of the three is
  inductive. `OwnershipInv` joins them and adds what the code relies on and
  never compares: offers, fence and latest attempt of a Run advance together,
  so the row of a new offer is always unused (`OfferInv`); status and dispatch
  state end together; a cancellation that waits for an answer has a target. The
  first module states the invariant and proves that leases and the reconciler
  preserve it; the second has Results, cancellations, Sessions and the theorems.
  There is one lemma per way of writing a Run (`TakenBack`, `EndedHeld`,
  `Offered`, `StillHeld`, the two `Advance…` lemmas), one per action and one per
  group of actions.
- `RuntimeFinalityProofs`: the action properties `StaleAttemptInertCorrect` and
  `TerminalIsFinalCorrect`, from the same invariant: every write goes to a row
  that `Touchable` describes, or to a Run that is still open.

Only model-checked so far: `SlotAccounting` and `AttemptBudget` (cardinalities),
`LeaseWindow`, `NewestGenerationLive`, `RowsConsistent`, `ActiveOnActiveNode`,
`SingleWriter`, `DrainFence`, and the liveness properties, which are beyond the
proof system.

## The effect outbox

`EffectOutbox` stands alone: it starts where the finalizer has inserted the
Effects. `eff` is `run_effect_outbox`, `del` the delivery row with the Effect's
id (for a parent completion, the event), `job[w][e]` the goroutine of a worker
for an Effect. Unlike the control plane's operations a handler is not one
transaction, so each of its statements, and its HTTP request, is an action;
`Crash`, `StoreFails` and `FinishFails` strike between any two, and a write may
be committed and its answer lost. An owner token is a number drawn per batch.
Endpoint stands for everything the ON CONFLICT clause compares.

| Run | Instance | Shows |
| --- | --- | --- |
| `effects` | 1 Effect of any kind, 2 workers, 2 endpoints, 2 attempts, 1 replay | `LeaseExclusive`, `FinalDelivery`, `BoundedDelivery`, `SucceededMeansDelivered`, `OneEndpoint` |
| `effects_settle` | 2 callbacks, 1 worker, batches of 1 | `EveryEffectSettles` |
| `effects_replay` | 1 webhook, 1 worker, 1 replay | violated: a replay may keep old attempts on the delivery row |

Two attempts are enough for a first, a last and a stale claim; two workers for a
claim that another overtakes. Two endpoints let the target change between the
read and the insertion: `OneEndpoint` says that every request of an Effect still
goes to the endpoint that its delivery row was first inserted with. Workers and
endpoints are symmetric in `effects`: its properties treat all of them alike. `EveryEffectSettles` assumes that time goes on, that
an uninterrupted handler goes on (its requests have timeouts), and that a
worker, whose loop ticks for as long as the process lives, is not stopped in
every pass between its two statements (strong fairness of the claim). Nothing is
assumed of operators, receivers or the store. Left out: rows that a concurrent
claim has locked (`SKIP LOCKED`), the subscription that a callback's failures
count on, two operators replaying one Effect, and the
wake-up schedule. Nothing calls `Replay` outside the tests yet. This module is
model-checked only.

## Plan

1. `EventStore` (`event_store.go`): client event sequences, missing ranges as a
   pure function against a reference definition, and the Result that waits for
   them.
2. Signals (`signal_outbox*.go`, `dispatch_wake_reconciler.go`, `wake_hub.go`):
   a wake-up may be lost or doubled, the reconciling pass makes up for it.
3. `RunLifecycle`, an abstract specification of a Run, and the control plane
   shown to implement it.
4. Workflows, task callbacks with the states of their subscriptions, registry proxy runs, external executions: claims
   that are or are not fenced by a generation.
5. Node upgrades, cutover, cluster membership, Redis Session leases.
6. Proofs of `SlotAccounting`, `AttemptBudget`, `LeaseWindow`,
   `NewestGenerationLive`, `SingleWriter`, and of the refinement.

## Not modelled

Wire formats, authentication, cryptography, SQL query plans, paging, metrics,
logs, the contents of inputs, Results and ledgers, and the read models of the
dashboards: they have no state whose interleavings matter, or are out of TLC's
reach. Parts named in the plan are not modelled yet.
