----------------------------- MODULE EffectOutbox -----------------------------
(***************************************************************************)
(* The outbox of a finished Run's side effects, the workers that drain it, *)
(* the downstream delivery rows they keep and the replay of dead letters.  *)
(*                                                                         *)
(* An Effect is a webhook of the Agent, a callback of a subscription, a    *)
(* delivery to the owner's default target, or the completion event of a    *)
(* parent Run.  A worker claims a batch under a fresh owner token and then *)
(* handles every Effect with several statements and one HTTP request, so   *)
(* claims expire, workers crash and late answers arrive between them: each *)
(* statement is one action here.  Time passes only while a lease or a      *)
(* retry delay waits for it.                                               *)
(***************************************************************************)
EXTENDS Integers, FiniteSets

CONSTANTS
  Effects,        \* rows that the finalizer inserted
  Kinds,          \* effect_types that they may have
  Workers,        \* processes that run ProcessOnce
  Urls,           \* endpoints that a target may name
  NULL,           \* no endpoint: cleared webhook, deleted target
  MaxAttempts,    \* max_attempts
  LeaseDuration,
  RetryDelay,     \* runEffectRetryDelay, by attempt
  BatchSize,
  MaxReplays      \* bound on the replays of one Effect

HttpKinds == {"run.agent_webhook", "run.task_callback", "run.default_delivery"}

ASSUME OutboxAssumption ==
  /\ Kinds \subseteq HttpKinds \cup {"run.parent_completion"}
  /\ NULL \notin Urls /\ Urls # {}
  /\ MaxAttempts \in Nat \ {0}
  /\ LeaseDuration \in Nat \ {0}
  /\ RetryDelay \in [1 .. MaxAttempts -> Nat]
  /\ BatchSize \in Nat \ {0}
  /\ MaxReplays \in Nat

VARIABLES
  now,      \* clock_timestamp()
  gen,      \* owner tokens drawn so far
  eff,      \* run_effect_outbox
  del,      \* the delivery row, or the parent's event, with the Effect's id
  target,   \* where webhooks and default deliveries go now
  pass,     \* where in ProcessOnce a worker is
  job,      \* the goroutine of a worker for an Effect
  admin,    \* where in Replay an operator is
  sent      \* what the receiver saw

vars == <<now, gen, eff, del, target, pass, job, admin, sent>>

MaxClaims == MaxAttempts * (MaxReplays + 1) * Cardinality(Effects)

EffectRow == [kind : Kinds, status : {"pending", "processing", "succeeded", "dead_letter"},
              owner : 0 .. MaxClaims, leaseExp : Nat, avail : Nat, count : 0 .. MaxAttempts]

DeliveryRow == [status : {"absent", "pending", "success", "failed"},
                count : 0 .. MaxAttempts, url : Urls \cup {NULL}]

Results == {"succeeded", "retryable", "permanent"}

Job == [pc : {"none", "claimed", "insert", "post", "record", "superseded", "enqueue", "finish"},
        owner : 0 .. MaxClaims, count : 0 .. MaxAttempts, url : Urls \cup {NULL},
        mark : {"none", "success", "pending", "failed"}, result : Results]

NoJob == [pc |-> "none", owner |-> 0, count |-> 0, url |-> NULL,
          mark |-> "none", result |-> "retryable"]

TypeOK ==
  /\ now \in Nat
  /\ gen \in 0 .. MaxClaims
  /\ eff \in [Effects -> EffectRow]
  /\ del \in [Effects -> DeliveryRow]
  /\ target \in [Effects -> Urls \cup {NULL}]
  /\ pass \in [Workers -> {"idle", "claim"}]
  /\ job \in [Workers -> [Effects -> Job]]
  /\ admin \in [Effects -> {"idle", "reset", "replay"}]
  /\ sent \in [Effects -> [posts : 0 .. MaxClaims, urls : SUBSET (Urls \cup {NULL}),
                           accepted : BOOLEAN, replays : 0 .. MaxReplays]]

Init ==
  /\ now = 0
  /\ gen = 0
  /\ \E kind \in [Effects -> Kinds] :
       eff = [e \in Effects |-> [kind |-> kind[e], status |-> "pending", owner |-> 0,
                                 leaseExp |-> 0, avail |-> 0, count |-> 0]]
  /\ del = [e \in Effects |-> [status |-> "absent", count |-> 0, url |-> NULL]]
  /\ target \in [Effects -> Urls]
  /\ pass = [w \in Workers |-> "idle"]
  /\ job = [w \in Workers |-> [e \in Effects |-> NoJob]]
  /\ admin = [e \in Effects |-> "idle"]
  /\ sent = [e \in Effects |-> [posts |-> 0, urls |-> {}, accepted |-> FALSE, replays |-> 0]]

-----------------------------------------------------------------------------
(* ProcessOnce: clean up, claim a batch, handle it, start over. *)

Expired(e) == eff[e].status = "processing" /\ eff[e].leaseExp <= now

DeadLettered(row) == [row EXCEPT !.status = "dead_letter", !.owner = 0, !.leaseExp = 0]

(* Mutant: exhausted claims are not cleaned up. *)
KeepExpired(w) ==
  /\ pass[w] = "idle"
  /\ \A e \in Effects : job[w][e].pc = "none"
  /\ pass' = [pass EXCEPT ![w] = "claim"]
  /\ UNCHANGED <<now, gen, eff, del, target, job, admin, sent>>

(* The claims whose lease ran out on their last attempt become dead letters. *)
DeadLetterExpired(w) ==
  /\ pass[w] = "idle"
  /\ \A e \in Effects : job[w][e].pc = "none"
  /\ pass' = [pass EXCEPT ![w] = "claim"]
  /\ eff' = [e \in Effects |-> IF Expired(e) /\ eff[e].count >= MaxAttempts
                               THEN DeadLettered(eff[e]) ELSE eff[e]]
  /\ UNCHANGED <<now, gen, del, target, job, admin, sent>>

(* Mutant: one attempt too many. *)
ClaimableOnceMore(e) ==
  /\ eff[e].count <= MaxAttempts
  /\ \/ eff[e].status = "pending" /\ eff[e].avail <= now
     \/ Expired(e)

(* Mutant: the lease of a claim is not respected. *)
ClaimableWhileLeased(e) ==
  /\ eff[e].count < MaxAttempts
  /\ \/ eff[e].status = "pending" /\ eff[e].avail <= now
     \/ eff[e].status = "processing"

Claimable(e) ==
  /\ eff[e].count < MaxAttempts
  /\ \/ eff[e].status = "pending" /\ eff[e].avail <= now
     \/ Expired(e)

DueAt(e) == IF eff[e].status = "processing" THEN eff[e].leaseExp ELSE eff[e].avail

(* The batch: the claimable Effects that are due longest. *)
Batch(b) ==
  LET due == {e \in Effects : Claimable(e)} IN
  /\ b \subseteq due
  /\ Cardinality(b) = IF Cardinality(due) < BatchSize THEN Cardinality(due) ELSE BatchSize
  /\ \A e \in b, f \in due \ b : DueAt(e) <= DueAt(f)

Claimed(row) == [row EXCEPT !.status = "processing", !.owner = gen + 1,
                            !.leaseExp = now + LeaseDuration, !.count = @ + 1]

ClaimRunEffects(w) ==
  /\ pass[w] = "claim"
  /\ pass' = [pass EXCEPT ![w] = "idle"]
  /\ \E b \in SUBSET Effects :
       /\ Batch(b)
       /\ gen' = IF b = {} THEN gen ELSE gen + 1
       /\ eff' = [e \in Effects |-> IF e \in b THEN Claimed(eff[e]) ELSE eff[e]]
       /\ job' = [job EXCEPT ![w] = [e \in Effects |->
                    IF e \in b
                    THEN [NoJob EXCEPT !.pc = "claimed", !.owner = gen + 1,
                                       !.count = eff[e].count + 1]
                    ELSE NoJob]]
  /\ UNCHANGED <<now, del, target, admin, sent>>

(* The guard of every statement that a handler ends with: the row is still *)
(* under this claim, by owner token and attempt number.                    *)
Current(w, e) ==
  /\ eff[e].status = "processing"
  /\ eff[e].owner = job[w][e].owner
  /\ eff[e].count = job[w][e].count

Goes(w, e, j) == job' = [job EXCEPT ![w][e] = j]

Finishes(w, e, result) == Goes(w, e, [job[w][e] EXCEPT !.pc = "finish", !.result = result])

-----------------------------------------------------------------------------
(* The handlers of the three kinds of HTTP delivery. *)

(* What a handler does with the delivery row it read; reachable says that  *)
(* the target still has its secret.                                        *)
FollowRow(w, e, reachable) ==
  \/ del[e].status = "success" /\ Finishes(w, e, "succeeded")
  \/ del[e].status = "failed" /\ Finishes(w, e, "permanent")
  \/ /\ del[e].status = "pending"
     /\ reachable
     /\ Goes(w, e, [job[w][e] EXCEPT !.pc = "post"])
  \/ /\ del[e].status = "pending"
     /\ ~reachable
     /\ Goes(w, e, [job[w][e] EXCEPT !.pc = "record", !.mark = "failed", !.result = "permanent"])

(* A handler that finds no row reads the target and then inserts the row. *)
PrepareRow(w, e, url) ==
  /\ del[e].status = "absent"
  /\ IF url = NULL THEN Finishes(w, e, "permanent")
     ELSE Goes(w, e, [job[w][e] EXCEPT !.pc = "insert", !.url = url])

AttemptAgentWebhook(w, e) ==
  /\ eff[e].kind = "run.agent_webhook"
  /\ job[w][e].pc = "claimed"
  /\ PrepareRow(w, e, target[e]) \/ FollowRow(w, e, target[e] # NULL)
  /\ UNCHANGED <<now, gen, eff, del, target, pass, admin, sent>>

(* A subscription keeps its row and its secret even when it is deleted. *)
AttemptTaskCallback(w, e) ==
  /\ eff[e].kind = "run.task_callback"
  /\ job[w][e].pc = "claimed"
  /\ \/ del[e].status = "absent" /\ Goes(w, e, [job[w][e] EXCEPT !.pc = "insert"])
     \/ FollowRow(w, e, TRUE)
  /\ UNCHANGED <<now, gen, eff, del, target, pass, admin, sent>>

AttemptDefaultDelivery(w, e) ==
  /\ eff[e].kind = "run.default_delivery"
  /\ job[w][e].pc = "claimed"
  /\ PrepareRow(w, e, target[e]) \/ FollowRow(w, e, target[e] # NULL)
  /\ UNCHANGED <<now, gen, eff, del, target, pass, admin, sent>>

(* A delivery row refers to its target by a foreign key. *)
TargetGone(e) == eff[e].kind = "run.default_delivery" /\ target[e] = NULL

(* Mutant: the endpoint on a row that another claim has inserted is        *)
(* overwritten.                                                            *)
MaterializeOver(w, e) ==
  /\ job[w][e].pc = "insert"
  /\ IF TargetGone(e)
     THEN /\ Finishes(w, e, "retryable")
          /\ del' = del
     ELSE /\ del' = [del EXCEPT ![e].url = job[w][e].url,
                               ![e].status = IF @ = "absent" THEN "pending" ELSE @]
          /\ Goes(w, e, [job[w][e] EXCEPT !.pc = "claimed", !.url = NULL])
  /\ UNCHANGED <<now, gen, eff, target, pass, admin, sent>>

(* INSERT ... ON CONFLICT: a row that another claim has inserted is taken  *)
(* over when it is the same; one with another endpoint yields no row,      *)
(* which the handler classifies as permanent.                              *)
Materialize(w, e) ==
  /\ job[w][e].pc = "insert"
  /\ \/ /\ del[e].status = "absent"
        /\ ~TargetGone(e)
        /\ del' = [del EXCEPT ![e] = [status |-> "pending", count |-> 0, url |-> job[w][e].url]]
        /\ Goes(w, e, [job[w][e] EXCEPT !.pc = "claimed", !.url = NULL])
     \/ /\ del[e].status = "absent"
        /\ TargetGone(e)
        /\ Finishes(w, e, "retryable")
        /\ del' = del
     \/ /\ del[e].status # "absent"
        /\ IF del[e].url = job[w][e].url /\ ~TargetGone(e)
           THEN Goes(w, e, [job[w][e] EXCEPT !.pc = "claimed", !.url = NULL])
           ELSE Finishes(w, e, "permanent")
        /\ del' = del
  /\ UNCHANGED <<now, gen, eff, target, pass, admin, sent>>

(* The one HTTP request of a claim, to the endpoint on the delivery row.   *)
(* A failed last attempt ends the row.                                     *)
Deliver(w, e) ==
  /\ job[w][e].pc = "post"
  /\ \E ok \in BOOLEAN :
       /\ sent' = [sent EXCEPT ![e].posts = @ + 1, ![e].urls = @ \cup {del[e].url},
                                  ![e].accepted = @ \/ ok]
       /\ Goes(w, e, [job[w][e] EXCEPT
            !.pc = "record",
            !.mark = IF ok THEN "success"
                     ELSE IF job[w][e].count >= MaxAttempts THEN "failed" ELSE "pending",
            !.result = IF ok THEN "succeeded" ELSE "retryable"])
  /\ UNCHANGED <<now, gen, eff, del, target, pass, admin>>

(* The statement matches the row of the current claim once. *)
Markable(w, e) ==
  /\ del[e].status = "pending"
  /\ del[e].count < job[w][e].count
  /\ Current(w, e)

RecordDelivery(w, e) ==
  /\ job[w][e].pc = "record"
  /\ \/ /\ Markable(w, e)
        /\ del' = [del EXCEPT ![e].status = job[w][e].mark, ![e].count = job[w][e].count]
        /\ \E result \in {job[w][e].result, "retryable"} : Finishes(w, e, result)
     \/ /\ ~Markable(w, e)
        /\ Goes(w, e, [job[w][e] EXCEPT !.pc = "superseded"])
        /\ del' = del
  /\ UNCHANGED <<now, gen, eff, target, pass, admin, sent>>

(* No row matched: the state that the row has now decides. *)
ResolveSuperseded(w, e) ==
  /\ job[w][e].pc = "superseded"
  /\ Finishes(w, e, CASE del[e].status = "success" -> "succeeded"
                      [] del[e].status = "failed" -> "permanent"
                      [] OTHER -> "retryable")
  /\ UNCHANGED <<now, gen, eff, del, target, pass, admin, sent>>

(* The store fails a statement of a handler. *)
StoreFails(w, e) ==
  /\ job[w][e].pc \in {"claimed", "insert", "record", "superseded", "enqueue"}
  /\ Finishes(w, e, "retryable")
  /\ UNCHANGED <<now, gen, eff, del, target, pass, admin, sent>>

-----------------------------------------------------------------------------
(* Mutant: the callbacks are queued without the event. *)
CompleteWithoutEvent(w, e) ==
  /\ eff[e].kind = "run.parent_completion"
  /\ job[w][e].pc = "claimed"
  /\ Goes(w, e, [job[w][e] EXCEPT !.pc = "enqueue"])
  /\ UNCHANGED <<now, gen, eff, del, target, pass, admin, sent>>

(* The completion of a parent: an event whose id is derived from the       *)
(* Effect, written once and returned again to a retry, and then the        *)
(* callbacks of the parent's subscribers.                                  *)
AttemptParentCompletion(w, e) ==
  /\ eff[e].kind = "run.parent_completion"
  /\ job[w][e].pc = "claimed"
  /\ del' = [del EXCEPT ![e].status = "success"]
  /\ Goes(w, e, [job[w][e] EXCEPT !.pc = "enqueue"])
  /\ UNCHANGED <<now, gen, eff, target, pass, admin, sent>>

EnqueueRunEvent(w, e) ==
  /\ job[w][e].pc = "enqueue"
  /\ Finishes(w, e, "succeeded")
  /\ UNCHANGED <<now, gen, eff, del, target, pass, admin, sent>>

-----------------------------------------------------------------------------
(* The end of processClaimed. *)

Succeeded(row) == [row EXCEPT !.status = "succeeded", !.owner = 0, !.leaseExp = 0]

(* Mutant: a retry forgets the attempts. *)
RetryAfresh(row) ==
  [row EXCEPT !.status = IF row.count >= MaxAttempts THEN "dead_letter" ELSE "pending",
              !.owner = 0, !.leaseExp = 0, !.avail = now + RetryDelay[row.count], !.count = 0]

RetryOrDeadLetter(row) ==
  [row EXCEPT !.status = IF row.count >= MaxAttempts THEN "dead_letter" ELSE "pending",
              !.owner = 0, !.leaseExp = 0, !.avail = now + RetryDelay[row.count]]

Settled(row, result) ==
  CASE result = "succeeded" -> Succeeded(row)
    [] result = "permanent" -> DeadLettered(row)
    [] OTHER -> RetryOrDeadLetter(row)

FinishEffect(w, e) ==
  /\ job[w][e].pc = "finish"
  /\ eff' = IF Current(w, e) THEN [eff EXCEPT ![e] = Settled(@, job[w][e].result)] ELSE eff
  /\ Goes(w, e, NoJob)
  /\ UNCHANGED <<now, gen, del, target, pass, admin, sent>>

(* The store fails that statement: the claim is left to its lease. *)
FinishFails(w, e) ==
  /\ job[w][e].pc = "finish"
  /\ Goes(w, e, NoJob)
  /\ UNCHANGED <<now, gen, eff, del, target, pass, admin, sent>>

(* A worker process stops: its goroutines are gone. *)
Crash(w) ==
  /\ pass' = [pass EXCEPT ![w] = "idle"]
  /\ job' = [job EXCEPT ![w] = [e \in Effects |-> NoJob]]
  /\ UNCHANGED <<now, gen, eff, del, target, admin, sent>>

-----------------------------------------------------------------------------
(* Replay: read, reset downstream, then revive the Effect; an operator's   *)
(* request may stop in between.  One operator at a time replays an Effect. *)
StartReplay(e) ==
  /\ admin[e] = "idle"
  /\ eff[e].status = "dead_letter"
  /\ sent[e].replays < MaxReplays
  /\ admin' = [admin EXCEPT ![e] = "reset"]
  /\ UNCHANGED <<now, gen, eff, del, target, pass, job, sent>>

(* Mutant: any delivery row is reset. *)
ResetAnyDelivery(e) ==
  LET resets == eff[e].status = "dead_letter" /\ del[e].status # "absent" IN
  /\ admin[e] = "reset"
  /\ del' = IF resets THEN [del EXCEPT ![e].status = "pending", ![e].count = 0] ELSE del
  /\ admin' = [admin EXCEPT ![e] = "replay"]
  /\ UNCHANGED <<now, gen, eff, target, pass, job, sent>>

ResetDelivery(e) ==
  LET resets == del[e].status = "failed" /\ eff[e].status = "dead_letter" IN
  /\ admin[e] = "reset"
  /\ del' = IF resets THEN [del EXCEPT ![e].status = "pending", ![e].count = 0] ELSE del
  /\ admin' = [admin EXCEPT ![e] = IF resets \/ del[e].status # "failed" THEN "replay" ELSE "idle"]
  /\ UNCHANGED <<now, gen, eff, target, pass, job, sent>>

ReplayRunEffect(e) ==
  /\ admin[e] = "replay"
  /\ admin' = [admin EXCEPT ![e] = "idle"]
  /\ IF eff[e].status = "dead_letter" /\ sent[e].replays < MaxReplays
     THEN /\ eff' = [eff EXCEPT ![e].status = "pending", ![e].avail = now, ![e].count = 0]
          /\ sent' = [sent EXCEPT ![e].replays = @ + 1]
     ELSE UNCHANGED <<eff, sent>>
  /\ UNCHANGED <<now, gen, del, target, pass, job>>

AbandonReplay(e) ==
  /\ admin[e] # "idle"
  /\ admin' = [admin EXCEPT ![e] = "idle"]
  /\ UNCHANGED <<now, gen, eff, del, target, pass, job, sent>>

-----------------------------------------------------------------------------
(* The owner changes or clears a webhook, or changes or deletes a delivery *)
(* target; a deleted target does not come back.                            *)
ChangeTarget(e) ==
  /\ eff[e].kind \in {"run.agent_webhook", "run.default_delivery"}
  /\ eff[e].kind = "run.default_delivery" => target[e] # NULL
  /\ \E url \in Urls \cup {NULL} : target' = [target EXCEPT ![e] = url]
  /\ UNCHANGED <<now, gen, eff, del, pass, job, admin, sent>>

(* Time passes while a lease runs or a retry waits. *)
Tick ==
  /\ \E e \in Effects :
       \/ eff[e].status = "processing" /\ eff[e].leaseExp > now
       \/ eff[e].status = "pending" /\ eff[e].avail > now
  /\ now' = now + 1
  /\ UNCHANGED <<gen, eff, del, target, pass, job, admin, sent>>

-----------------------------------------------------------------------------
Handle(w, e) ==
  \/ AttemptAgentWebhook(w, e)
  \/ AttemptTaskCallback(w, e)
  \/ AttemptDefaultDelivery(w, e)
  \/ Materialize(w, e)
  \/ Deliver(w, e)
  \/ RecordDelivery(w, e)
  \/ ResolveSuperseded(w, e)
  \/ AttemptParentCompletion(w, e)
  \/ EnqueueRunEvent(w, e)
  \/ FinishEffect(w, e)

Work(w) ==
  \/ DeadLetterExpired(w)
  \/ ClaimRunEffects(w)
  \/ \E e \in Effects : Handle(w, e)

Replay(e) == StartReplay(e) \/ ResetDelivery(e) \/ ReplayRunEffect(e) \/ AbandonReplay(e)

Next ==
  \/ Tick
  \/ \E w \in Workers : Work(w) \/ Crash(w) \/ \E e \in Effects : StoreFails(w, e) \/ FinishFails(w, e)
  \/ \E e \in Effects : Replay(e) \/ ChangeTarget(e)

Spec == Init /\ [][Next]_vars

(* Time goes on, a handler that is not interrupted goes on, and a worker   *)
(* is not stopped in every single pass between cleaning up and claiming.   *)
FairSpec ==
  /\ Spec
  /\ WF_vars(Tick)
  /\ \A w \in Workers : WF_vars(DeadLetterExpired(w)) /\ SF_vars(ClaimRunEffects(w))
  /\ \A w \in Workers : \A e \in Effects : WF_vars(Handle(w, e))

-----------------------------------------------------------------------------
(* An Effect is marked succeeded only when its delivery row, or the        *)
(* parent's event, says so, and an HTTP delivery says so only after the    *)
(* receiver accepted a request, whatever claims expired in between.        *)
SucceededMeansDelivered == \A e \in Effects :
  /\ eff[e].status = "succeeded" => del[e].status = "success"
  /\ del[e].status = "success" /\ eff[e].kind \in HttpKinds => sent[e].accepted

(* Retries, expired leases and crashes together never send more requests   *)
(* than the attempts that an Effect has, once over for every replay.       *)
BoundedDelivery == \A e \in Effects : sent[e].posts <= MaxAttempts * (sent[e].replays + 1)

(* One Effect, one endpoint: the owner may change or clear the target      *)
(* between a handler's read and its insertion, and two claims may read     *)
(* different ones, but every request of an Effect, replays included, goes  *)
(* to the endpoint that the first insertion of its delivery row fixed.     *)
OneEndpoint == \A e \in Effects : sent[e].urls \subseteq {del[e].url}

(* While its lease runs, a claimed Effect is changed only by the goroutine *)
(* that holds the claim: owner token and attempt number fence late ones.   *)
LeaseExclusive == [][\A e \in Effects :
  eff[e].status = "processing" /\ eff[e].leaseExp > now /\ eff'[e] # eff[e] =>
    \E w \in Workers : Current(w, e) /\ job[w][e].pc = "finish" /\ job'[w][e] = NoJob]_vars

(* No late answer, retry or replay takes back a recorded delivery.         *)
FinalDelivery == [][\A e \in Effects :
  /\ del[e].status = "success" => del'[e] = del[e]
  /\ eff[e].status = "succeeded" => eff'[e] = eff[e]]_vars

(* Every Effect that waits or is being handled ends delivered or as a dead *)
(* letter, although workers crash, statements fail and leases expire.      *)
EveryEffectSettles == \A e \in Effects :
  eff[e].status \in {"pending", "processing"} ~> eff[e].status \in {"succeeded", "dead_letter"}

(* The comment on a reset that changes no row takes a pending delivery row *)
(* for one that was never created or was already reset: a replayed Effect  *)
(* starts with no attempt on its delivery row.                             *)
ReplayStartsAfresh == \A e \in Effects :
  eff[e].status = "pending" /\ eff[e].count = 0 /\ del[e].status = "pending" => del[e].count = 0
=============================================================================
