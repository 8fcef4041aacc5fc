---------------------------- MODULE MCEffectOutbox ----------------------------
(* Small instances of the outbox. *)
EXTENDS EffectOutbox, TLC

AllKinds == HttpKinds \cup {"run.parent_completion"}
Callback == {"run.task_callback"}
Webhook  == {"run.agent_webhook"}
Delays   == [n \in 1 .. MaxAttempts |-> 1]

(* Workers and endpoints are interchangeable. *)
Symmetry == Permutations(Workers) \cup Permutations(Urls)
=============================================================================
