------------------------------ MODULE MCRuntime ------------------------------
(* Instances of the Runtime control plane for TLC. *)
EXTENDS RuntimeProperties, TLC

CONSTANTS r1, r2, s1, s2, n1, w1, w2, k1, c1, c2

RuntimeMode == [r \in Runs |-> "runtime"]
CoreMode == [r \in Runs |-> "core"]
OneNode == [s \in Sessions |-> n1]
OneWorker == [s \in Sessions |-> w1]
OneCred == [s \in Sessions |-> k1]
Epochs == [s \in Sessions |-> IF s = s1 THEN 1 ELSE 2]
EnrolledCapacity == [n \in Nodes |-> 2]
Backoff == [n \in 1 .. MaxAttempts |-> n]
EveryWorker == [s \in Sessions |-> IF s = s1 THEN w1 ELSE w2]
OwnWorker == [s \in Sessions |-> s]
SameEpoch == [s \in Sessions |-> 1]

Symmetry == Permutations(Runs) \cup Permutations(Sessions)

(* Scenarios: parts of Next, so that each question gets larger bounds. *)

(* Workers that connect before the first Run and stay: offers, leases,     *)
(* Results, deadlines and cancellations compete for Runs and slots.  A     *)
(* cancelled worker stops or keeps silent.                                 *)
WorkNext ==
  \/ Tick
  \/ RunStep
  \/ LeaseStep
  \/ ResultStep
  \/ \E r \in Runs :
       CancelOwnedRun(r) \/ \E s \in Sessions : AckCancel(s, r, "stopped")
  \/ /\ \A r \in Runs : run[r].status = "absent"
     /\ \E s \in Sessions, c \in Cores, reported \in Reports : CreateSession(s, c, reported)

WorkSpec == Init /\ [][WorkNext]_vars

(* Workers that also lose their connection and come back, to any Core and  *)
(* in a new Session.                                                       *)
ReconnectNext ==
  \/ Tick
  \/ RunStep
  \/ LeaseStep
  \/ ResultStep
  \/ \E s \in Sessions, c \in Cores, reported \in Reports :
       CreateSession(s, c, reported) \/ AttachSession(s, c, reported)
  \/ \E s \in Sessions : CloseSession(s, "offline")

ReconnectSpec == Init /\ [][ReconnectNext]_vars

=============================================================================
