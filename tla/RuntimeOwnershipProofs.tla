------------------------ MODULE RuntimeOwnershipProofs ------------------------
(***************************************************************************)
(* The inductive invariant behind the ownership of Runs, the Results they  *)
(* adopt and the evidence of their cancellation, and its preservation by   *)
(* the lease service and the deadline reconciler.                          *)
(*                                                                         *)
(* The inductive invariant has one part about a Run row and its            *)
(* cancellation and one part about each offer of the Run.  It adds to the  *)
(* properties what the services never compare but rely on: the offers of a *)
(* Run are numbered by its fencing token, so a new offer never meets an    *)
(* old attempt row, and dispatch state and status end together.            *)
(***************************************************************************)
EXTENDS RuntimeProperties, TLAPS

Waiting == {"requested", "delivered", "stopping"}

RowInv(r) ==
  /\ run[r].fence = run[r].offers
  /\ run[r].latest = run[r].offers
  /\ run[r].active \in {0, run[r].offers}
  /\ run[r].active # 0 <=> /\ run[r].status = "running"
                           /\ run[r].dispatch \in {"offered", "executing"}
  /\ run[r].status = "absent" => run[r].dispatch = "pending"
  /\ run[r].status \in Terminal <=> run[r].dispatch \in TerminalDispatch
  /\ run[r].cancel = cancel[r].state
  /\ cancel[r].state # "none" <=> run[r].status = "canceled"
  /\ cancel[r].target # 0 => cancel[r].target = run[r].latest /\ cancel[r].state # "none"
  /\ cancel[r].state \in Waiting => cancel[r].target # 0
  /\ run[r].settled = IF run[r].status \in Terminal THEN 1 ELSE 0
  /\ run[r].result # 0 => run[r].result = run[r].latest /\ run[r].status \in Terminal
  /\ run[r].status = "success" => run[r].result # 0

OfferInv(r, n) ==
  LET a == <<r, n>> IN
  /\ att[a].executor # "none" <=> n <= run[r].offers
  /\ att[a].executor # "none" => att[a].fence = n
  /\ n = run[r].active =>
       /\ Unfinished(a)
       /\ att[a].result = "none"
       /\ att[a].leaseExp = run[r].lease
       /\ att[a].no = IF run[r].dispatch = "offered" THEN 0 ELSE run[r].attempts
  /\ Unfinished(a) => \/ n = run[r].active
                      \/ run[r].status = "canceled" /\ n = cancel[r].target
  /\ n = cancel[r].target =>
       /\ cancel[r].state \in {"stopped", "unconfirmed"}
            => att[a].outcome = "canceled" /\ att[a].slot = NULL
       /\ cancel[r].state \in Waiting => Unfinished(a)
  /\ run[r].status = "success" /\ n = run[r].result => att[a].outcome = "success"
  /\ att[a].result \in {"success", "fatal"} =>
       n = run[r].latest /\ run[r].status \in {"success", "failed", "timeout"}

OwnershipInv == \A r \in Runs : RowInv(r) /\ \A n \in Offers : OfferInv(r, n)

-----------------------------------------------------------------------------
(* The Runs that a transaction does not touch keep the invariant. *)
LEMMA Frame ==
  ASSUME OwnershipInv, NEW r \in Runs,
         \A q \in Runs \ {r} : /\ run'[q] = run[q]
                               /\ cancel'[q] = cancel[q]
                               /\ \A n \in Offers : att'[<<q, n>>] = att[<<q, n>>],
         RowInv(r)', \A n \in Offers : OfferInv(r, n)'
  PROVE  OwnershipInv'
<1>. SUFFICES ASSUME NEW q \in Runs \ {r}
              PROVE  RowInv(q)' /\ \A n \in Offers : OfferInv(q, n)'
  BY DEF OwnershipInv
<1>1. run'[q] = run[q] /\ cancel'[q] = cancel[q]
  OBVIOUS
<1>2. RowInv(q)'
  <2>1. RowInv(q)
    BY DEF OwnershipInv
  <2>. QED
    BY <1>1, <2>1 DEF RowInv
<1>3. ASSUME NEW n \in Offers PROVE OfferInv(q, n)'
  <2>1. att'[<<q, n>>] = att[<<q, n>>]
    OBVIOUS
  <2>2. OfferInv(q, n)
    BY DEF OwnershipInv
  <2>. QED
    BY <1>1, <2>1, <2>2 DEF OfferInv, Unfinished
<1>. QED
  BY <1>2, <1>3

(* A transaction that writes no Run, attempt or cancellation keeps the *)
(* invariant.                                                          *)
LEMMA FrameUnchanged ==
  ASSUME OwnershipInv, UNCHANGED <<run, att, cancel>>
  PROVE  OwnershipInv'
BY DEF OwnershipInv, RowInv, OfferInv, Unfinished

(* The row of a Run that is still running has no cancellation and no Result. *)
LEMMA RunningRow ==
  ASSUME OwnershipInv, NEW r \in Runs, run[r].status = "running"
  PROVE  /\ RowInv(r)
         /\ run[r].cancel = "none"
         /\ run[r].result = 0
         /\ run[r].settled = 0
         /\ cancel[r].target = 0
         /\ cancel[r].state = "none"
<1>1. RowInv(r)
  BY DEF OwnershipInv
<1>. QED
  BY <1>1 DEF RowInv, Terminal

(* The row of a Run numbers its offers by the fencing token. *)
LEMMA NumberedRow ==
  ASSUME OwnershipInv, NEW r \in Runs
  PROVE  run[r].fence = run[r].offers /\ run[r].latest = run[r].offers
BY DEF OwnershipInv, RowInv

(* An offer that does not hold a running Run, and that a transaction leaves *)
(* alone, keeps its part of the invariant whatever happens to the Run.      *)
LEMMA OtherOffer ==
  ASSUME NEW r \in Runs, NEW m \in Offers, OfferInv(r, m),
         run[r].status = "running", m # run[r].active,
         m # run'[r].active, m # cancel'[r].target, m # run'[r].result,
         att'[<<r, m>>] = att[<<r, m>>],
         m <= run'[r].offers <=> m <= run[r].offers
  PROVE  OfferInv(r, m)'
BY DEF OfferInv, Unfinished

(* The offer counter of a Run is a natural number. *)
LEMMA RowTyped ==
  ASSUME TypeOK, NEW r \in Runs
  PROVE  run[r] \in RunRow /\ run[r].offers \in Nat
<1>1. run[r] \in RunRow
  BY DEF TypeOK
<1>. QED
  BY <1>1 DEF RunRow

(* What the shared row updates write and what they leave alone. *)
LEMMA SettledRow ==
  ASSUME NEW row \in RunRow, NEW status, NEW dispatch, NEW result
  PROVE  LET new == Settled(row, status, dispatch, result) IN
         /\ new.status = status
         /\ new.dispatch = dispatch
         /\ new.active = 0
         /\ new.result = result
         /\ new.settled = row.settled + 1
         /\ new.offers = row.offers
         /\ new.fence = row.fence
         /\ new.latest = row.latest
         /\ new.attempts = row.attempts
         /\ new.cancel = row.cancel
BY Zenon DEF Settled, RunRow

(* The same for a Run put back in the queue. *)
LEMMA UnassignedRow ==
  ASSUME NEW row \in RunRow, NEW dispatch, NEW next
  PROVE  LET new == Unassigned(row, dispatch, next) IN
         /\ new.status = row.status
         /\ new.dispatch = dispatch
         /\ new.active = 0
         /\ new.result = row.result
         /\ new.settled = row.settled
         /\ new.offers = row.offers
         /\ new.fence = row.fence
         /\ new.latest = row.latest
         /\ new.attempts = row.attempts
         /\ new.cancel = row.cancel
BY Zenon DEF Unassigned, RunRow

(* The same for FinishAttempt on an attempt row. *)
LEMMA FinishedRow ==
  ASSUME TypeOK, NEW a \in Attempts, NEW outcome, NEW result,
         FinishAttempt(a, outcome, result)
  PROVE  /\ \A b \in Attempts \ {a} : att'[b] = att[b]
         /\ att'[a].outcome = outcome
         /\ att'[a].result = result
         /\ att'[a].slot = NULL
         /\ att'[a].executor = att[a].executor
         /\ att'[a].session = att[a].session
         /\ att'[a].fence = att[a].fence
         /\ att'[a].no = att[a].no
         /\ att'[a].leaseExp = att[a].leaseExp
         /\ att'[a].deadline = att[a].deadline
<1> DEFINE row == [att[a] EXCEPT !.outcome = outcome, !.result = result, !.slot = NULL]
<1>1. att' = [att EXCEPT ![a] = row]
  BY Zenon DEF FinishAttempt, TypeOK
<1>2. /\ row.outcome = outcome
      /\ row.result = result
      /\ row.slot = NULL
      /\ row.executor = att[a].executor
      /\ row.session = att[a].session
      /\ row.fence = att[a].fence
      /\ row.no = att[a].no
      /\ row.leaseExp = att[a].leaseExp
      /\ row.deadline = att[a].deadline
  BY ZenonT(40) DEF TypeOK, AttemptRow
<1>3. att'[a] = row /\ \A b \in Attempts \ {a} : att'[b] = att[b]
  <2>. HIDE DEF row
  <2>. QED  BY <1>1, Zenon DEF TypeOK
<1>. QED
  BY <1>2, <1>3, Zenon

(* The offer ids of one Run. *)
LEMMA OfferId ==
  /\ \A r \in Runs, n \in Offers : <<r, n>> \in Attempts
  /\ \A q, r \in Runs, m, n \in Offers : <<q, m>> = <<r, n>> <=> q = r /\ m = n
BY DEF Attempts

(* A Run that is held: its active attempt finishes and the Run goes back   *)
(* to the queue.  This is RejectAssignment, ReleaseUnackedOffer, the       *)
(* reconciler's requeue and a retryable Result.                            *)
LEMMA TakenBack ==
  ASSUME TypeOK, OwnershipInv, NEW r \in Runs, NEW n \in Offers, run[r].active = n,
         NEW outcome, outcome # "none", NEW result, result \notin {"success", "fatal"},
         FinishAttempt(<<r, n>>, outcome, result),
         NEW dispatch \in {"pending", "retry_wait"}, NEW next,
         run' = [run EXCEPT ![r] = Unassigned(run[r], dispatch, next)],
         cancel' = cancel
  PROVE  OwnershipInv'
<1> DEFINE a == <<r, n>>
           new == Unassigned(run[r], dispatch, next)
<1>1. a \in Attempts /\ n # 0 /\ run[r] \in RunRow
  BY OfferId DEF TypeOK, Offers
<1>2. run'[r] = new /\ \A q \in Runs \ {r} : run'[q] = run[q]
  BY Zenon DEF TypeOK
<1>3. /\ new.status = run[r].status
      /\ new.dispatch = dispatch
      /\ new.active = 0
      /\ new.result = run[r].result
      /\ new.settled = run[r].settled
      /\ new.offers = run[r].offers
      /\ new.fence = run[r].fence
      /\ new.latest = run[r].latest
      /\ new.cancel = run[r].cancel
  BY <1>1, UnassignedRow
<1>4. /\ \A b \in Attempts \ {a} : att'[b] = att[b]
      /\ att'[a].outcome = outcome
      /\ att'[a].result = result
      /\ att'[a].executor = att[a].executor
      /\ att'[a].fence = att[a].fence
  BY <1>1, FinishedRow
<1>5. RowInv(r) /\ run[r].status = "running"
  BY <1>1 DEF OwnershipInv, RowInv
<1>. HIDE DEF new
<1>6. RowInv(r)'
  BY <1>2, <1>3, <1>5 DEF RowInv, TerminalDispatch, Terminal
<1>7. ASSUME NEW m \in Offers PROVE OfferInv(r, m)'
  <2>1. OfferInv(r, m)
    BY DEF OwnershipInv
  <2>2. m # 0
    BY DEF Offers
  <2>3. CASE m = n
    BY <1>2, <1>3, <1>4, <1>5, <2>1, <2>2, <2>3 DEF OfferInv, Unfinished, RowInv
  <2>4. CASE m # n
    <3>1. att'[<<r, m>>] = att[<<r, m>>]
      BY <1>4, <2>4, OfferId
    <3>. QED
      BY <1>2, <1>3, <1>5, <2>1, <2>2, <2>4, <3>1 DEF OfferInv, Unfinished, RowInv
  <2>. QED
    BY <2>3, <2>4
<1>8. \A q \in Runs \ {r} : \A m \in Offers : att'[<<q, m>>] = att[<<q, m>>]
  BY <1>4, OfferId, Zenon
<1>. QED
  BY <1>2, <1>6, <1>7, <1>8, Frame

(* A Run that is held: its active attempt finishes and the Run ends.  This *)
(* is the reconciler's timeout, dead letter and unknown result, and a      *)
(* final Result.                                                           *)
LEMMA EndedHeld ==
  ASSUME TypeOK, OwnershipInv, NEW r \in Runs, NEW n \in Offers, run[r].active = n,
         NEW outcome, outcome # "none", NEW result, FinishAttempt(<<r, n>>, outcome, result),
         NEW status \in {"success", "failed", "timeout"}, NEW dispatch \in TerminalDispatch,
         NEW adopted \in {0, n}, status = "success" => adopted = n /\ outcome = "success",
         run' = [run EXCEPT ![r] = Settled(run[r], status, dispatch, adopted)],
         cancel' = cancel
  PROVE  OwnershipInv'
<1> DEFINE a == <<r, n>>
           new == Settled(run[r], status, dispatch, adopted)
<1>1. a \in Attempts /\ n # 0 /\ run[r] \in RunRow
  BY OfferId DEF TypeOK, Offers
<1>2. run'[r] = new /\ \A q \in Runs \ {r} : run'[q] = run[q]
  BY Zenon DEF TypeOK
<1>3. /\ new.status = status
      /\ new.dispatch = dispatch
      /\ new.active = 0
      /\ new.result = adopted
      /\ new.settled = run[r].settled + 1
      /\ new.offers = run[r].offers
      /\ new.fence = run[r].fence
      /\ new.latest = run[r].latest
      /\ new.cancel = run[r].cancel
  BY <1>1, SettledRow
<1>4. /\ \A b \in Attempts \ {a} : att'[b] = att[b]
      /\ att'[a].outcome = outcome
      /\ att'[a].result = result
      /\ att'[a].executor = att[a].executor
      /\ att'[a].fence = att[a].fence
  BY <1>1, FinishedRow
<1>5. /\ run[r].status = "running"
      /\ n = run[r].latest
      /\ n = run[r].offers
      /\ n = run[r].fence
  <2>1. RowInv(r)
    BY DEF OwnershipInv
  <2>. QED
    BY <1>1, <2>1 DEF RowInv
<1>6. /\ run[r].cancel = "none"
      /\ run[r].result = 0
      /\ run[r].settled = 0
      /\ cancel[r].target = 0
      /\ cancel[r].state = "none"
  BY <1>5, RunningRow
<1>. HIDE DEF new
<1>7. RowInv(r)'
  BY <1>1, <1>2, <1>3, <1>5, <1>6 DEF RowInv, TerminalDispatch, Terminal, Waiting
<1>8. ASSUME NEW m \in Offers PROVE OfferInv(r, m)'
  <2>1. OfferInv(r, m)
    BY DEF OwnershipInv
  <2>2. m # 0
    BY DEF Offers
  <2>3. CASE m = n
    BY <1>2, <1>3, <1>4, <1>5, <1>6, <2>1, <2>2, <2>3 DEF OfferInv, Unfinished
  <2>4. CASE m # n
    <3>1. att'[<<r, m>>] = att[<<r, m>>]
      BY <1>4, <2>4, OfferId
    <3>. QED
      <4>1. /\ m # run[r].active /\ m # run'[r].active
            /\ m # cancel'[r].target /\ m # run'[r].result
        BY <1>2, <1>3, <1>6, <2>2, <2>4
      <4>2. run'[r].offers = run[r].offers
        BY <1>2, <1>3
      <4>. QED
        BY <1>5, <2>1, <3>1, <4>1, <4>2, OtherOffer, Zenon
  <2>. QED
    BY <2>3, <2>4
<1>9. \A q \in Runs \ {r} : \A m \in Offers : att'[<<q, m>>] = att[<<q, m>>]
  BY <1>4, OfferId, Zenon
<1>. QED
  BY <1>2, <1>7, <1>8, <1>9, Frame

(* A Run row changes and no attempt does. *)
LEMMA RowWrite ==
  ASSUME TypeOK, OwnershipInv, NEW r \in Runs, NEW row,
         run' = [run EXCEPT ![r] = row], UNCHANGED att,
         \A q \in Runs \ {r} : cancel'[q] = cancel[q],
         RowInv(r)', \A n \in Offers : OfferInv(r, n)'
  PROVE  OwnershipInv'
<1>1. \A q \in Runs \ {r} : run'[q] = run[q]
  BY Zenon DEF TypeOK
<1>. QED
  BY <1>1, Frame

-----------------------------------------------------------------------------
(* RuntimeLeases *)

(* CreateRun, the insert of a new Run, preserves the ownership invariant. *)
LEMMA CreateRunOwnership ==
  ASSUME TypeOK, OwnershipInv, NEW r \in Runs, CreateRun(r)
  PROVE  OwnershipInv'
<1> DEFINE row == [run[r] EXCEPT !.status = "running", !.dispatchDl = now + DispatchTTL,
                                 !.runDl = now + RunTTL]
<1>1. run' = [run EXCEPT ![r] = row]
  BY Zenon DEF CreateRun, TypeOK
<1>2. /\ row.status = "running"
      /\ row.dispatch = run[r].dispatch
      /\ row.active = run[r].active
      /\ row.result = run[r].result
      /\ row.settled = run[r].settled
      /\ row.offers = run[r].offers
      /\ row.fence = run[r].fence
      /\ row.latest = run[r].latest
      /\ row.lease = run[r].lease
      /\ row.attempts = run[r].attempts
      /\ row.cancel = run[r].cancel
  BY ZenonT(40) DEF TypeOK, RunRow
<1>. HIDE DEF row
<1>3. run'[r] = row
  BY <1>1, Zenon DEF TypeOK
<1>4. RowInv(r) /\ run[r].status = "absent" /\ UNCHANGED <<att, cancel>>
  BY DEF OwnershipInv, CreateRun
<1>5. RowInv(r)'
  BY <1>2, <1>3, <1>4 DEF RowInv, Terminal, TerminalDispatch
<1>6. ASSUME NEW n \in Offers PROVE OfferInv(r, n)'
  <2>1. OfferInv(r, n)
    BY DEF OwnershipInv
  <2>. QED
    BY <1>2, <1>3, <1>4, <2>1 DEF OfferInv, Unfinished
<1>. QED
  BY <1>1, <1>4, <1>5, <1>6, RowWrite, Zenon

(* What MirrorRuntimeRunOffer and MirrorCoreRunAcceptedAttempt write. *)
LEMMA OfferedRow ==
  ASSUME NEW row \in RunRow, NEW offer
  PROVE  LET new == OfferedRun(row, offer) IN
         /\ new.status = row.status
         /\ new.dispatch = "offered"
         /\ new.active = row.offers + 1
         /\ new.result = row.result
         /\ new.settled = row.settled
         /\ new.offers = row.offers + 1
         /\ new.fence = offer.fence
         /\ new.latest = row.offers + 1
         /\ new.lease = offer.leaseExp
         /\ new.attempts = row.attempts
         /\ new.cancel = row.cancel
BY Zenon DEF OfferedRun, RunRow

(* The same for a Core that starts a Run itself. *)
LEMMA CoreStartedRow ==
  ASSUME NEW row \in RunRow
  PROVE  LET new == CoreStarted(row) IN
         /\ new.status = row.status
         /\ new.dispatch = "executing"
         /\ new.active = row.offers + 1
         /\ new.result = row.result
         /\ new.settled = row.settled
         /\ new.offers = row.offers + 1
         /\ new.fence = row.fence + 1
         /\ new.latest = row.offers + 1
         /\ new.lease = row.runDl
         /\ new.attempts = row.attempts + 1
         /\ new.cancel = row.cancel
BY Zenon DEF CoreStarted, RunRow

(* What a transaction that makes offer n of Run r writes. *)
OfferWritten(r, n) ==
  LET offer == att'[<<r, n>>]
      new == run'[r]
  IN  /\ offer.executor # "none" /\ offer.outcome = "none" /\ offer.result = "none"
      /\ offer.fence = n /\ new.fence = n /\ new.lease = offer.leaseExp
      /\ new.offers = n /\ new.latest = n /\ new.active = n
      /\ new.dispatch \in {"offered", "executing"}
      /\ offer.no = IF new.dispatch = "offered" THEN 0 ELSE new.attempts
      /\ new.status = "running" /\ new.cancel = run[r].cancel
      /\ new.result = run[r].result /\ new.settled = run[r].settled

(* A Run that nobody holds gets its next offer, from a Session or a Core. *)
LEMMA Offered ==
  ASSUME TypeOK, OwnershipInv, NEW r \in Runs, NEW n \in Offers, n = run[r].offers + 1,
         run[r].status = "running", run[r].active = 0, cancel' = cancel, OfferWritten(r, n),
         \A q \in Runs \ {r} : run'[q] = run[q],
         \A b \in Attempts \ {<<r, n>>} : att'[b] = att[b]
  PROVE  OwnershipInv'
<1>1. <<r, n>> \in Attempts /\ n # 0
  BY OfferId DEF Offers
<1>4. /\ run[r].cancel = "none"
      /\ run[r].result = 0
      /\ run[r].settled = 0
      /\ cancel[r].target = 0
      /\ cancel[r].state = "none"
  BY RunningRow
<1>5. run[r].offers \in Nat
  BY RowTyped
<1>6. RowInv(r)'
  BY <1>1, <1>4 DEF RowInv, OfferWritten, Terminal, TerminalDispatch, Waiting
<1>7. ASSUME NEW m \in Offers PROVE OfferInv(r, m)'
  <2>1. OfferInv(r, m)
    BY DEF OwnershipInv
  <2>2. m \in Nat \ {0}
    BY DEF Offers
  <2>3. CASE m = n
    BY <1>4, <2>2, <2>3 DEF OfferInv, OfferWritten, Unfinished
  <2>4. CASE m # n
    <3>1. att'[<<r, m>>] = att[<<r, m>>]
      BY <2>4, OfferId
    <3>2. m <= run[r].offers <=> m <= n
      BY <1>5, <2>2, <2>4
    <3>3. run'[r].active = n /\ run'[r].offers = n /\ run'[r].result = 0
      BY <1>4 DEF OfferWritten
    <3>. QED
      BY <1>4, <2>1, <2>2, <2>4, <3>1, <3>2, <3>3, OtherOffer
  <2>. QED
    BY <2>3, <2>4
<1>8. \A q \in Runs \ {r} : \A m \in Offers : att'[<<q, m>>] = att[<<q, m>>]
  BY OfferId, Zenon
<1>. QED
  BY <1>6, <1>7, <1>8, Frame

(* ClaimOffer, a Session taking a pending Run, preserves the ownership *)
(* invariant.                                                          *)
LEMMA ClaimOfferOwnership ==
  ASSUME TypeOK, OwnershipInv, NEW s \in Sessions, NEW r \in Runs, ClaimOffer(s, r)
  PROVE  OwnershipInv'
<1> DEFINE n == run[r].offers + 1
           offer == OfferRow(s, r)
           new == OfferedRun(run[r], offer)
<1>1. /\ run[r].status = "running"
      /\ run[r].active = 0
      /\ run[r].offers < MaxOffers
      /\ run[r] \in RunRow
      /\ run[r].fence = run[r].offers
  <2>1. run[r] \in RunRow /\ RowInv(r)
    BY RowTyped DEF OwnershipInv
  <2>. QED
    BY <2>1 DEF ClaimOffer, Claimable, ClaimableState, RowInv
<1>2. n \in Offers
  BY <1>1, RunAssumption DEF RunAssumption, RunRow, Offers
<1>3. /\ offer.executor # "none"
      /\ offer.outcome = "none"
      /\ offer.result = "none"
      /\ offer.fence = n
      /\ offer.no = 0
  BY <1>1, ZenonT(40) DEF OfferRow
<1>4. /\ new.status = run[r].status
      /\ new.dispatch = "offered"
      /\ new.active = n
      /\ new.result = run[r].result
      /\ new.settled = run[r].settled
      /\ new.offers = n
      /\ new.fence = offer.fence
      /\ new.latest = n
      /\ new.lease = offer.leaseExp
      /\ new.cancel = run[r].cancel
  <2>. HIDE DEF offer
  <2>. QED  BY <1>1, OfferedRow
<1>5. /\ att' = [att EXCEPT ![<<r, n>>] = offer]
      /\ run' = [run EXCEPT ![r] = new]
      /\ cancel' = cancel
  BY DEF ClaimOffer
<1>6. n = run[r].offers + 1 /\ <<r, n>> \in Attempts
  BY <1>2, OfferId
<1>. HIDE DEF n, offer, new
<1>7. run'[r] = new /\ \A q \in Runs \ {r} : run'[q] = run[q]
  BY <1>5, Zenon DEF TypeOK
<1>8. att'[<<r, n>>] = offer /\ \A b \in Attempts \ {<<r, n>>} : att'[b] = att[b]
  BY <1>5, <1>6, ZenonT(40) DEF TypeOK
<1>9. OfferWritten(r, n)
  BY <1>1, <1>3, <1>4, <1>7, <1>8 DEF OfferWritten
<1>. QED
  BY <1>1, <1>2, <1>5, <1>6, <1>7, <1>8, <1>9, Offered

(* What a transaction that keeps offer n as the holder of Run r writes. *)
HolderWritten(r, n) ==
  LET old == att[<<r, n>>]
      own == att'[<<r, n>>]
      new == run'[r]
  IN  /\ own.executor = old.executor /\ own.fence = old.fence
      /\ own.outcome = old.outcome /\ own.result = old.result
      /\ own.leaseExp = new.lease
      /\ new.dispatch \in {"offered", "executing"}
      /\ own.no = IF new.dispatch = "offered" THEN 0 ELSE new.attempts
      /\ new.status = run[r].status /\ new.cancel = run[r].cancel
      /\ new.fence = run[r].fence /\ new.offers = run[r].offers
      /\ new.latest = run[r].latest /\ new.active = n
      /\ new.result = run[r].result /\ new.settled = run[r].settled

(* The attempt that holds a Run is confirmed or renewed. *)
LEMMA StillHeld ==
  ASSUME TypeOK, OwnershipInv, NEW r \in Runs, NEW n \in Offers, run[r].active = n,
         cancel' = cancel, HolderWritten(r, n),
         \A q \in Runs \ {r} : run'[q] = run[q],
         \A b \in Attempts \ {<<r, n>>} : att'[b] = att[b]
  PROVE  OwnershipInv'
<1>1. <<r, n>> \in Attempts /\ n # 0
  BY OfferId DEF Offers
<1>2. /\ RowInv(r)
      /\ run[r].status = "running"
      /\ cancel[r].target = 0
      /\ cancel[r].state = "none"
  BY <1>1 DEF OwnershipInv, RowInv
<1>3. RowInv(r)'
  BY <1>1, <1>2, ZenonT(40) DEF RowInv, HolderWritten, Terminal, TerminalDispatch
<1>4. ASSUME NEW m \in Offers PROVE OfferInv(r, m)'
  <2>1. OfferInv(r, m)
    BY DEF OwnershipInv
  <2>2. m # 0
    BY DEF Offers
  <2>3. CASE m = n
    BY <1>2, <2>1, <2>2, <2>3, ZenonT(40) DEF OfferInv, HolderWritten, Unfinished
  <2>4. CASE m # n
    <3>1. att'[<<r, m>>] = att[<<r, m>>]
      BY <2>4, OfferId
    <3>. QED
      BY <1>2, <2>1, <2>2, <2>4, <3>1 DEF OfferInv, HolderWritten, Unfinished
  <2>. QED
    BY <2>3, <2>4
<1>5. \A q \in Runs \ {r} : \A m \in Offers : att'[<<q, m>>] = att[<<q, m>>]
  BY OfferId, Zenon
<1>. QED
  BY <1>3, <1>4, <1>5, Frame

(* An attempt id is a pair of a Run and an offer number. *)
LEMMA AttemptPair ==
  ASSUME NEW a \in Attempts
  PROVE  \E r \in Runs, n \in Offers : a = <<r, n>> /\ a[1] = r /\ a[2] = n
BY DEF Attempts

(* AckAssignment, the confirmation of an offer, preserves the ownership *)
(* invariant.                                                           *)
LEMMA AckAssignmentOwnership ==
  ASSUME TypeOK, OwnershipInv, NEW s \in Sessions, NEW a \in Attempts, AckAssignment(s, a)
  PROVE  OwnershipInv'
<1>1. PICK r \in Runs, n \in Offers : a = <<r, n>> /\ a[1] = r /\ a[2] = n
  BY AttemptPair
<1> DEFINE new == [run[r] EXCEPT !.dispatch = "executing", !.attempts = @ + 1,
                                 !.lease = LeaseUntil(a)]
           own == [att[a] EXCEPT !.no = run[r].attempts + 1, !.leaseExp = LeaseUntil(a),
                                 !.core = sess[s].core]
<1>2. run' = [run EXCEPT ![r] = new] /\ att' = [att EXCEPT ![a] = own] /\ cancel' = cancel
  BY <1>1, Zenon DEF AckAssignment, TypeOK
<1>3. /\ new.dispatch = "executing"
      /\ new.attempts = run[r].attempts + 1
      /\ new.lease = LeaseUntil(a)
      /\ new.status = run[r].status
      /\ new.cancel = run[r].cancel
      /\ new.fence = run[r].fence
      /\ new.offers = run[r].offers
      /\ new.latest = run[r].latest
      /\ new.active = run[r].active
      /\ new.result = run[r].result
      /\ new.settled = run[r].settled
  BY ZenonT(40) DEF TypeOK, RunRow
<1>4. /\ own.no = run[r].attempts + 1
      /\ own.leaseExp = LeaseUntil(a)
      /\ own.executor = att[a].executor
      /\ own.fence = att[a].fence
      /\ own.outcome = att[a].outcome
      /\ own.result = att[a].result
  BY ZenonT(40) DEF TypeOK, AttemptRow
<1>. HIDE DEF new, own
<1>5. run'[r] = new /\ \A q \in Runs \ {r} : run'[q] = run[q]
  BY <1>2, Zenon DEF TypeOK
<1>6. att'[a] = own /\ \A b \in Attempts \ {a} : att'[b] = att[b]
  BY <1>2, Zenon DEF TypeOK
<1>7. run[r].active = n
  BY <1>1 DEF AckAssignment, OwnsRun
<1>8. HolderWritten(r, n)
  BY <1>1, <1>3, <1>4, <1>5, <1>6, <1>7 DEF HolderWritten
<1>. QED
  BY <1>1, <1>2, <1>5, <1>6, <1>7, <1>8, StillHeld

(* RenewLease, the extension of a held lease, preserves the ownership *)
(* invariant.                                                         *)
LEMMA RenewLeaseOwnership ==
  ASSUME TypeOK, OwnershipInv, NEW s \in Sessions, NEW a \in Attempts, RenewLease(s, a)
  PROVE  OwnershipInv'
<1>1. PICK r \in Runs, n \in Offers : a = <<r, n>> /\ a[1] = r /\ a[2] = n
  BY AttemptPair
<1> DEFINE expiry == Later(att[a].leaseExp, LeaseUntil(a))
           new == [run[r] EXCEPT !.lease = expiry]
           own == [att[a] EXCEPT !.leaseExp = expiry, !.core = sess[s].core]
<1>2. run' = [run EXCEPT ![r] = new] /\ att' = [att EXCEPT ![a] = own] /\ cancel' = cancel
  BY <1>1, Zenon DEF RenewLease, TypeOK
<1>3. /\ new.dispatch = run[r].dispatch
      /\ new.attempts = run[r].attempts
      /\ new.lease = expiry
      /\ new.status = run[r].status
      /\ new.cancel = run[r].cancel
      /\ new.fence = run[r].fence
      /\ new.offers = run[r].offers
      /\ new.latest = run[r].latest
      /\ new.active = run[r].active
      /\ new.result = run[r].result
      /\ new.settled = run[r].settled
  BY ZenonT(40) DEF TypeOK, RunRow
<1>4. /\ own.no = att[a].no
      /\ own.leaseExp = expiry
      /\ own.executor = att[a].executor
      /\ own.fence = att[a].fence
      /\ own.outcome = att[a].outcome
      /\ own.result = att[a].result
  BY ZenonT(40) DEF TypeOK, AttemptRow
<1>. HIDE DEF new, own, expiry
<1>5. run'[r] = new /\ \A q \in Runs \ {r} : run'[q] = run[q]
  BY <1>2, Zenon DEF TypeOK
<1>6. att'[a] = own /\ \A b \in Attempts \ {a} : att'[b] = att[b]
  BY <1>2, Zenon DEF TypeOK
<1>7. run[r].active = n /\ run[r].dispatch = "executing"
  BY <1>1 DEF RenewLease, OwnsRun
<1>8. att[a].no = run[r].attempts
  BY <1>1, <1>7 DEF OwnershipInv, OfferInv
<1>9. HolderWritten(r, n)
  BY <1>1, <1>3, <1>4, <1>5, <1>6, <1>7, <1>8 DEF HolderWritten
<1>. QED
  BY <1>1, <1>2, <1>5, <1>6, <1>7, <1>9, StillHeld

(* FinishAndReleaseOffer, an offer given back to the queue, preserves the *)
(* ownership invariant.                                                   *)
LEMMA FinishAndReleaseOfferOwnership ==
  ASSUME TypeOK, OwnershipInv, NEW a \in Attempts, NEW outcome, outcome # "none",
         FinishAndReleaseOffer(a, outcome)
  PROVE  OwnershipInv'
<1>1. PICK r \in Runs, n \in Offers : a = <<r, n>> /\ a[1] = r /\ a[2] = n
  BY AttemptPair
<1>2. /\ run[r].active = n
      /\ FinishAttempt(<<r, n>>, outcome, "none")
      /\ run' = [run EXCEPT ![r] = Unassigned(run[r], "pending", 0)]
      /\ cancel' = cancel
  BY <1>1 DEF FinishAndReleaseOffer, OwnsRun
<1>. QED
  BY <1>2, TakenBack, ZenonT(40)

(* Every step of the lease service preserves the ownership invariant. *)
LEMMA LeaseStepOwnership == TypeOK /\ OwnershipInv /\ LeaseStep => OwnershipInv'
<1>. SUFFICES ASSUME TypeOK, OwnershipInv, LeaseStep PROVE OwnershipInv'
  OBVIOUS
<1>1. ASSUME NEW a \in Attempts, FinishAndReleaseOffer(a, "offer_rejected")
      PROVE  OwnershipInv'
  BY <1>1, FinishAndReleaseOfferOwnership
<1>. QED
  BY <1>1, ClaimOfferOwnership, AckAssignmentOwnership, RenewLeaseOwnership, Zenon
     DEF LeaseStep, RejectAssignment, ReleaseUnackedOffer

-----------------------------------------------------------------------------
(* RuntimeReconciler *)

(* The reconciler ending a Run nobody took preserves the ownership *)
(* invariant.                                                      *)
LEMMA ReconcileUnassignedOwnership ==
  ASSUME TypeOK, OwnershipInv, NEW r \in Runs, ReconcileUnassigned(r)
  PROVE  OwnershipInv'
<1> DEFINE new == Settled(run[r], "timeout", "terminal", 0)
<1>1. run' = [run EXCEPT ![r] = new] /\ UNCHANGED <<att, cancel>>
  BY DEF ReconcileUnassigned
<1>2. /\ new.status = "timeout"
      /\ new.dispatch = "terminal"
      /\ new.active = 0
      /\ new.result = 0
      /\ new.settled = run[r].settled + 1
      /\ new.offers = run[r].offers
      /\ new.fence = run[r].fence
      /\ new.latest = run[r].latest
      /\ new.cancel = run[r].cancel
  <2>1. run[r] \in RunRow
    BY RowTyped
  <2>. QED
    BY <2>1, SettledRow
<1>. HIDE DEF new
<1>3. run'[r] = new
  BY <1>1, Zenon DEF TypeOK
<1>4. /\ run[r].status = "running"
      /\ run[r].active = 0
      /\ run[r].cancel = "none"
      /\ run[r].settled = 0
      /\ cancel[r].target = 0
      /\ cancel[r].state = "none"
  <2>1. run[r].status = "running" /\ run[r].active = 0
    BY DEF ReconcileUnassigned, UnassignedDue
  <2>. QED
    BY <2>1, RunningRow
<1>5. RowInv(r)'
  <2>1. /\ run'[r].status = "timeout" /\ run'[r].dispatch = "terminal"
        /\ run'[r].active = 0 /\ run'[r].result = 0 /\ run'[r].settled = 1
    BY <1>2, <1>3, <1>4
  <2>2. /\ run'[r].fence = run'[r].offers /\ run'[r].latest = run'[r].offers
        /\ run'[r].cancel = "none"
    BY <1>2, <1>3, <1>4, NumberedRow
  <2>3. cancel'[r].state = "none" /\ cancel'[r].target = 0
    BY <1>1, <1>4
  <2>. QED
    BY <2>1, <2>2, <2>3 DEF RowInv, Terminal, TerminalDispatch, Waiting
<1>6. ASSUME NEW n \in Offers PROVE OfferInv(r, n)'
  <2>1. OfferInv(r, n) /\ n # 0
    BY DEF OwnershipInv, Offers
  <2>. QED
    BY <1>1, <1>2, <1>3, <1>4, <2>1, OtherOffer
<1>. QED
  BY <1>1, <1>5, <1>6, RowWrite, Zenon

(* The reconciler names the active attempt. *)
LEMMA HeldActive ==
  ASSUME TypeOK, NEW r \in Runs, NEW d, HeldByActive(r, d)
  PROVE  \E n \in Offers : run[r].active = n /\ Active(r) = <<r, n>>
<1>1. run[r].active \in 1 .. MaxOffers
  BY RunAssumption DEF RunAssumption, HeldByActive, TypeOK, RunRow
<1>. QED
  BY <1>1 DEF Active, Offers

(* The reconciler taking back an expired offer preserves the ownership *)
(* invariant.                                                          *)
LEMMA ReconcileOfferOwnership ==
  ASSUME TypeOK, OwnershipInv, NEW r \in Runs, NEW t, ReconcileOffer(r, t)
  PROVE  OwnershipInv'
<1>1. PICK n \in Offers : run[r].active = n /\ Active(r) = <<r, n>>
  BY HeldActive DEF ReconcileOffer, OfferDue
<1>2. PICK outcome \in {"offer_expired"} : FinishAttempt(<<r, n>>, outcome, "none")
  BY <1>1 DEF ReconcileOffer
<1>3. cancel' = cancel
  BY DEF ReconcileOffer
<1>4. CASE run' = [run EXCEPT ![r] = Settled(run[r], "timeout", "terminal", 0)]
  BY <1>1, <1>2, <1>3, <1>4, EndedHeld, Zenon DEF TerminalDispatch
<1>5. CASE run' = [run EXCEPT ![r] = Unassigned(run[r], "pending", 0)]
  BY <1>1, <1>2, <1>3, <1>5, TakenBack, ZenonT(40)
<1>. QED
  BY <1>4, <1>5, ZenonT(40) DEF ReconcileOffer

(* The reconciler ending a Core's overdue execution preserves the *)
(* ownership invariant.                                           *)
LEMMA ReconcileCoreExecutionOwnership ==
  ASSUME TypeOK, OwnershipInv, NEW r \in Runs, ReconcileCoreExecution(r)
  PROVE  OwnershipInv'
<1>1. PICK n \in Offers : run[r].active = n /\ Active(r) = <<r, n>>
  BY HeldActive DEF ReconcileCoreExecution, ExecutionDue
<1>2. /\ FinishAttempt(<<r, n>>, "result_unknown", "none")
      /\ run' = [run EXCEPT ![r] = Settled(run[r], "failed", "terminal", 0)]
      /\ cancel' = cancel
  BY <1>1 DEF ReconcileCoreExecution
<1>. QED
  BY <1>1, <1>2, EndedHeld, Zenon DEF TerminalDispatch

(* The reconciler ending a Session's expired execution preserves the *)
(* ownership invariant.                                              *)
LEMMA ReconcileRuntimeExecutionOwnership ==
  ASSUME TypeOK, OwnershipInv, NEW r \in Runs, NEW t, ReconcileRuntimeExecution(r, t)
  PROVE  OwnershipInv'
<1>1. PICK n \in Offers : run[r].active = n /\ Active(r) = <<r, n>>
  BY HeldActive DEF ReconcileRuntimeExecution, ExecutionDue
<1>2. PICK outcome \in {"timeout", "lease_expired"} : FinishAttempt(<<r, n>>, outcome, "none")
  BY <1>1 DEF ReconcileRuntimeExecution
<1>3. cancel' = cancel
  BY DEF ReconcileRuntimeExecution
<1>4. CASE run' = [run EXCEPT ![r] = Settled(run[r], "timeout", "terminal", 0)]
  BY <1>1, <1>2, <1>3, <1>4, EndedHeld, ZenonT(40) DEF TerminalDispatch
<1>5. CASE run' = [run EXCEPT ![r] = Settled(run[r], "failed", "dead_letter", 0)]
  BY <1>1, <1>2, <1>3, <1>5, EndedHeld, ZenonT(40) DEF TerminalDispatch
<1>6. CASE \E next : run' = [run EXCEPT ![r] = Unassigned(run[r], "retry_wait", next)]
  BY <1>1, <1>2, <1>3, <1>6, TakenBack, Zenon
<1>. QED
  BY <1>4, <1>5, <1>6, Zenon DEF ReconcileRuntimeExecution, AfterExpiredExecution

=============================================================================
