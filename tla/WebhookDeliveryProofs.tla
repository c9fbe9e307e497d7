------------------------ MODULE WebhookDeliveryProofs ------------------------
(***************************************************************************)
(* What holds of WebhookDelivery for any number of deliveries, sweeps,     *)
(* attempts, faults and overruns.                                          *)
(*                                                                         *)
(* The argument: until a lease runs out, a delivery has one holder.  The   *)
(* dispatcher holds it while its next_retry_at is NULL, a sweep while that *)
(* lies in the future, and nobody when it is due, which is when Claim      *)
(* takes it.  So the holder's steps alone write the row, and attempt_count *)
(* as RETURNING gave it is the row's.                                      *)
(***************************************************************************)
EXTENDS WebhookDelivery, TLAPS

\* The actor has the delivery in hand, or will come to it.
Holds(x, d) == run[x].row = d \/ (x \in Sweeps /\ d \in batch[x])

\* Where an actor may stand, and with what in hand.
Placed(x) ==
    /\ run[x].row # NoRow <=> run[x].at \in AttemptStages \cup {"rejecting"}
    /\ run[x].at \in {"accepted", "recorded"} => run[x].answered
    /\ x \in Deliveries => run[x].at \in {"idle", "chosen", "done", "lost"} \cup AttemptStages /\ run[x].row \in {x, NoRow}
    /\ x \in Sweeps =>
          /\ run[x].at \in {"idle", "expired", "looping", "rejecting"} \cup AttemptStages
          /\ run[x].at \in {"idle", "expired"} => batch[x] = {}
          /\ run[x].row \notin batch[x]

Shape == \A x \in Actors : Placed(x)

Waiting(d) == delivery[d].status \in {"pending", "retrying"}

OneHolder(d) == \A x, y \in Actors : Holds(x, d) /\ Holds(y, d) => x = y

\* What next_retry_at says of the holder.
Leased(d) ==
    /\ \A w \in Sweeps : Holds(w, d) => delivery[d].next = "later"
    /\ run[d].at \in {"idle", "chosen"} \cup AttemptStages => delivery[d].next = "null"
    /\ run[d].at \in {"idle", "chosen"} => delivery[d].status = "none" /\ posts[d] = 0

Exhausted(d) == delivery[d].status = "failed" /\ delivery[d].attempts >= MaxAttempts

\* What the holder's place says of the row.
Known(x, d) ==
    /\ x \in Sweeps /\ d \in batch[x] => Waiting(d)
    /\ run[x].row = d =>
        /\ run[x].at \in {"sending", "rejecting"} => Waiting(d)
        /\ run[x].at = "recorded"  => delivery[d].status = "delivered"
        /\ run[x].at = "exhausted" => Exhausted(d)
        /\ run[x].at \in {"refused", "counted"} /\ ~run[x].answered => Waiting(d) \/ Exhausted(d)
        /\ run[x].at = "counted" => run[x].count = delivery[d].attempts

\* Every request is counted, but for the one whose answer is being recorded and
\* those that a fault paid for.
Uncounted(d) == \E x \in Actors : run[x].row = d /\ run[x].at \in {"accepted", "refused"}
Answered(d)  == \E x \in Actors : run[x].row = d /\ run[x].at \notin {"sending", "rejecting"}

Paid(d) ==
    /\ posts[d] <= MaxAttempts + faults
    /\ posts[d] <= delivery[d].attempts + faults + 1
    /\ Uncounted(d) \/ posts[d] <= delivery[d].attempts + faults
    /\ Answered(d) \/ delivery[d].status \in Final \/ posts[d] < MaxAttempts + faults

RowOk(d) == OneHolder(d) /\ Leased(d) /\ (\A x \in Actors : Known(x, d)) /\ Paid(d)

Leases == overruns = 0 => \A d \in Deliveries : RowOk(d)

IInv == TypeOK /\ Shape /\ Leases

-----------------------------------------------------------------------------
(***************************************************************************)
(* How the actors' records move.                                           *)
(***************************************************************************)

Places == {"idle", "chosen", "expired", "looping", "rejecting", "done", "lost"} \cup AttemptStages

\* An actor goes on to another stage with what it has in hand.
LEMMA GotoMoves ==
    ASSUME TypeOK, NEW x \in Actors, NEW stage \in Places, Goto(x, stage)
    PROVE  /\ run' \in [Actors -> RunRecords]
           /\ run'[x].at = stage /\ run'[x].row = run[x].row /\ run'[x].count = run[x].count
           /\ run'[x].answered = run[x].answered /\ run'[x].guarded = run[x].guarded
           /\ \A y \in Actors \ {x} : run'[y] = run[y]
<1>1. run \in [Actors -> RunRecords] /\ run[x] \in RunRecords
  BY DEF TypeOK
<1>2. [run[x] EXCEPT !.at = stage] \in RunRecords
  BY <1>1 DEF RunRecords, Places
<1>3. run' = [run EXCEPT ![x] = [run[x] EXCEPT !.at = stage]]
  BY <1>1 DEF Goto
<1> QED
  BY <1>1, <1>2, <1>3 DEF RunRecords

\* An actor lets go of everything.
LEMMA LeaveMoves ==
    ASSUME TypeOK, NEW x \in Actors, NEW stage \in Places, Leave(x, stage)
    PROVE  /\ run' \in [Actors -> RunRecords]
           /\ run'[x].at = stage /\ run'[x].row = NoRow
           /\ \A y \in Actors \ {x} : run'[y] = run[y]
<1>1. Free(stage) \in RunRecords /\ Free(stage).at = stage /\ Free(stage).row = NoRow
  BY DEF Free, RunRecords, Places
<1> QED
  BY <1>1 DEF TypeOK, Leave

\* The end of an attempt or of a row.
LEMMA EndMoves ==
    ASSUME TypeOK, NEW x \in Actors, EndAttempt(x)
    PROVE  /\ run' \in [Actors -> RunRecords]
           /\ x \in Sweeps => run'[x].at = "looping"
           /\ x \notin Sweeps => run'[x].at = "done"
           /\ run'[x].row = NoRow
           /\ \A y \in Actors \ {x} : run'[y] = run[y]
BY LeaveMoves DEF EndAttempt, Places

\* What a statement writes to its row.
LEMMA RowMoves ==
    ASSUME TypeOK, NEW d \in Deliveries, NEW row \in DeliveryRows, delivery' = [delivery EXCEPT ![d] = row]
    PROVE  /\ delivery' \in [Deliveries -> DeliveryRows]
           /\ delivery'[d] = row
           /\ \A e \in Deliveries \ {d} : delivery'[e] = delivery[e]
BY DEF TypeOK

\* An actor in the middle of an attempt has a row in hand.
LEMMA AttemptRows ==
    ASSUME TypeOK, Shape, NEW x \in Actors, run[x].at \in AttemptStages \cup {"rejecting"}
    PROVE  /\ run[x].row \in Deliveries
           /\ run[x].count \in Nat
           /\ delivery[run[x].row] \in DeliveryRows /\ delivery[run[x].row].attempts \in Nat
           /\ x \in Deliveries => run[x].row = x
BY ActorsAssumption DEF TypeOK, Shape, Placed, RunRecords, DeliveryRows

-----------------------------------------------------------------------------
(***************************************************************************)
(* Types.                                                                  *)
(***************************************************************************)

\* The steps of an attempt keep the types.
LEMMA AttemptTypes == ASSUME TypeOK, Shape, NEW x \in Actors, Attempt(x) PROVE TypeOK'
<1>1. run[x].at \in AttemptStages
  BY DEF Attempt, Post, NoAnswer, RecordDelivered, ResetFailures, CountAttempt, Reschedule, GiveUp, ChargeEndpoint, AttemptStages
<1> DEFINE d == run[x].row
<1>2. /\ d \in Deliveries /\ delivery[d] \in DeliveryRows /\ run[x] \in RunRecords
      /\ delivery[d].attempts \in Nat /\ delivery[d].attempts + 1 \in Nat
  BY <1>1, AttemptRows DEF TypeOK
<1> HIDE DEF d
<1>3. CASE Post(x)
  <2>1. PICK ok \in BOOLEAN :
          run' = [run EXCEPT ![x] = [run[x] EXCEPT !.at = IF ok THEN "accepted" ELSE "refused", !.answered = ok, !.guarded = TRUE]]
    BY <1>3 DEF Post, TypeOK
  <2>2. [run[x] EXCEPT !.at = IF ok THEN "accepted" ELSE "refused", !.answered = ok, !.guarded = TRUE] \in RunRecords
    BY <1>2 DEF RunRecords, AttemptStages
  <2>3. run' \in [Actors -> RunRecords]
    BY <2>1, <2>2 DEF TypeOK
  <2>4. posts' \in [Deliveries -> Nat]
    BY <1>2, <1>3 DEF Post, TypeOK, d
  <2> QED
    BY <1>3, <2>3, <2>4 DEF Post, TypeOK
<1>4. CASE NoAnswer(x)
  <2>1. posts' \in [Deliveries -> Nat]
    BY <1>2, <1>4 DEF NoAnswer, TypeOK, d
  <2> QED
    BY <1>4, <2>1, GotoMoves DEF NoAnswer, TypeOK, Places, AttemptStages
<1>5. CASE RecordDelivered(x)
  <2>1. delivery' = [delivery EXCEPT ![d] = [delivery[d] EXCEPT !.status = "delivered", !.attempts = delivery[d].attempts + 1]]
    BY <1>2, <1>5 DEF RecordDelivered, TypeOK, d
  <2>2. [delivery[d] EXCEPT !.status = "delivered", !.attempts = delivery[d].attempts + 1] \in DeliveryRows
    BY <1>2 DEF DeliveryRows, Final
  <2>3. delivery' \in [Deliveries -> DeliveryRows]
    BY <1>2, <2>1, <2>2, RowMoves
  <2> QED
    BY <1>5, <2>3, GotoMoves DEF RecordDelivered, TypeOK, Places, AttemptStages
<1>6. CASE ResetFailures(x)
  BY <1>6, EndMoves DEF ResetFailures, TypeOK
<1>7. CASE CountAttempt(x)
  <2>1. delivery' = [delivery EXCEPT ![d] = [delivery[d] EXCEPT !.attempts = delivery[d].attempts + 1]]
    BY <1>2, <1>7 DEF CountAttempt, TypeOK, d
  <2>2. [delivery[d] EXCEPT !.attempts = delivery[d].attempts + 1] \in DeliveryRows
    BY <1>2 DEF DeliveryRows
  <2>3. delivery' \in [Deliveries -> DeliveryRows]
    BY <1>2, <2>1, <2>2, RowMoves
  <2>4. run' = [run EXCEPT ![x] = [run[x] EXCEPT !.at = "counted", !.count = delivery[d].attempts + 1]]
    BY <1>7 DEF CountAttempt, TypeOK, d
  <2>5. \A n \in Nat : [run[x] EXCEPT !.at = "counted", !.count = n] \in RunRecords
    BY <1>2 DEF RunRecords, AttemptStages
  <2>6. run' \in [Actors -> RunRecords]
    BY <1>2, <2>4, <2>5 DEF TypeOK
  <2> QED
    BY <1>7, <2>3, <2>6 DEF CountAttempt, TypeOK
<1>8. CASE Reschedule(x)
  <2>1. delivery' = [delivery EXCEPT ![d] = [delivery[d] EXCEPT !.status = "retrying", !.next = "later"]]
    BY <1>2, <1>8 DEF Reschedule, TypeOK, d
  <2>2. [delivery[d] EXCEPT !.status = "retrying", !.next = "later"] \in DeliveryRows
    BY <1>2 DEF DeliveryRows
  <2>3. delivery' \in [Deliveries -> DeliveryRows]
    BY <1>2, <2>1, <2>2, RowMoves
  <2> QED
    BY <1>8, <2>3, EndMoves DEF Reschedule, TypeOK
<1>9. CASE GiveUp(x)
  <2>1. delivery' = [delivery EXCEPT ![d] = [delivery[d] EXCEPT !.status = "failed"]]
    BY <1>2, <1>9 DEF GiveUp, TypeOK, d
  <2>2. [delivery[d] EXCEPT !.status = "failed"] \in DeliveryRows
    BY <1>2 DEF DeliveryRows, Final
  <2>3. delivery' \in [Deliveries -> DeliveryRows]
    BY <1>2, <2>1, <2>2, RowMoves
  <2> QED
    BY <1>9, <2>3, GotoMoves DEF GiveUp, TypeOK, Places, AttemptStages
<1>10. CASE ChargeEndpoint(x)
  <2>1. endpoint' \in [status : {"active", "disabled", "failed"}, failures : Nat]
    BY <1>10 DEF ChargeEndpoint, TypeOK
  <2> QED
    BY <1>10, <2>1, EndMoves DEF ChargeEndpoint, TypeOK
<1> QED
  BY <1>3, <1>4, <1>5, <1>6, <1>7, <1>8, <1>9, <1>10 DEF Attempt

\* So do the steps of a sweep ...
LEMMA SweepTypes == ASSUME TypeOK, Shape, NEW w \in Sweeps, Sweep(w) PROVE TypeOK'
<1>1. w \in Actors /\ run[w] \in RunRecords
  BY DEF TypeOK, Actors
<1>2. CASE ExpireStale(w)
  <2>1. \A d \in Deliveries : [delivery[d] EXCEPT !.status = "failed"] \in DeliveryRows
    BY DEF TypeOK, DeliveryRows, Final
  <2>2. delivery' \in [Deliveries -> DeliveryRows]
    BY <1>2, <2>1 DEF ExpireStale, TypeOK
  <2> QED
    BY <1>1, <1>2, <2>2, GotoMoves DEF ExpireStale, TypeOK, Places
<1>3. CASE Claim(w)
  <2>1. \A d \in Deliveries : [delivery[d] EXCEPT !.next = "later"] \in DeliveryRows
    BY DEF TypeOK, DeliveryRows
  <2>2. PICK b \in Batches :
          /\ batch' = [batch EXCEPT ![w] = b]
          /\ delivery' = [d \in Deliveries |-> IF d \in b THEN [delivery[d] EXCEPT !.next = "later"] ELSE delivery[d]]
    BY <1>3 DEF Claim
  <2>3. b \subseteq Deliveries
    BY <2>2 DEF Batches, DueRows
  <2>4. delivery' \in [Deliveries -> DeliveryRows] /\ batch' \in [Sweeps -> SUBSET Deliveries]
    BY <2>1, <2>2, <2>3 DEF TypeOK
  <2> QED
    BY <1>1, <1>3, <2>4, GotoMoves DEF Claim, TypeOK, Places
<1>4. CASE TakeRow(w)
  <2>1. PICK d \in batch[w] :
          /\ batch' = [batch EXCEPT ![w] = batch[w] \ {d}]
          /\ run' = [run EXCEPT ![w] = [run[w] EXCEPT !.at = IF endpoint.status = "active" THEN "sending" ELSE "rejecting", !.row = d]]
    BY <1>1, <1>4 DEF TakeRow, TypeOK
  <2>2. d \in Deliveries /\ batch' \in [Sweeps -> SUBSET Deliveries]
    BY <2>1 DEF TypeOK
  <2>3. [run[w] EXCEPT !.at = IF endpoint.status = "active" THEN "sending" ELSE "rejecting", !.row = d] \in RunRecords
    BY <1>1, <2>2 DEF RunRecords, AttemptStages
  <2>4. run' \in [Actors -> RunRecords]
    BY <2>1, <2>3 DEF TypeOK
  <2> QED
    BY <1>4, <2>2, <2>4 DEF TakeRow, TypeOK
<1>5. CASE RejectRow(w)
  <2>1. run[w].row \in Deliveries /\ delivery[run[w].row] \in DeliveryRows
    BY <1>1, <1>5, AttemptRows DEF RejectRow
  <2>2. [delivery[run[w].row] EXCEPT !.status = "failed"] \in DeliveryRows
    BY <2>1 DEF DeliveryRows, Final
  <2>3. delivery' \in [Deliveries -> DeliveryRows]
    BY <1>5, <2>1, <2>2 DEF RejectRow, TypeOK
  <2> QED
    BY <1>1, <1>5, <2>3, EndMoves DEF RejectRow, TypeOK
<1>6. CASE EndSweep(w)
  BY <1>1, <1>6, GotoMoves DEF EndSweep, TypeOK, Places
<1> QED
  BY <1>2, <1>3, <1>4, <1>5, <1>6 DEF Sweep

\* ... what goes wrong ...
LEMMA FaultTypes ==
    ASSUME TypeOK, NEW x \in Actors, Crash(x) \/ CaughtFailure(x) \/ (x \in Sweeps /\ RowFails(x))
    PROVE  TypeOK' /\ faults' = faults + 1
<1>1. faults < MaxFaults => faults + 1 \in 0 .. MaxFaults
  BY CountsAssumption DEF TypeOK
<1>2. CASE Crash(x)
  <2>1. run' \in [Actors -> RunRecords]
    BY <1>2, LeaveMoves DEF Crash, Places
  <2>2. batch' \in [Sweeps -> SUBSET Deliveries]
    BY <1>2 DEF Crash, TypeOK
  <2> QED
    BY <1>1, <1>2, <2>1, <2>2 DEF Crash, TypeOK
<1>3. CASE CaughtFailure(x)
  <2>1. run' = [run EXCEPT ![x] = [run[x] EXCEPT !.at = "refused", !.guarded = FALSE]]
    BY <1>3 DEF CaughtFailure, TypeOK
  <2>2. [run[x] EXCEPT !.at = "refused", !.guarded = FALSE] \in RunRecords
    BY DEF TypeOK, RunRecords, AttemptStages
  <2>3. run' \in [Actors -> RunRecords]
    BY <2>1, <2>2 DEF TypeOK
  <2> QED
    BY <1>1, <1>3, <2>3 DEF CaughtFailure, TypeOK
<1>4. CASE x \in Sweeps /\ RowFails(x)
  BY <1>1, <1>4, EndMoves DEF RowFails, TypeOK
<1> QED
  BY <1>2, <1>3, <1>4

\* ... and the steps of a first attempt and of the clock.
LEMMA DeliveryTypes ==
    ASSUME TypeOK, NEW d \in Deliveries,
           Dispatch(d) \/ SendTest(d) \/ InsertDelivery(d) \/ NextRetryComes(d) \/ WindowCloses(d)
    PROVE  TypeOK'
<1>1. d \in Actors /\ delivery[d] \in DeliveryRows /\ run[d] \in RunRecords
  BY DEF TypeOK, Actors
<1>2. CASE Dispatch(d) \/ SendTest(d)
  BY <1>1, <1>2, GotoMoves DEF Dispatch, SendTest, TypeOK, Places
<1>3. CASE InsertDelivery(d)
  <2>1. [delivery[d] EXCEPT !.status = "pending"] \in DeliveryRows
    BY <1>1 DEF DeliveryRows
  <2>2. [run[d] EXCEPT !.at = "sending", !.row = d] \in RunRecords
    BY <1>1 DEF RunRecords, AttemptStages
  <2>3. delivery' \in [Deliveries -> DeliveryRows]
    BY <1>3, <2>1 DEF InsertDelivery, TypeOK
  <2>4. run' \in [Actors -> RunRecords]
    BY <1>3, <2>2 DEF InsertDelivery, TypeOK
  <2> QED
    BY <1>3, <2>3, <2>4 DEF InsertDelivery, TypeOK
<1>4. CASE NextRetryComes(d)
  <2>1. [delivery[d] EXCEPT !.next = "due"] \in DeliveryRows
    BY <1>1 DEF DeliveryRows
  <2>2. overruns' \in 0 .. MaxOverruns
    BY <1>4, CountsAssumption DEF NextRetryComes, TypeOK
  <2>3. delivery' \in [Deliveries -> DeliveryRows]
    BY <1>4, <2>1 DEF NextRetryComes, TypeOK
  <2> QED
    BY <1>4, <2>2, <2>3 DEF NextRetryComes, TypeOK
<1>5. CASE WindowCloses(d)
  <2>1. [delivery[d] EXCEPT !.stale = TRUE] \in DeliveryRows
    BY <1>1 DEF DeliveryRows
  <2>2. delivery' \in [Deliveries -> DeliveryRows]
    BY <1>5, <2>1 DEF WindowCloses, TypeOK
  <2> QED
    BY <1>5, <2>2 DEF WindowCloses, TypeOK
<1> QED
  BY <1>2, <1>3, <1>4, <1>5

\* Every step keeps the types.
LEMMA TypeStep == TypeOK /\ Shape /\ [Next]_vars => TypeOK'
<1> SUFFICES ASSUME TypeOK, Shape, [Next]_vars PROVE TypeOK'
  OBVIOUS
<1>1. CASE \E s \in {"active", "disabled"} : PatchEndpoint(s)
  BY <1>1 DEF PatchEndpoint, TypeOK
<1>2. CASE UNCHANGED vars
  BY <1>2 DEF vars, TypeOK
<1>3. Sweeps \subseteq Actors
  BY DEF Actors
<1> QED
  BY <1>1, <1>2, <1>3, AttemptTypes, SweepTypes, FaultTypes, DeliveryTypes DEF Next

-----------------------------------------------------------------------------
(***************************************************************************)
(* Places.                                                                 *)
(***************************************************************************)

\* An actor moves, and the others stay.
Moves(x) ==
    /\ \A y \in Actors \ {x} : run'[y] = run[y]
    /\ \A w \in Sweeps \ {x} : batch'[w] = batch[w]

\* It is enough to look at the actor that moves.
LEMMA ShapeBy == ASSUME Shape, NEW x \in Actors, Moves(x), Placed(x)' PROVE Shape'
<1>1. ASSUME NEW y \in Actors, y # x PROVE Placed(y)'
  BY <1>1 DEF Moves, Shape, Placed
<1> QED
  BY <1>1 DEF Shape

\* Steps that leave the actors alone.
LEMMA ShapeStays == ASSUME Shape, UNCHANGED <<run, batch>> PROVE Shape'
BY DEF Shape, Placed

\* An attempt goes through its stages with its row in hand.
LEMMA AttemptShape ==
    ASSUME TypeOK, Shape, NEW x \in Actors, Attempt(x)
    PROVE  Moves(x) /\ UNCHANGED <<batch, faults, overruns>> /\ Placed(x)' /\ Shape'
<1>1. /\ run[x].at \in AttemptStages /\ UNCHANGED <<batch, faults, overruns>>
  BY DEF Attempt, Post, NoAnswer, RecordDelivered, ResetFailures, CountAttempt, Reschedule, GiveUp, ChargeEndpoint, AttemptStages
<1>2. /\ Placed(x) /\ run[x].row \in Deliveries /\ NoRow \notin Deliveries
      /\ run \in [Actors -> RunRecords] /\ run[x] \in RunRecords
  BY <1>1, AttemptRows, ActorsAssumption DEF Shape, TypeOK
<1>3. NoRow \notin UNION {batch[w] : w \in Sweeps}
  BY ActorsAssumption DEF TypeOK
<1>4. CASE Post(x) \/ CountAttempt(x)
  <2>1. /\ \A y \in Actors \ {x} : run'[y] = run[y]
        /\ run'[x].row = run[x].row
        /\ run'[x].at \in AttemptStages \ {"recorded"} /\ (run'[x].at = "accepted" => run'[x].answered)
    <3>1. CASE Post(x)
      BY <1>2, <3>1 DEF Post, RunRecords, AttemptStages
    <3>2. CASE CountAttempt(x)
      BY <1>2, <3>2 DEF CountAttempt, RunRecords, AttemptStages
    <3> QED
      BY <1>4, <3>1, <3>2
  <2>2. Placed(x)'
    BY <1>1, <1>2, <2>1 DEF Placed, AttemptStages
  <2> QED
    BY <1>1, <2>1, <2>2, ShapeBy DEF Moves
<1>5. CASE NoAnswer(x) \/ RecordDelivered(x) \/ GiveUp(x)
  <2>1. /\ \A y \in Actors \ {x} : run'[y] = run[y]
        /\ run'[x].row = run[x].row
        /\ run'[x].at \in AttemptStages \ {"accepted"} /\ (run'[x].at = "recorded" => run'[x].answered)
    BY <1>2, <1>5 DEF NoAnswer, RecordDelivered, GiveUp, Goto, RunRecords, AttemptStages, Placed
  <2>2. Placed(x)'
    BY <1>1, <1>2, <2>1 DEF Placed, AttemptStages
  <2> QED
    BY <1>1, <2>1, <2>2, ShapeBy DEF Moves
<1>6. CASE ResetFailures(x) \/ Reschedule(x) \/ ChargeEndpoint(x)
  <2>1. EndAttempt(x)
    BY <1>6 DEF ResetFailures, Reschedule, ChargeEndpoint
  <2>2. Placed(x)'
    BY <1>1, <1>2, <1>3, <2>1, EndMoves, ActorsAssumption DEF Placed, AttemptStages, Actors
  <2> QED
    BY <1>1, <2>1, <2>2, ShapeBy, EndMoves DEF Moves
<1> QED
  BY <1>4, <1>5, <1>6 DEF Attempt

\* A sweep takes rows from its batch only.
LEMMA SweepShape ==
    ASSUME TypeOK, Shape, NEW w \in Sweeps, Sweep(w)
    PROVE  Moves(w) /\ UNCHANGED <<faults, overruns>> /\ Shape'
<1>1. /\ w \in Actors /\ w \notin Deliveries /\ run \in [Actors -> RunRecords] /\ run[w] \in RunRecords
      /\ batch \in [Sweeps -> SUBSET Deliveries] /\ NoRow \notin Deliveries /\ Placed(w)
  BY ActorsAssumption DEF TypeOK, Actors, Shape
<1>2. CASE ExpireStale(w) \/ EndSweep(w)
  <2>1. /\ \A y \in Actors \ {w} : run'[y] = run[y]
        /\ run'[w].row = run[w].row /\ run'[w].at \in {"expired", "idle"} /\ UNCHANGED <<batch, faults, overruns>>
        /\ run[w].at \in {"idle", "looping"} /\ batch[w] = {}
    BY <1>1, <1>2 DEF ExpireStale, EndSweep, Goto, RunRecords, Placed
  <2>2. Placed(w)'
    BY <1>1, <2>1 DEF Placed, AttemptStages
  <2> QED
    BY <1>1, <2>1, <2>2, ShapeBy DEF Moves
<1>3. CASE Claim(w)
  <2>1. /\ \A y \in Actors \ {w} : run'[y] = run[y]
        /\ run'[w].row = NoRow /\ run'[w].at = "looping" /\ UNCHANGED <<faults, overruns>>
    BY <1>1, <1>3 DEF Claim, Goto, RunRecords, Placed, AttemptStages
  <2>2. batch'[w] \subseteq Deliveries /\ \A v \in Sweeps \ {w} : batch'[v] = batch[v]
    BY <1>1, <1>3 DEF Claim, Batches, DueRows
  <2>3. Placed(w)'
    BY <1>1, <2>1, <2>2 DEF Placed, AttemptStages
  <2> QED
    BY <1>1, <2>1, <2>2, <2>3, ShapeBy DEF Moves
<1>4. CASE TakeRow(w)
  <2>1. PICK d \in batch[w] :
          /\ batch' = [batch EXCEPT ![w] = batch[w] \ {d}]
          /\ run' = [run EXCEPT ![w] = [run[w] EXCEPT !.at = IF endpoint.status = "active" THEN "sending" ELSE "rejecting", !.row = d]]
    BY <1>1, <1>4 DEF TakeRow
  <2>2. /\ run'[w].row = d /\ run'[w].at \in {"sending", "rejecting"} /\ d # NoRow
        /\ batch'[w] = batch[w] \ {d}
        /\ \A v \in Sweeps \ {w} : batch'[v] = batch[v]
        /\ \A y \in Actors \ {w} : run'[y] = run[y]
    BY <1>1, <2>1 DEF RunRecords
  <2>3. Placed(w)'
    BY <1>1, <2>2 DEF Placed, AttemptStages
  <2> QED
    BY <1>1, <1>4, <2>2, <2>3, ShapeBy DEF Moves, TakeRow
<1>5. CASE RejectRow(w)
  <2>1. EndAttempt(w) /\ UNCHANGED <<batch, faults, overruns>>
    BY <1>5 DEF RejectRow
  <2>2. Placed(w)'
    BY <1>1, <2>1, TypeOK, EndMoves DEF Placed, AttemptStages
  <2> QED
    BY <1>1, <2>1, <2>2, ShapeBy, EndMoves DEF Moves
<1> QED
  BY <1>2, <1>3, <1>4, <1>5 DEF Sweep

\* A crash or a failed statement lets go, or goes back to "refused".
LEMMA FaultShape ==
    ASSUME TypeOK, Shape, NEW x \in Actors, Crash(x) \/ CaughtFailure(x) \/ (x \in Sweeps /\ RowFails(x))
    PROVE  Moves(x) /\ UNCHANGED <<delivery, posts, overruns>> /\ Shape'
<1>1. /\ run \in [Actors -> RunRecords] /\ run[x] \in RunRecords
      /\ batch \in [Sweeps -> SUBSET Deliveries] /\ NoRow \notin Deliveries /\ Placed(x) /\ Deliveries \cap Sweeps = {}
  BY ActorsAssumption DEF TypeOK, Shape
<1>2. CASE Crash(x)
  <2>1. Leave(x, IF x \in Sweeps THEN "idle" ELSE "lost") /\ UNCHANGED <<delivery, posts, overruns>>
    BY <1>2 DEF Crash
  <2>2. /\ run'[x].at = (IF x \in Sweeps THEN "idle" ELSE "lost") /\ run'[x].row = NoRow
        /\ \A y \in Actors \ {x} : run'[y] = run[y]
    BY <2>1, LeaveMoves DEF Places
  <2>3. (x \in Sweeps => batch'[x] = {}) /\ \A v \in Sweeps \ {x} : batch'[v] = batch[v]
    BY <1>2 DEF Crash
  <2>4. Placed(x)'
    BY <1>1, <2>2, <2>3 DEF Placed, AttemptStages
  <2> QED
    BY <2>1, <2>2, <2>3, <2>4, ShapeBy DEF Moves
<1>3. CASE CaughtFailure(x)
  <2>1. /\ run'[x].at = "refused" /\ run'[x].row = run[x].row /\ run[x].at \in AttemptStages
        /\ \A y \in Actors \ {x} : run'[y] = run[y]
        /\ UNCHANGED <<batch, delivery, posts, overruns>>
    BY <1>1, <1>3 DEF CaughtFailure, RunRecords
  <2>2. Placed(x)'
    BY <1>1, <2>1 DEF Placed, AttemptStages
  <2> QED
    BY <2>1, <2>2, ShapeBy DEF Moves
<1>4. CASE x \in Sweeps /\ RowFails(x)
  <2>1. EndAttempt(x) /\ UNCHANGED <<batch, delivery, posts, overruns>> /\ run[x].at \notin {"idle", "expired"}
    BY <1>4 DEF RowFails, AttemptStages
  <2>2. Placed(x)'
    BY <1>1, <1>4, <2>1, EndMoves DEF Placed, AttemptStages
  <2> QED
    BY <2>1, <2>2, ShapeBy, EndMoves DEF Moves
<1> QED
  BY <1>2, <1>3, <1>4

\* A first attempt takes its own row.
LEMMA DeliveryShape ==
    ASSUME TypeOK, Shape, NEW d \in Deliveries, Dispatch(d) \/ SendTest(d) \/ InsertDelivery(d)
    PROVE  /\ Moves(d) /\ UNCHANGED <<batch, posts, faults, overruns>> /\ Shape'
           /\ run[d].row = NoRow
           /\ run[d].at \in {"idle", "chosen"}
<1>1. /\ d \in Actors /\ d \notin Sweeps /\ d # NoRow /\ run \in [Actors -> RunRecords] /\ run[d] \in RunRecords /\ Placed(d)
  BY ActorsAssumption DEF TypeOK, Shape, Actors
<1>2. /\ \A y \in Actors \ {d} : run'[y] = run[y]
      /\ UNCHANGED <<batch, posts, faults, overruns>>
      /\ run[d].at \in {"idle", "chosen"}
      /\ \/ run'[d].at = "chosen" /\ run'[d].row = run[d].row
         \/ run'[d].at = "sending" /\ run'[d].row = d
  BY <1>1 DEF Dispatch, SendTest, InsertDelivery, Goto, RunRecords
<1>3. Placed(d)' /\ run[d].row = NoRow
  BY <1>1, <1>2 DEF Placed, AttemptStages
<1> QED
  BY <1>1, <1>2, <1>3, ShapeBy DEF Moves

\* Every step keeps every actor where it may stand.
LEMMA ShapeStep == TypeOK /\ Shape /\ [Next]_vars => Shape'
<1> SUFFICES ASSUME TypeOK, Shape, [Next]_vars PROVE Shape'
  OBVIOUS
<1>1. CASE \E s \in {"active", "disabled"} : PatchEndpoint(s)
  BY <1>1, ShapeStays DEF PatchEndpoint
<1>2. CASE \E d \in Deliveries : NextRetryComes(d) \/ WindowCloses(d)
  BY <1>2, ShapeStays DEF NextRetryComes, WindowCloses
<1>3. CASE UNCHANGED vars
  BY <1>3, ShapeStays DEF vars
<1>4. Sweeps \subseteq Actors
  BY DEF Actors
<1> QED
  BY <1>1, <1>2, <1>3, <1>4, AttemptShape, SweepShape, FaultShape, DeliveryShape DEF Next

-----------------------------------------------------------------------------
(***************************************************************************)
(* Leases.                                                                 *)
(***************************************************************************)

\* Nobody new comes to the row, and whoever has it in hand stays where it is.
Apart(d) ==
    /\ \A x \in Actors : run'[x].row = d <=> run[x].row = d
    /\ \A x \in Actors : run[x].row = d => run'[x] = run[x]
    /\ \A w \in Sweeps : d \in batch'[w] => d \in batch[w]
    /\ run'[d].at \in {"idle", "chosen"} => run[d].at \in {"idle", "chosen"}
    /\ run'[d].at \in AttemptStages => run[d].at \in AttemptStages

SameRow(d) ==
    /\ delivery'[d].status = delivery[d].status /\ delivery'[d].attempts = delivery[d].attempts
    /\ delivery'[d].next = delivery[d].next
    /\ posts'[d] = posts[d]

\* A step apart from a row, that does not write it either, disturbs nothing.
LEMMA RowApart ==
    ASSUME TypeOK, TypeOK', NEW d \in Deliveries, RowOk(d), Apart(d), SameRow(d), faults <= faults'
    PROVE  RowOk(d)'
<1>1. \A x \in Actors : Holds(x, d)' => Holds(x, d)
  BY DEF Holds, Apart
<1>2. OneHolder(d)'
  BY <1>1 DEF OneHolder, RowOk
<1>3. Leased(d)'
  <2>1. \A w \in Sweeps : Holds(w, d)' => Holds(w, d)
    BY <1>1 DEF Actors
  <2> QED
    BY <2>1 DEF Leased, RowOk, Apart, SameRow
<1>4. ASSUME NEW x \in Actors PROVE Known(x, d)'
  <2>1. Known(x, d)
    BY DEF RowOk
  <2> QED
    BY <2>1 DEF Known, Waiting, Exhausted, Apart, SameRow
<1>5. (Uncounted(d)' <=> Uncounted(d)) /\ (Answered(d)' <=> Answered(d))
  BY DEF Uncounted, Answered, Apart
<1>6. /\ faults \in Nat /\ faults' \in Nat /\ posts[d] \in Nat /\ delivery[d].attempts \in Nat /\ MaxAttempts \in Nat
      /\ Paid(d)
  BY CountsAssumption DEF TypeOK, DeliveryRows, RowOk
<1>7. Paid(d)'
  BY <1>5, <1>6 DEF Paid, SameRow
<1> QED
  BY <1>2, <1>3, <1>4, <1>7 DEF RowOk

\* An actor moves with another row in hand, or with none before and after.
LEMMA OthersApart ==
    ASSUME NEW x \in Actors, Moves(x), NEW d \in Deliveries, run[x].row # d, run'[x].row # d,
           x \in Sweeps => (d \in batch'[x] => d \in batch[x]),
           x = d => run'[d].at \notin {"idle", "chosen"} \cup AttemptStages \/ (run[d].at \in {"idle", "chosen"} /\ run'[d].at = "chosen")
    PROVE  Apart(d)
<1>1. /\ \A y \in Actors : run'[y].row = d <=> run[y].row = d
      /\ \A y \in Actors : run[y].row = d => run'[y] = run[y]
      /\ \A w \in Sweeps : d \in batch'[w] => d \in batch[w]
  BY DEF Moves
<1>2. /\ run'[d].at \in {"idle", "chosen"} => run[d].at \in {"idle", "chosen"}
      /\ run'[d].at \in AttemptStages => run[d].at \in AttemptStages
  <2>1. CASE x = d
    BY <2>1 DEF AttemptStages
  <2>2. CASE x # d
    <3>1. run'[d] = run[d]
      BY <2>2 DEF Moves, Actors
    <3> QED
      BY <3>1
  <2> QED
    BY <2>1, <2>2
<1> QED
  BY <1>1, <1>2 DEF Apart

\* The row of the acting holder is nobody else's.
LEMMA SoleHolder ==
    ASSUME NEW x \in Actors, NEW d \in Deliveries, Holds(x, d), RowOk(d)
    PROVE  \A y \in Actors : Holds(y, d) => y = x
BY DEF RowOk, OneHolder

\* The holder goes on with its row.
LEMMA RowGoesOn ==
    ASSUME TypeOK, Shape, Shape', NEW x \in Actors, NEW d \in Deliveries, RowOk(d), Moves(x), UNCHANGED batch,
           run[x].row = d, run'[x].row = d,
           run[x].at \in AttemptStages, delivery'[d].next = delivery[d].next,
           Known(x, d)', Paid(d)'
    PROVE  RowOk(d)'
<1>1. \A y \in Actors : Holds(y, d) => y = x
  BY SoleHolder DEF Holds
<1>2. \A y \in Actors : Holds(y, d)' => y = x
  BY <1>1 DEF Holds, Moves
<1>3. OneHolder(d)'
  BY <1>2 DEF OneHolder
<1>4. Leased(d)'
  <2>1. \A w \in Sweeps : Holds(w, d)' => Holds(w, d)
    BY <1>2 DEF Holds, Actors
  <2>2. d \in Actors /\ Placed(x)' /\ Placed(x) /\ Leased(d)
    BY DEF Shape, RowOk, Actors
  <2>3. CASE x = d
    BY <2>1, <2>2, <2>3, ActorsAssumption DEF Leased, Placed, AttemptStages
  <2>4. CASE x # d
    <3>1. x \in Sweeps /\ Holds(x, d)
      BY <2>2, <2>4, ActorsAssumption DEF Placed, Actors, Holds
    <3>2. run[d].at \notin {"idle", "chosen"} \cup AttemptStages /\ delivery[d].next = "later"
      BY <2>2, <3>1 DEF Leased
    <3>3. run'[d] = run[d]
      BY <2>2, <2>4 DEF Moves
    <3> QED
      BY <2>1, <3>2, <3>3 DEF Leased
  <2> QED
    BY <2>3, <2>4
<1>5. ASSUME NEW y \in Actors PROVE Known(y, d)'
  <2>1. CASE y = x
    BY <2>1
  <2>2. CASE y # x
    BY <1>2, <2>2 DEF Known, Holds
  <2> QED
    BY <2>1, <2>2
<1> QED
  BY <1>3, <1>4, <1>5 DEF RowOk

\* The holder lets go of its row.
LEMMA RowReleased ==
    ASSUME TypeOK, Shape, Shape', NEW x \in Actors, NEW d \in Deliveries, RowOk(d), Moves(x),
           x \in Sweeps => batch'[x] \subseteq batch[x],
           run[x].row = d, run'[x].row = NoRow, run'[x].at \notin {"idle", "chosen"} \/ x \in Sweeps,
           posts'[d] <= MaxAttempts + faults',
           posts'[d] <= delivery'[d].attempts + faults',
           delivery'[d].status \in Final \/ posts'[d] < MaxAttempts + faults',
           posts'[d] \in Nat, faults' \in Nat, delivery'[d].attempts \in Nat
    PROVE  RowOk(d)' /\ (\A y \in Actors : ~Holds(y, d)')
<1>0. Placed(x) /\ Placed(x)' /\ NoRow # d /\ d \in Actors /\ x \in Deliveries => x = d
  BY ActorsAssumption DEF Shape, Placed, Actors
<1>1. \A y \in Actors : Holds(y, d) => y = x
  BY SoleHolder DEF Holds
<1>2. \A y \in Actors : ~Holds(y, d)'
  <2>1. x \in Sweeps => d \notin batch'[x]
    BY DEF Shape, Placed
  <2> QED
    BY <1>1, <2>1, ActorsAssumption DEF Holds, Moves
<1>3. OneHolder(d)'
  BY <1>2 DEF OneHolder
<1>4. Leased(d)'
  <2>1. \A w \in Sweeps : ~Holds(w, d)'
    BY <1>2 DEF Actors
  <2>2. run'[d].at \notin {"idle", "chosen"} \cup AttemptStages
    <3>1. CASE x \in Sweeps
      <4>1. delivery[d].next = "later" /\ d # x
        BY <3>1, ActorsAssumption DEF RowOk, Leased, Holds
      <4> QED
        BY <4>1 DEF RowOk, Leased, Moves, Actors
    <3>2. CASE x \in Deliveries
      <4>1. x = d
        BY <3>2, ActorsAssumption DEF Shape, Placed
      <4>2. run'[x].at \notin AttemptStages
        BY ActorsAssumption DEF Shape, Placed
      <4> QED
        BY <3>2, <4>1, <4>2, ActorsAssumption
    <3> QED
      BY <3>1, <3>2 DEF Actors
  <2> QED
    BY <2>1, <2>2 DEF Leased
<1>5. \A y \in Actors : Known(y, d)'
  BY <1>2 DEF Known, Holds
<1>6. Paid(d)'
  BY CountsAssumption DEF Paid
<1> QED
  BY <1>2, <1>3, <1>4, <1>5, <1>6 DEF RowOk

\* What Paid says to the actor that has the row in hand.
LEMMA PaidInHand ==
    ASSUME NEW x \in Actors, NEW d \in Deliveries, RowOk(d), run[x].row = d
    PROVE  /\ posts[d] <= MaxAttempts + faults
           /\ posts[d] <= delivery[d].attempts + faults + 1
           /\ run[x].at \in {"accepted", "refused"} \/ posts[d] <= delivery[d].attempts + faults
           /\ run[x].at \notin {"sending", "rejecting"} \/ delivery[d].status \in Final \/ posts[d] < MaxAttempts + faults
<1>1. \A y \in Actors : run[y].row = d => y = x
  BY SoleHolder DEF Holds
<1>2. Uncounted(d) => run[x].at \in {"accepted", "refused"}
  BY <1>1 DEF Uncounted
<1>3. Answered(d) => run[x].at \notin {"sending", "rejecting"}
  BY <1>1 DEF Answered
<1> QED
  BY <1>2, <1>3 DEF RowOk, Paid

\* The same, the other way round, for the next state.
LEMMA InHandPaid ==
    ASSUME NEW x \in Actors, NEW d \in Deliveries, run'[x].row = d,
           posts'[d] <= MaxAttempts + faults',
           posts'[d] <= delivery'[d].attempts + faults' + 1,
           run'[x].at \in {"accepted", "refused"} \/ posts'[d] <= delivery'[d].attempts + faults',
           run'[x].at \notin {"sending", "rejecting"} \/ delivery'[d].status \in Final \/ posts'[d] < MaxAttempts + faults'
    PROVE  Paid(d)'
<1>1. run'[x].at \in {"accepted", "refused"} => Uncounted(d)'
  BY DEF Uncounted
<1>2. run'[x].at \notin {"sending", "rejecting"} => Answered(d)'
  BY DEF Answered
<1> QED
  BY <1>1, <1>2 DEF Paid

\* A row that is due has no holder.
LEMMA DueIsFree ==
    ASSUME Shape, NEW d \in Deliveries, RowOk(d), delivery[d].next = "due"
    PROVE  /\ \A y \in Actors : ~Holds(y, d)
           /\ run[d].at \notin {"idle", "chosen"} \cup AttemptStages
           /\ posts[d] <= MaxAttempts + faults
           /\ posts[d] <= delivery[d].attempts + faults
           /\ delivery[d].status \in Final \/ posts[d] < MaxAttempts + faults
<1>1. run[d].at \notin {"idle", "chosen"} \cup AttemptStages
  BY DEF RowOk, Leased
<1>2. ASSUME NEW y \in Actors PROVE ~Holds(y, d)
  <2>1. CASE y \in Sweeps
    BY <2>1 DEF RowOk, Leased
  <2>2. CASE y \in Deliveries
    <3>1. Placed(y) /\ d # NoRow /\ y \notin Sweeps
      BY <2>2, ActorsAssumption DEF Shape
    <3>2. run[y].row = d => y = d /\ run[y].at \in AttemptStages
      BY <2>2, <3>1 DEF Placed
    <3> QED
      BY <1>1, <3>1, <3>2 DEF Holds
  <2> QED
    BY <2>1, <2>2 DEF Actors
<1>3. ~Uncounted(d) /\ ~Answered(d)
  BY <1>2 DEF Uncounted, Answered, Holds
<1> QED
  BY <1>1, <1>2, <1>3 DEF RowOk, Paid

\* A row without a holder.
LEMMA FreeRow ==
    ASSUME NEW d \in Deliveries, \A y \in Actors : ~Holds(y, d)', run'[d].at \notin {"idle", "chosen"} \cup AttemptStages,
           posts'[d] <= MaxAttempts + faults', posts'[d] <= delivery'[d].attempts + faults',
           posts'[d] <= delivery'[d].attempts + faults' + 1,
           delivery'[d].status \in Final \/ posts'[d] < MaxAttempts + faults'
    PROVE  RowOk(d)'
<1>1. OneHolder(d)' /\ \A y \in Actors : Known(y, d)'
  BY DEF OneHolder, Known, Holds
<1>2. Leased(d)'
  BY DEF Leased, Actors
<1>3. Paid(d)'
  BY DEF Paid
<1> QED
  BY <1>1, <1>2, <1>3 DEF RowOk

\* The rows that an actor in the middle of an attempt does not have in hand.
LEMMA OtherRows ==
    ASSUME TypeOK, TypeOK', Shape, NEW x \in Actors, Moves(x),
           run[x].at \in AttemptStages \cup {"rejecting"}, run'[x].row \in {run[x].row, NoRow},
           x \in Sweeps => batch'[x] \subseteq batch[x],
           NEW d \in Deliveries, d # run[x].row, RowOk(d), SameRow(d), faults <= faults'
    PROVE  RowOk(d)'
<1>1. d # NoRow /\ x # d
  BY AttemptRows, ActorsAssumption
<1>2. Apart(d)
  BY <1>1, OthersApart
<1> QED
  BY <1>2, RowApart

\* The steps of an attempt.
LEMMA AttemptLeases ==
    ASSUME TypeOK, TypeOK', Shape, Shape', NEW x \in Actors, Attempt(x), \A d \in Deliveries : RowOk(d)
    PROVE  \A d \in Deliveries : RowOk(d)'
<1>1. run[x].at \in AttemptStages /\ Moves(x) /\ UNCHANGED <<batch, faults, overruns>> /\ Placed(x) /\ Placed(x)'
  BY AttemptShape DEF Attempt, Post, NoAnswer, RecordDelivered, ResetFailures, CountAttempt, Reschedule, GiveUp,
                      ChargeEndpoint, AttemptStages, Shape
<1>0. PICK e \in Deliveries : run[x].row = e
  BY <1>1, AttemptRows
<1>2. /\ run[x].row = e /\ delivery[e] \in DeliveryRows /\ delivery[e].attempts \in Nat /\ posts[e] \in Nat
      /\ faults \in Nat /\ MaxAttempts \in Nat \ {0} /\ run \in [Actors -> RunRecords] /\ run[x] \in RunRecords
      /\ delivery \in [Deliveries -> DeliveryRows] /\ posts \in [Deliveries -> Nat]
  BY <1>0, <1>1, AttemptRows, CountsAssumption DEF TypeOK
<1>3. /\ RowOk(e) /\ Known(x, e) /\ (x \in Sweeps => e \notin batch[x] /\ e \notin batch'[x])
  BY <1>1, <1>2 DEF RowOk, Placed
<1>4. /\ posts[e] <= MaxAttempts + faults
      /\ posts[e] <= delivery[e].attempts + faults + 1
      /\ run[x].at \in {"accepted", "refused"} \/ posts[e] <= delivery[e].attempts + faults
      /\ run[x].at \notin {"sending", "rejecting"} \/ delivery[e].status \in Final \/ posts[e] < MaxAttempts + faults
  BY <1>2, <1>3, PaidInHand
<1>5. CASE Post(x) \/ NoAnswer(x)
  <2>1. /\ run'[x].row = e /\ run[x].at = "sending" /\ run'[x].at \in {"accepted", "refused"} /\ UNCHANGED delivery
        /\ posts'[e] \in {posts[e], posts[e] + 1} /\ \A d \in Deliveries \ {e} : posts'[d] = posts[d]
    <3>1. CASE Post(x)
      BY <1>2, <3>1 DEF Post, RunRecords
    <3>2. CASE NoAnswer(x)
      BY <1>2, <3>2 DEF NoAnswer, Goto, RunRecords
    <3> QED
      BY <1>5, <3>1, <3>2
  <2>2. Waiting(e) /\ delivery[e].status \notin Final
    BY <1>2, <1>3, <2>1 DEF Known, Waiting, Final
  <2>3. Known(x, e)'
    BY <1>3, <2>1, <2>2 DEF Known, Waiting
  <2>4. Paid(e)'
    BY <1>1, <1>2, <1>4, <2>1, <2>2, InHandPaid
  <2>5. RowOk(e)'
    BY <1>1, <1>2, <1>3, <2>1, <2>3, <2>4, RowGoesOn
  <2>6. ASSUME NEW d \in Deliveries, d # e PROVE RowOk(d)'
    BY <1>1, <1>2, <2>1, <2>6, OtherRows DEF SameRow
  <2> QED
    BY <2>5, <2>6
<1>6. CASE RecordDelivered(x) \/ CountAttempt(x) \/ GiveUp(x)
  <2>1. /\ run'[x].row = e /\ UNCHANGED posts /\ delivery'[e].next = delivery[e].next
        /\ \A d \in Deliveries \ {e} : delivery'[d] = delivery[d]
    <3>1. CASE RecordDelivered(x) \/ GiveUp(x)
      BY <1>2, <3>1 DEF RecordDelivered, GiveUp, Goto, RunRecords, DeliveryRows
    <3>2. CASE CountAttempt(x)
      BY <1>2, <3>2 DEF CountAttempt, RunRecords, DeliveryRows
    <3> QED
      BY <1>6, <3>1, <3>2
  <2>2. Known(x, e)' /\ Paid(e)'
    <3>1. CASE RecordDelivered(x)
      <4>1. run[x].at = "accepted" /\ run'[x].at = "recorded" /\ delivery'[e].status = "delivered"
            /\ delivery'[e].attempts = delivery[e].attempts + 1
        BY <1>2, <3>1 DEF RecordDelivered, Goto, RunRecords, DeliveryRows
      <4>2. Known(x, e)'
        BY <1>3, <4>1 DEF Known
      <4>3. Paid(e)'
        BY <1>1, <1>2, <1>4, <2>1, <4>1, InHandPaid DEF Final
      <4> QED
        BY <4>2, <4>3
    <3>2. CASE CountAttempt(x)
      <4>1. /\ run[x].at = "refused" /\ run'[x].at = "counted" /\ run'[x].answered = run[x].answered
            /\ run'[x].count = delivery'[e].attempts
            /\ delivery'[e].attempts = delivery[e].attempts + 1 /\ delivery'[e].status = delivery[e].status
        BY <1>2, <3>2 DEF CountAttempt, RunRecords, DeliveryRows
      <4>2. Known(x, e)'
        BY <1>2, <1>3, <4>1 DEF Known, Waiting, Exhausted
      <4>3. Paid(e)'
        BY <1>1, <1>2, <1>4, <2>1, <4>1, InHandPaid
      <4> QED
        BY <4>2, <4>3
    <3>3. CASE GiveUp(x)
      <4>1. /\ run[x].at = "counted" /\ run'[x].at = "exhausted" /\ run[x].count >= MaxAttempts
            /\ delivery'[e].attempts = delivery[e].attempts /\ delivery'[e].status = "failed"
        BY <1>2, <3>3 DEF GiveUp, Goto, RunRecords, DeliveryRows
      <4>2. Known(x, e)'
        BY <1>2, <1>3, <4>1 DEF Known, Exhausted
      <4>3. Paid(e)'
        BY <1>1, <1>2, <1>4, <2>1, <4>1, InHandPaid DEF Final
      <4> QED
        BY <4>2, <4>3
    <3> QED
      BY <1>6, <3>1, <3>2, <3>3
  <2>3. RowOk(e)'
    BY <1>1, <1>2, <1>3, <2>1, <2>2, RowGoesOn
  <2>4. ASSUME NEW d \in Deliveries, d # e PROVE RowOk(d)'
    BY <1>1, <1>2, <2>1, <2>4, OtherRows DEF SameRow
  <2> QED
    BY <2>3, <2>4
<1>7. CASE ResetFailures(x) \/ Reschedule(x) \/ ChargeEndpoint(x)
  <2>1. EndAttempt(x) /\ UNCHANGED posts /\ run[x].at \in {"recorded", "counted", "exhausted"}
    BY <1>7 DEF ResetFailures, Reschedule, ChargeEndpoint
  <2>2. run'[x].row = NoRow /\ (run'[x].at \notin {"idle", "chosen"} \/ x \in Sweeps)
    BY <2>1, EndMoves
  <2>3. /\ delivery'[e].attempts = delivery[e].attempts
        /\ delivery'[e].status \in Final \/ posts[e] < MaxAttempts + faults
        /\ \A d \in Deliveries \ {e} : delivery'[d] = delivery[d]
    <3>1. CASE ResetFailures(x)
      BY <1>2, <1>3, <3>1 DEF ResetFailures, Known, Final
    <3>2. CASE ChargeEndpoint(x)
      BY <1>2, <1>3, <3>2 DEF ChargeEndpoint, Known, Exhausted, Final
    <3>3. CASE Reschedule(x)
      <4>1. delivery[e].attempts < MaxAttempts
        BY <1>2, <1>3, <3>3 DEF Reschedule, Known
      <4>2. posts[e] < MaxAttempts + faults
        BY <1>2, <1>4, <2>1, <4>1
      <4> QED
        BY <1>2, <3>3, <4>2 DEF Reschedule, DeliveryRows
    <3> QED
      BY <1>7, <3>1, <3>2, <3>3
  <2>4. RowOk(e)'
    <3>1. posts'[e] <= delivery'[e].attempts + faults'
      BY <1>1, <1>2, <1>4, <2>1, <2>3
    <3> QED
      BY <1>1, <1>2, <1>3, <1>4, <2>1, <2>2, <2>3, <3>1, RowReleased
  <2>5. ASSUME NEW d \in Deliveries, d # e PROVE RowOk(d)'
    BY <1>1, <1>2, <2>1, <2>2, <2>3, <2>5, OtherRows DEF SameRow
  <2> QED
    BY <2>4, <2>5
<1> QED
  BY <1>5, <1>6, <1>7 DEF Attempt

\* An actor without a row moves and takes none.
LEMMA FreeActor ==
    ASSUME TypeOK, TypeOK', NEW x \in Actors, Moves(x), run[x].row = NoRow, run'[x].row = NoRow,
           NEW d \in Deliveries, RowOk(d), SameRow(d), faults <= faults',
           x \in Sweeps => (d \in batch'[x] => d \in batch[x]),
           x = d => run'[d].at \notin {"idle", "chosen"} \cup AttemptStages \/ (run[d].at \in {"idle", "chosen"} /\ run'[d].at = "chosen")
    PROVE  RowOk(d)'
<1>1. d # NoRow
  BY ActorsAssumption
<1> QED
  BY <1>1, OthersApart, RowApart

\* Crashes and failed statements: each pays for one more request.
LEMMA FaultLeases ==
    ASSUME TypeOK, TypeOK', Shape, Shape', NEW x \in Actors, \A d \in Deliveries : RowOk(d),
           Crash(x) \/ CaughtFailure(x) \/ (x \in Sweeps /\ RowFails(x))
    PROVE  \A d \in Deliveries : RowOk(d)'
<1>1. Moves(x) /\ UNCHANGED <<delivery, posts, overruns>> /\ Placed(x) /\ Placed(x)' /\ faults' = faults + 1
  BY FaultShape, FaultTypes DEF Shape
<1>2. /\ faults \in Nat /\ faults' \in Nat /\ MaxAttempts \in Nat /\ run \in [Actors -> RunRecords] /\ run[x] \in RunRecords
      /\ \A d \in Deliveries : delivery[d].attempts \in Nat /\ posts[d] \in Nat /\ SameRow(d)
      /\ faults <= faults' /\ Deliveries \cap Sweeps = {}
  BY <1>1, CountsAssumption, ActorsAssumption DEF TypeOK, DeliveryRows, SameRow
<1>3. CASE run[x].at \in AttemptStages \cup {"rejecting"}
  <2>1. PICK e \in Deliveries : run[x].row = e
    BY <1>3, AttemptRows
  <2>2. /\ posts[e] <= MaxAttempts + faults
        /\ posts[e] <= delivery[e].attempts + faults + 1
    BY <2>1, PaidInHand
  <2>3. CASE CaughtFailure(x)
    <3>1. /\ run'[x].at = "refused" /\ run'[x].row = e /\ run[x].at \in AttemptStages /\ UNCHANGED batch
          /\ run'[x].answered = run[x].answered
      BY <1>2, <2>1, <2>3 DEF CaughtFailure, RunRecords
    <3>2. Known(x, e)
      BY <2>1 DEF RowOk
    <3>3. Known(x, e)'
      BY <1>1, <2>1, <3>1, <3>2 DEF Known, Waiting, Exhausted, Placed, AttemptStages
    <3>4. Paid(e)'
      BY <1>1, <1>2, <2>2, <3>1, InHandPaid
    <3>5. RowOk(e)'
      BY <1>1, <2>1, <3>1, <3>3, <3>4, RowGoesOn
    <3>6. ASSUME NEW d \in Deliveries, d # e PROVE RowOk(d)'
      BY <1>1, <1>2, <1>3, <2>1, <3>1, <3>6, OtherRows
    <3> QED
      BY <3>5, <3>6
  <2>4. CASE Crash(x) \/ (x \in Sweeps /\ RowFails(x))
    <3>1. run'[x].row = NoRow /\ (run'[x].at \notin {"idle", "chosen"} \/ x \in Sweeps)
      BY <2>4, EndMoves, LeaveMoves DEF Crash, RowFails, Places
    <3>2. x \in Sweeps => batch'[x] \subseteq batch[x]
      BY <2>4 DEF Crash, RowFails
    <3>3. /\ posts'[e] <= MaxAttempts + faults' /\ posts'[e] <= delivery'[e].attempts + faults'
          /\ posts'[e] < MaxAttempts + faults'
          /\ posts'[e] \in Nat /\ delivery'[e].attempts \in Nat
      BY <1>1, <1>2, <2>2
    <3>4. RowOk(e)'
      BY <1>1, <1>2, <2>1, <3>1, <3>2, <3>3, RowReleased
    <3>5. ASSUME NEW d \in Deliveries, d # e PROVE RowOk(d)'
      BY <1>1, <1>2, <1>3, <2>1, <3>1, <3>2, <3>5, OtherRows
    <3> QED
      BY <3>4, <3>5
  <2> QED
    BY <2>3, <2>4
<1>4. CASE run[x].at \notin AttemptStages \cup {"rejecting"}
  <2>1. Crash(x) /\ run[x].row = NoRow
    BY <1>1, <1>4 DEF CaughtFailure, RowFails, Placed
  <2>2. run'[x].row = NoRow /\ (x \notin Sweeps => run'[x].at = "lost")
    BY <2>1, LeaveMoves DEF Crash, Places
  <2>3. x \in Sweeps => batch'[x] = {}
    BY <2>1 DEF Crash
  <2>4. ASSUME NEW d \in Deliveries PROVE RowOk(d)'
    <3>1. x = d => run'[d].at \notin {"idle", "chosen"} \cup AttemptStages \/ (run[d].at \in {"idle", "chosen"} /\ run'[d].at = "chosen")
      BY <1>2, <2>2 DEF AttemptStages
    <3>2. x \in Sweeps => (d \in batch'[x] => d \in batch[x])
      BY <2>3
    <3>3. RowOk(d) /\ SameRow(d) /\ faults <= faults'
      BY <1>2
    <3> QED
      BY <1>1, <2>1, <2>2, <3>1, <3>2, <3>3, FreeActor
  <2> QED
    BY <2>4
<1> QED
  BY <1>3, <1>4

\* The steps of a sweep: it claims rows that nobody holds.
LEMMA SweepLeases ==
    ASSUME TypeOK, TypeOK', Shape, Shape', NEW w \in Sweeps, Sweep(w), \A d \in Deliveries : RowOk(d)
    PROVE  \A d \in Deliveries : RowOk(d)'
<1>1. w \in Actors /\ w \notin Deliveries /\ Moves(w) /\ UNCHANGED <<faults, overruns>> /\ Placed(w) /\ Placed(w)'
  BY SweepShape, ActorsAssumption DEF Actors, Shape
<1>2. /\ faults \in Nat /\ faults <= faults' /\ MaxAttempts \in Nat /\ run \in [Actors -> RunRecords] /\ run[w] \in RunRecords
      /\ batch \in [Sweeps -> SUBSET Deliveries] /\ delivery \in [Deliveries -> DeliveryRows]
      /\ \A d \in Deliveries : delivery[d].attempts \in Nat /\ posts[d] \in Nat /\ delivery[d] \in DeliveryRows
  BY <1>1, CountsAssumption DEF TypeOK, DeliveryRows
<1>3. \A d \in Deliveries : d \in Actors /\ d # w /\ d # NoRow /\ run'[d] = run[d]
  BY <1>1, ActorsAssumption DEF Actors, Moves
<1>4. CASE ExpireStale(w)
  <2>1. run[w].row = NoRow /\ run'[w].row = NoRow /\ UNCHANGED <<batch, posts>>
    BY <1>1, <1>4, GotoMoves DEF ExpireStale, Places, Placed, AttemptStages
  <2>2. ASSUME NEW d \in Deliveries PROVE RowOk(d)'
    <3>1. CASE ~(d \in DueRows /\ delivery[d].stale)
      <4>1. SameRow(d)
        BY <1>4, <2>1, <3>1 DEF ExpireStale, SameRow
      <4> QED
        BY <1>1, <1>2, <1>3, <2>1, <4>1, FreeActor
    <3>2. CASE d \in DueRows /\ delivery[d].stale
      <4>1. /\ \A y \in Actors : ~Holds(y, d)
            /\ run[d].at \notin {"idle", "chosen"} \cup AttemptStages
            /\ posts[d] <= MaxAttempts + faults
            /\ posts[d] <= delivery[d].attempts + faults
        BY <3>2, DueIsFree DEF DueRows
      <4>2. delivery'[d].attempts = delivery[d].attempts /\ delivery'[d].status = "failed"
        BY <1>2, <1>4, <3>2 DEF ExpireStale, DeliveryRows
      <4>3. \A y \in Actors : ~Holds(y, d)'
        BY <1>1, <1>3, <2>1, <4>1 DEF Holds, Moves
      <4>4. posts'[d] <= delivery'[d].attempts + faults' + 1
        BY <1>1, <1>2, <2>1, <4>1, <4>2
      <4> QED
        BY <1>1, <1>3, <2>1, <4>1, <4>2, <4>3, <4>4, FreeRow DEF Final
    <3> QED
      BY <3>1, <3>2
  <2> QED
    BY <2>2
<1>5. CASE Claim(w)
  <2>1. /\ run[w].row = NoRow /\ run'[w].row = NoRow /\ run'[w].at = "looping" /\ UNCHANGED posts
    BY <1>1, <1>5, GotoMoves DEF Claim, Places, Placed, AttemptStages
  <2>2. PICK b \in Batches :
          /\ batch' = [batch EXCEPT ![w] = b]
          /\ delivery' = [d \in Deliveries |-> IF d \in b THEN [delivery[d] EXCEPT !.next = "later"] ELSE delivery[d]]
    BY <1>5 DEF Claim
  <2>3. b \subseteq DueRows /\ batch'[w] = b /\ \A v \in Sweeps \ {w} : batch'[v] = batch[v]
    BY <1>2, <2>2 DEF Batches
  <2>4. ASSUME NEW d \in Deliveries PROVE RowOk(d)'
    <3>1. CASE d \notin b
      <4>1. SameRow(d)
        BY <2>1, <2>2, <3>1 DEF SameRow
      <4> QED
        BY <1>1, <1>2, <1>3, <2>1, <2>3, <3>1, <4>1, FreeActor
    <3>2. CASE d \in b
      <4>1. /\ \A y \in Actors : ~Holds(y, d)
            /\ run[d].at \notin {"idle", "chosen"} \cup AttemptStages
            /\ posts[d] <= MaxAttempts + faults
            /\ posts[d] <= delivery[d].attempts + faults
            /\ delivery[d].status \in Final \/ posts[d] < MaxAttempts + faults
            /\ delivery[d].status = "retrying"
        BY <2>3, <3>2, DueIsFree DEF DueRows
      <4>2. /\ delivery'[d].attempts = delivery[d].attempts /\ delivery'[d].status = delivery[d].status
            /\ delivery'[d].next = "later"
        BY <1>2, <2>2, <3>2 DEF DeliveryRows
      <4>3. \A y \in Actors : Holds(y, d)' => y = w
        BY <1>1, <1>3, <2>1, <2>3, <4>1 DEF Holds, Moves
      <4>4. \A y \in Actors : run'[y].row # d
        BY <1>1, <1>3, <2>1, <4>1 DEF Holds, Moves
      <4>5. OneHolder(d)'
        BY <4>3 DEF OneHolder
      <4>6. Leased(d)'
        BY <1>3, <4>1, <4>2 DEF Leased
      <4>7. \A y \in Actors : Known(y, d)'
        BY <4>1, <4>2, <4>4 DEF Known, Waiting
      <4>8. Paid(d)'
        BY <1>1, <1>2, <2>1, <4>1, <4>2 DEF Paid
      <4> QED
        BY <4>5, <4>6, <4>7, <4>8 DEF RowOk
    <3> QED
      BY <3>1, <3>2
  <2> QED
    BY <2>4
<1>6. CASE TakeRow(w)
  <2>1. PICK e \in batch[w] :
          /\ batch' = [batch EXCEPT ![w] = batch[w] \ {e}]
          /\ run' = [run EXCEPT ![w] = [run[w] EXCEPT !.at = IF endpoint.status = "active" THEN "sending" ELSE "rejecting", !.row = e]]
    BY <1>1, <1>2, <1>6 DEF TakeRow
  <2>2. /\ e \in Deliveries /\ run[w].row = NoRow /\ UNCHANGED <<delivery, posts>>
        /\ run'[w].row = e /\ run'[w].at \in {"sending", "rejecting"}
        /\ batch'[w] = batch[w] \ {e} /\ \A v \in Sweeps \ {w} : batch'[v] = batch[v]
    BY <1>1, <1>2, <1>6, <2>1 DEF TakeRow, RunRecords, Placed, AttemptStages
  <2>3. ASSUME NEW d \in Deliveries, d # e PROVE RowOk(d)'
    <3>1. SameRow(d) /\ Apart(d)
      BY <1>1, <1>3, <2>2, <2>3, OthersApart DEF SameRow
    <3> QED
      BY <1>2, <3>1, RowApart
  <2>4. RowOk(e)'
    <3>1. Holds(w, e) /\ \A y \in Actors : Holds(y, e) => y = w
      BY <1>1, <2>1, <2>2, SoleHolder DEF Holds
    <3>2. \A y \in Actors : Holds(y, e)' => y = w
      BY <1>1, <3>1 DEF Holds, Moves
    <3>3. OneHolder(e)'
      BY <3>2 DEF OneHolder
    <3>4. Leased(e)'
      <4>1. delivery[e].next = "later" /\ Leased(e)
        BY <2>2, <3>1 DEF RowOk, Leased
      <4> QED
        BY <1>3, <2>2, <4>1 DEF Leased
    <3>5. Waiting(e) /\ delivery[e].status \notin Final
      BY <1>1, <2>1, <2>2 DEF RowOk, Known, Waiting, Final
    <3>6. \A y \in Actors : Known(y, e)'
      BY <2>2, <3>2, <3>5 DEF Known, Waiting, Holds
    <3>7. ~Uncounted(e) /\ ~Answered(e)
      BY <1>3, <2>2, <3>1 DEF Uncounted, Answered, Holds
    <3>8. Paid(e)'
      BY <1>1, <2>2, <3>5, <3>7 DEF RowOk, Paid
    <3> QED
      BY <3>3, <3>4, <3>6, <3>8 DEF RowOk
  <2> QED
    BY <2>3, <2>4
<1>7. CASE RejectRow(w)
  <2>1. PICK e \in Deliveries : run[w].row = e
    BY <1>1, <1>7, AttemptRows DEF RejectRow
  <2>2. /\ EndAttempt(w) /\ UNCHANGED <<batch, posts>> /\ run[w].at = "rejecting"
        /\ delivery'[e].status = "failed" /\ delivery'[e].attempts = delivery[e].attempts
        /\ \A d \in Deliveries \ {e} : delivery'[d] = delivery[d]
    BY <1>2, <1>7, <2>1 DEF RejectRow, DeliveryRows
  <2>3. run'[w].row = NoRow
    BY <1>1, <2>2, EndMoves
  <2>4. posts[e] <= MaxAttempts + faults /\ posts[e] <= delivery[e].attempts + faults
    BY <1>1, <2>1, <2>2, PaidInHand
  <2>5. /\ posts'[e] <= MaxAttempts + faults' /\ posts'[e] <= delivery'[e].attempts + faults'
        /\ posts'[e] \in Nat /\ faults' \in Nat /\ delivery'[e].attempts \in Nat
    BY <1>1, <1>2, <2>2, <2>4
  <2>6. RowOk(e)'
    BY <1>1, <2>1, <2>2, <2>3, <2>5, RowReleased DEF Final
  <2>7. ASSUME NEW d \in Deliveries, d # e PROVE RowOk(d)'
    BY <1>1, <1>2, <2>1, <2>2, <2>3, <2>7, OtherRows DEF SameRow
  <2> QED
    BY <2>6, <2>7
<1>8. CASE EndSweep(w)
  <2>1. run[w].row = NoRow /\ run'[w].row = NoRow /\ UNCHANGED <<batch, posts, delivery>>
    BY <1>1, <1>8, GotoMoves DEF EndSweep, Places, Placed, AttemptStages
  <2> QED
    BY <1>1, <1>2, <1>3, <2>1, FreeActor DEF SameRow
<1> QED
  BY <1>4, <1>5, <1>6, <1>7, <1>8 DEF Sweep

\* The first attempt: no sweep holds a row whose next_retry_at is NULL.
LEMMA DeliveryLeases ==
    ASSUME TypeOK, TypeOK', Shape, Shape', NEW e \in Deliveries, \A d \in Deliveries : RowOk(d),
           Dispatch(e) \/ SendTest(e) \/ InsertDelivery(e)
    PROVE  \A d \in Deliveries : RowOk(d)'
<1>1. /\ e \in Actors /\ e \notin Sweeps /\ Moves(e) /\ UNCHANGED <<batch, posts, faults, overruns>>
      /\ run[e].row = NoRow /\ run[e].at \in {"idle", "chosen"} /\ Placed(e)'
  BY DeliveryShape, ActorsAssumption DEF Actors, Shape
<1>2. /\ faults \in Nat /\ faults <= faults' /\ MaxAttempts \in Nat \ {0} /\ run \in [Actors -> RunRecords]
      /\ run[e] \in RunRecords /\ delivery \in [Deliveries -> DeliveryRows]
      /\ \A d \in Deliveries : delivery[d].attempts \in Nat /\ posts[d] \in Nat /\ delivery[d] \in DeliveryRows
  BY <1>1, CountsAssumption DEF TypeOK, DeliveryRows
<1>3. CASE Dispatch(e) \/ SendTest(e)
  <2>1. run'[e].row = NoRow /\ run'[e].at = "chosen" /\ UNCHANGED delivery
    BY <1>1, <1>3, GotoMoves DEF Dispatch, SendTest, Places
  <2>2. \A d \in Deliveries : SameRow(d)
    BY <1>1, <2>1 DEF SameRow
  <2>3. ASSUME NEW d \in Deliveries PROVE RowOk(d)'
    <3>1. e = d => run'[d].at \notin {"idle", "chosen"} \cup AttemptStages \/ (run[d].at \in {"idle", "chosen"} /\ run'[d].at = "chosen")
      BY <1>1, <2>1
    <3>2. RowOk(d) /\ SameRow(d) /\ faults <= faults'
      BY <1>2, <2>2
    <3> QED
      BY <1>1, <2>1, <3>1, <3>2, FreeActor
  <2> QED
    BY <2>3
<1>4. CASE InsertDelivery(e)
  <2>1. /\ run'[e].row = e /\ run'[e].at = "sending"
        /\ delivery'[e].status = "pending" /\ delivery'[e].next = delivery[e].next /\ delivery'[e].attempts = delivery[e].attempts
        /\ \A d \in Deliveries \ {e} : delivery'[d] = delivery[d]
    <3>1. run'[e] = [run[e] EXCEPT !.at = "sending", !.row = e] /\ delivery'[e] = [delivery[e] EXCEPT !.status = "pending"]
      BY <1>1, <1>2, <1>4 DEF InsertDelivery
    <3>2. \A d \in Deliveries \ {e} : delivery'[d] = delivery[d]
      BY <1>2, <1>4 DEF InsertDelivery
    <3> QED
      BY <1>2, <3>1, <3>2 DEF RunRecords, DeliveryRows
  <2>2. ASSUME NEW d \in Deliveries, d # e PROVE RowOk(d)'
    <3>1. SameRow(d) /\ d # NoRow
      BY <1>1, <2>1, <2>2, ActorsAssumption DEF SameRow
    <3>2. Apart(d)
      BY <1>1, <2>1, <2>2, <3>1, OthersApart
    <3> QED
      BY <1>2, <3>1, <3>2, RowApart
  <2>3. RowOk(e)'
    <3>1. delivery[e].next = "null" /\ posts[e] = 0 /\ \A w \in Sweeps : ~Holds(w, e)
      BY <1>1 DEF RowOk, Leased
    <3>2. ASSUME NEW y \in Actors, Holds(y, e)' PROVE y = e
      <4>1. CASE y \in Sweeps
        BY <1>1, <3>1, <3>2, <4>1 DEF Holds, Moves
      <4>2. CASE y \in Deliveries
        BY <3>2, <4>2, ActorsAssumption DEF Shape, Placed, Holds
      <4> QED
        BY <4>1, <4>2 DEF Actors
    <3>3. OneHolder(e)'
      BY <3>2 DEF OneHolder
    <3>4. Leased(e)'
      BY <1>1, <2>1, <3>1, <3>2 DEF Leased, AttemptStages, Actors
    <3>5. \A y \in Actors : Known(y, e)'
      BY <1>1, <2>1, <3>2 DEF Known, Waiting, Holds
    <3>6. Paid(e)'
      BY <1>1, <1>2, <2>1, <3>1, InHandPaid
    <3> QED
      BY <3>3, <3>4, <3>5, <3>6 DEF RowOk
  <2> QED
    BY <2>2, <2>3
<1> QED
  BY <1>3, <1>4

\* A lease that runs out under its sweep is an overrun.
LEMMA ClockLeases ==
    ASSUME TypeOK, TypeOK', Shape, NEW e \in Deliveries, \A d \in Deliveries : RowOk(d), NextRetryComes(e),
           overruns = 0, overruns' = 0
    PROVE  \A d \in Deliveries : RowOk(d)'
<1>1. /\ UNCHANGED <<run, batch, posts, faults>> /\ delivery[e].next = "later" /\ faults \in Nat
      /\ delivery'[e].next = "due" /\ delivery'[e].status = delivery[e].status /\ delivery'[e].attempts = delivery[e].attempts
      /\ \A d \in Deliveries \ {e} : delivery'[d] = delivery[d]
  BY DEF NextRetryComes, TypeOK, DeliveryRows
<1>2. \A d \in Deliveries : Apart(d)
  BY <1>1 DEF Apart
<1>3. ASSUME NEW d \in Deliveries, d # e PROVE RowOk(d)'
  BY <1>1, <1>2, <1>3, RowApart DEF SameRow
<1>4. RowOk(e)'
  <2>1. \A w \in Sweeps : ~Held(w, e)
    BY DEF NextRetryComes
  <2>2. ASSUME NEW w \in Sweeps PROVE ~Holds(w, e)
    <3>1. Placed(w) /\ e # NoRow
      BY ActorsAssumption DEF Shape, Actors
    <3> QED
      BY <2>1, <3>1 DEF Placed, Held, Attempting, Holds
  <2>3. Leased(e)'
    BY <1>1, <2>2 DEF RowOk, Leased, Holds
  <2>4. OneHolder(e)'
    BY <1>1 DEF RowOk, OneHolder, Holds
  <2>5. ASSUME NEW y \in Actors PROVE Known(y, e)'
    <3>1. Known(y, e)
      BY DEF RowOk
    <3> QED
      BY <1>1, <3>1 DEF Known, Waiting, Exhausted
  <2>6. Paid(e)'
    BY <1>1 DEF RowOk, Paid, Uncounted, Answered
  <2> QED
    BY <2>3, <2>4, <2>5, <2>6 DEF RowOk
<1> QED
  BY <1>3, <1>4

\* Steps that neither the rows nor the actors notice.
LEMMA StillLeases ==
    ASSUME TypeOK, TypeOK', \A d \in Deliveries : RowOk(d), UNCHANGED <<run, batch, posts, faults>>,
           \A d \in Deliveries : SameRow(d)
    PROVE  \A d \in Deliveries : RowOk(d)'
<1>1. \A d \in Deliveries : Apart(d)
  BY DEF Apart
<1>2. faults <= faults'
  BY DEF TypeOK
<1> QED
  BY <1>1, <1>2, RowApart

\* Every step keeps one holder to a row, and every request counted.
LEMMA LeasesStep == IInv /\ [Next]_vars => Leases'
<1> SUFFICES ASSUME IInv, [Next]_vars, overruns' = 0 PROVE \A d \in Deliveries : RowOk(d)'
  BY DEF Leases
<1>1. TypeOK /\ Shape /\ TypeOK' /\ Shape'
  BY TypeStep, ShapeStep DEF IInv
<1>2. overruns = 0
  <2>1. CASE \E d \in Deliveries : NextRetryComes(d)
    BY <1>1, <2>1 DEF NextRetryComes, TypeOK
  <2>2. CASE \E d \in Deliveries : Dispatch(d) \/ SendTest(d) \/ InsertDelivery(d) \/ WindowCloses(d)
    BY <2>2 DEF Dispatch, SendTest, InsertDelivery, WindowCloses
  <2>3. CASE \E s \in {"active", "disabled"} : PatchEndpoint(s)
    BY <2>3 DEF PatchEndpoint
  <2>4. CASE UNCHANGED vars
    BY <2>4 DEF vars
  <2>5. Sweeps \subseteq Actors
    BY DEF Actors
  <2> QED
    BY <1>1, <2>1, <2>2, <2>3, <2>4, <2>5, AttemptShape, SweepShape, FaultShape DEF Next
<1>3. \A d \in Deliveries : RowOk(d)
  BY <1>2 DEF IInv, Leases
<1>4. CASE \E d \in Deliveries : WindowCloses(d)
  <2>1. UNCHANGED <<run, batch, posts, faults>> /\ \A d \in Deliveries : SameRow(d)
    BY <1>1, <1>4 DEF WindowCloses, SameRow, TypeOK, DeliveryRows
  <2> QED
    BY <1>1, <1>3, <2>1, StillLeases
<1>5. CASE \E s \in {"active", "disabled"} : PatchEndpoint(s)
  BY <1>1, <1>3, <1>5, StillLeases DEF PatchEndpoint, SameRow
<1>6. CASE UNCHANGED vars
  BY <1>1, <1>3, <1>6, StillLeases DEF vars, SameRow
<1>7. CASE \E x \in Actors : Attempt(x)
  BY <1>1, <1>3, <1>7, AttemptLeases
<1>8. CASE \E x \in Actors : Crash(x) \/ CaughtFailure(x) \/ (x \in Sweeps /\ RowFails(x))
  BY <1>1, <1>3, <1>8, FaultLeases
<1>9. CASE \E w \in Sweeps : Sweep(w)
  BY <1>1, <1>3, <1>9, SweepLeases
<1>10. CASE \E d \in Deliveries : Dispatch(d) \/ SendTest(d) \/ InsertDelivery(d)
  BY <1>1, <1>3, <1>10, DeliveryLeases
<1>11. CASE \E d \in Deliveries : NextRetryComes(d)
  BY <1>1, <1>2, <1>3, <1>11, ClockLeases
<1>12. Sweeps \subseteq Actors
  BY DEF Actors
<1> QED
  BY <1>4, <1>5, <1>6, <1>7, <1>8, <1>9, <1>10, <1>11, <1>12 DEF Next

-----------------------------------------------------------------------------
(***************************************************************************)
(* The invariant, and what follows from it.                                *)
(***************************************************************************)

\* The initial states.
LEMMA InitIInv == Init => IInv
<1> SUFFICES ASSUME Init PROVE IInv
  OBVIOUS
<1>1. /\ run \in [Actors -> RunRecords]
      /\ \A x \in Actors : run[x].at = "idle" /\ run[x].row = NoRow
      /\ \A w \in Sweeps : batch[w] = {}
  BY DEF Init, Free, RunRecords, AttemptStages
<1>2. /\ delivery \in [Deliveries -> DeliveryRows]
      /\ \A d \in Deliveries : delivery[d].status = "none" /\ delivery[d].next = "null" /\ delivery[d].attempts = 0
  BY DEF Init, DeliveryRows
<1>3. TypeOK
  BY <1>1, <1>2, CountsAssumption DEF Init, TypeOK
<1>4. Shape
  BY <1>1, ActorsAssumption DEF Shape, Placed, AttemptStages
<1>5. ASSUME NEW d \in Deliveries PROVE RowOk(d)
  <2>1. d # NoRow /\ d \in Actors /\ posts[d] = 0 /\ faults = 0 /\ MaxAttempts \in Nat \ {0}
    BY ActorsAssumption, CountsAssumption DEF Actors, Init
  <2>2. \A x \in Actors : ~Holds(x, d)
    BY <1>1, <2>1 DEF Holds
  <2>3. OneHolder(d) /\ (\A x \in Actors : Known(x, d))
    BY <1>1, <2>1, <2>2 DEF OneHolder, Known
  <2>4. Leased(d)
    BY <1>2, <2>1, <2>2 DEF Leased, Actors
  <2>5. Paid(d)
    BY <1>2, <2>1 DEF Paid
  <2> QED
    BY <2>3, <2>4, <2>5 DEF RowOk
<1> QED
  BY <1>3, <1>4, <1>5 DEF IInv, Leases

\* The invariant is inductive.
LEMMA NextIInv == IInv /\ [Next]_vars => IInv'
BY TypeStep, ShapeStep, LeasesStep DEF IInv

\* The inductive invariant holds in every state of every behaviour.
THEOREM DeliveryInvariant == Spec => []IInv
<1>1. Init => IInv
  BY InitIInv
<1>2. IInv /\ [Next]_vars => IInv'
  BY NextIInv
<1> QED
  BY <1>1, <1>2, PTL DEF Spec

\* The delivery log, the attempts, the batches and the counters keep their
\* types whatever the interleaving, the crashes and the clock.
THEOREM DeliveryTypeCorrect == Spec => []TypeOK
<1>1. IInv => TypeOK
  BY DEF IInv
<1> QED
  BY <1>1, DeliveryInvariant, PTL

\* While leases hold, the dispatcher and the sweeps never attempt one delivery
\* at the same time.
THEOREM DeliveryOneAttempt == Spec => []OneAttemptAtATime
<1>1. IInv => OneAttemptAtATime
  BY DEF IInv, Leases, RowOk, OneHolder, Holds, OneAttemptAtATime, Attempting
<1> QED
  BY <1>1, DeliveryInvariant, PTL

\* While leases hold, a consumer receives a delivery MAX_ATTEMPTS times and once
\* more for every crash or failed statement, however attempts and sweeps mix.
THEOREM DeliveryPostsBounded == Spec => []PostsAreBounded
<1>1. IInv => PostsAreBounded
  BY DEF IInv, Leases, RowOk, Paid, PostsAreBounded
<1> QED
  BY <1>1, DeliveryInvariant, PTL

\* What a step does to a row whose status is final.
LEMMA FinalStep ==
    ASSUME IInv, [Next]_vars, overruns = 0, NEW d \in Deliveries, delivery[d].status \in Final,
           \A x \in Actors : Attempting(x, d) => ~run[x].answered
    PROVE  delivery'[d].status = delivery[d].status
<1>1. /\ TypeOK /\ Shape /\ RowOk(d) /\ delivery \in [Deliveries -> DeliveryRows]
      /\ delivery[d].status \in {"delivered", "failed"} /\ MaxAttempts \in Nat
  BY CountsAssumption DEF IInv, Leases, TypeOK, Final
<1>2. CASE \E x \in Actors : RecordDelivered(x)
  <2>1. PICK x \in Actors : RecordDelivered(x)
    BY <1>2
  <2>2. run[x].row # d
    BY <1>1, <2>1 DEF RecordDelivered, Shape, Placed, Attempting, AttemptStages
  <2> QED
    BY <1>1, <2>1, <2>2 DEF RecordDelivered
<1>3. CASE \E x \in Actors : Reschedule(x)
  <2>1. PICK x \in Actors : Reschedule(x)
    BY <1>3
  <2>2. ASSUME run[x].row = d PROVE FALSE
    <3>1. ~run[x].answered /\ Known(x, d)
      BY <1>1, <2>1, <2>2 DEF Reschedule, Attempting, AttemptStages, RowOk
    <3>2. Exhausted(d) /\ run[x].count = delivery[d].attempts
      BY <1>1, <2>1, <2>2, <3>1 DEF Known, Waiting, Reschedule
    <3> QED
      BY <1>1, <2>1, <3>2 DEF Reschedule, Exhausted, DeliveryRows
  <2> QED
    BY <1>1, <2>1, <2>2 DEF Reschedule
<1>4. CASE \E x \in Actors : GiveUp(x)
  <2>1. PICK x \in Actors : GiveUp(x)
    BY <1>4
  <2>2. CASE run[x].row = d
    <3>1. ~run[x].answered /\ Known(x, d)
      BY <1>1, <2>1, <2>2 DEF GiveUp, Attempting, AttemptStages, RowOk
    <3>2. delivery[d].status = "failed"
      BY <1>1, <2>1, <2>2, <3>1 DEF Known, Waiting, GiveUp, Exhausted
    <3> QED
      BY <1>1, <2>1, <2>2, <3>2 DEF GiveUp, DeliveryRows
  <2>3. CASE run[x].row # d
    BY <1>1, <2>1, <2>3 DEF GiveUp
  <2> QED
    BY <2>2, <2>3
<1>5. CASE \E x \in Actors : CountAttempt(x)
  BY <1>1, <1>5 DEF CountAttempt, DeliveryRows
<1>6. CASE \E w \in Sweeps : RejectRow(w)
  <2>1. PICK w \in Sweeps : RejectRow(w)
    BY <1>6
  <2>2. run[w].row # d
    BY <1>1, <2>1 DEF RejectRow, RowOk, Known, Waiting, Actors
  <2> QED
    BY <1>1, <2>1, <2>2 DEF RejectRow
<1>7. CASE \E w \in Sweeps : ExpireStale(w) \/ Claim(w)
  BY <1>1, <1>7 DEF ExpireStale, Claim, DueRows, DeliveryRows
<1>8. CASE \E e \in Deliveries : InsertDelivery(e)
  <2>1. PICK e \in Deliveries : InsertDelivery(e)
    BY <1>8
  <2>2. e # d
    BY <1>1, <2>1 DEF InsertDelivery, RowOk, Leased
  <2> QED
    BY <1>1, <2>1, <2>2 DEF InsertDelivery
<1>9. CASE \E e \in Deliveries : NextRetryComes(e) \/ WindowCloses(e)
  BY <1>1, <1>9 DEF NextRetryComes, WindowCloses, DeliveryRows
<1>10. CASE UNCHANGED delivery
  BY <1>10
<1> QED
  BY <1>2, <1>3, <1>4, <1>5, <1>6, <1>7, <1>8, <1>9, <1>10
     DEF Next, Attempt, Sweep, vars, Post, NoAnswer, ResetFailures, ChargeEndpoint, TakeRow, EndSweep, Dispatch, SendTest,
         Crash, CaughtFailure, RowFails, PatchEndpoint

\* While leases hold, a delivered or failed row changes only by an attempt that
\* the consumer answered with a 2xx and whose bookkeeping then threw.
THEOREM DeliveryFinalStays == Spec => FinalStatusStays
<1> DEFINE A == overruns = 0 => \A d \in Deliveries :
                    delivery[d].status \in Final =>
                        \/ delivery'[d].status = delivery[d].status
                        \/ \E x \in Actors : Attempting(x, d) /\ run[x].answered
<1>1. IInv /\ [Next]_vars => [A]_vars
  BY FinalStep
<1> HIDE DEF A
<1>2. Spec => [][A]_vars
  BY <1>1, DeliveryInvariant, PTL DEF Spec
<1> QED
  BY <1>2 DEF FinalStatusStays, A

=============================================================================
