--------------------------- MODULE WebhookDelivery ---------------------------
(***************************************************************************)
(* One customer endpoint and the deliveries to it.  The dispatcher makes   *)
(* the first attempt of a delivery, off the request's path; the sweeps of  *)
(* the retry worker make the others.  Every statement commits by itself,   *)
(* so every statement is a step, and a process may die between any two.    *)
(*                                                                         *)
(* A sweep claims a row by moving its next_retry_at into the future.  The  *)
(* rows of a batch are attempted one after the other, so whether a lease   *)
(* outlives the batch depends on the consumers' answers: an overrun is a   *)
(* lease that runs out under a sweep that still holds the row.             *)
(***************************************************************************)
EXTENDS Naturals, FiniteSets

CONSTANTS
    Deliveries,     \* ids of webhook_deliveries rows
    Sweeps,         \* ticks of the retry worker that may run at the same time
    MaxAttempts,    \* 3 in the code
    FailureLimit,   \* deliveries lost in a row that disable the endpoint: 10 in the code
    BatchSize,      \* 50 in the code
    NoRow,          \* the row of an actor that has none
    MaxFaults,      \* bound on crashes and failed statements
    MaxOverruns     \* bound on leases that run out before their batch ends

ASSUME CountsAssumption ==
    {MaxAttempts, FailureLimit, BatchSize} \subseteq Nat \ {0} /\ {MaxFaults, MaxOverruns} \subseteq Nat
ASSUME ActorsAssumption == Deliveries \cap Sweeps = {} /\ NoRow \notin Deliveries

VARIABLES
    endpoint,   \* the row of webhook_endpoints
    delivery,   \* the rows of webhook_deliveries
    run,        \* each actor: a delivery's first attempt, or a sweep
    batch,      \* the rows each sweep has claimed and not yet attempted
    posts,      \* how often each delivery was sent to the consumer
    faults,     \* crashes and failed statements so far
    overruns    \* leases that ran out under a sweep so far

vars == <<endpoint, delivery, run, batch, posts, faults, overruns>>

Actors == Deliveries \cup Sweeps
Final  == {"delivered", "failed"}

\* next:  next_retry_at is NULL, still to come, or past.
\* stale: created_at lies before the redelivery window.
DeliveryRows ==
    [status : {"none", "pending", "retrying"} \cup Final, attempts : Nat,
     next : {"null", "later", "due"}, stale : BOOLEAN]

AttemptStages == {"sending", "accepted", "recorded", "refused", "counted", "exhausted"}

\* row: the delivery at hand.  count: what RETURNING attempt_count gave.
\* answered: the consumer has answered 2xx.  guarded: the attempt is still in
\* its try block.
RunRecords ==
    [at : {"idle", "chosen", "expired", "looping", "rejecting", "done", "lost"} \cup AttemptStages,
     row : Deliveries \cup {NoRow}, count : Nat, answered : BOOLEAN, guarded : BOOLEAN]

TypeOK ==
    /\ endpoint \in [status : {"active", "disabled", "failed"}, failures : Nat]
    /\ delivery \in [Deliveries -> DeliveryRows]
    /\ run \in [Actors -> RunRecords]
    /\ batch \in [Sweeps -> SUBSET Deliveries]
    /\ posts \in [Deliveries -> Nat]
    /\ faults \in 0..MaxFaults
    /\ overruns \in 0..MaxOverruns

Free(stage) == [at |-> stage, row |-> NoRow, count |-> 0, answered |-> FALSE, guarded |-> FALSE]

-----------------------------------------------------------------------------
Init ==
    /\ endpoint = [status |-> "active", failures |-> 0]
    /\ delivery = [d \in Deliveries |-> [status |-> "none", attempts |-> 0, next |-> "null", stale |-> FALSE]]
    /\ run = [x \in Actors |-> Free("idle")]
    /\ batch = [w \in Sweeps |-> {}]
    /\ posts = [d \in Deliveries |-> 0]
    /\ faults = 0
    /\ overruns = 0

Goto(x, stage) == run' = [run EXCEPT ![x].at = stage]

\* An attempt, or a sweep, is over.
Leave(x, stage) == run' = [run EXCEPT ![x] = Free(stage)]
EndAttempt(x)   == Leave(x, IF x \in Sweeps THEN "looping" ELSE "done")

Attempting(x, d) == run[x].row = d /\ run[x].at \in AttemptStages

Held(w, d) == d \in batch[w] \/ Attempting(w, d) \/ (run[w].row = d /\ run[w].at = "rejecting")

-----------------------------------------------------------------------------
\* dispatchWebhookEvent and deliverWebhook.

\* The active endpoints are read ...
Dispatch(d) ==
    /\ run[d].at = "idle" /\ endpoint.status = "active"
    /\ Goto(d, "chosen")
    /\ UNCHANGED <<endpoint, delivery, batch, posts, faults, overruns>>

\* POST /api/webhooks/:id/test, whatever the endpoint's status.
SendTest(d) ==
    /\ run[d].at = "idle"
    /\ Goto(d, "chosen")
    /\ UNCHANGED <<endpoint, delivery, batch, posts, faults, overruns>>

\* ... and the row is written before anything is sent.
InsertDelivery(d) ==
    /\ run[d].at = "chosen"
    /\ delivery' = [delivery EXCEPT ![d].status = "pending"]
    /\ run' = [run EXCEPT ![d].at = "sending", ![d].row = d]
    /\ UNCHANGED <<endpoint, batch, posts, faults, overruns>>

-----------------------------------------------------------------------------
\* attemptWebhookDelivery: one attempt, the dispatcher's or a sweep's.

\* The consumer answers, 2xx or not.
Post(x) ==
    /\ run[x].at = "sending"
    /\ posts' = [posts EXCEPT ![run[x].row] = @ + 1]
    /\ \E ok \in BOOLEAN :
          run' = [run EXCEPT ![x].at = IF ok THEN "accepted" ELSE "refused", ![x].answered = ok, ![x].guarded = TRUE]
    /\ UNCHANGED <<endpoint, delivery, batch, faults, overruns>>

\* No answer comes in time, though the event may have arrived; or the URL fails
\* its safety check, or the connection cannot be made.
NoAnswer(x) ==
    /\ run[x].at = "sending"
    /\ \E sent \in {0, 1} : posts' = [posts EXCEPT ![run[x].row] = @ + sent]
    /\ Goto(x, "refused")
    /\ UNCHANGED <<endpoint, delivery, batch, faults, overruns>>

RecordDelivered(x) ==
    /\ run[x].at = "accepted"
    /\ delivery' = [delivery EXCEPT ![run[x].row].status = "delivered", ![run[x].row].attempts = @ + 1]
    /\ Goto(x, "recorded")
    /\ UNCHANGED <<endpoint, batch, posts, faults, overruns>>

ResetFailures(x) ==
    /\ run[x].at = "recorded"
    /\ endpoint' = [endpoint EXCEPT !.failures = 0]
    /\ EndAttempt(x)
    /\ UNCHANGED <<delivery, batch, posts, faults, overruns>>

\* scheduleRetry, in two or three statements.
CountAttempt(x) ==
    /\ run[x].at = "refused"
    /\ delivery' = [delivery EXCEPT ![run[x].row].attempts = @ + 1]
    /\ run' = [run EXCEPT ![x].at = "counted", ![x].count = delivery[run[x].row].attempts + 1]
    /\ UNCHANGED <<endpoint, batch, posts, faults, overruns>>

\* Variant: one attempt too many.
RescheduleOnceMore(x) ==
    /\ run[x].at = "counted" /\ run[x].count <= MaxAttempts
    /\ delivery' = [delivery EXCEPT ![run[x].row].status = "retrying", ![run[x].row].next = "later"]
    /\ EndAttempt(x)
    /\ UNCHANGED <<endpoint, batch, posts, faults, overruns>>

\* Variant: the row is marked and never given a time.
RescheduleWithoutTime(x) ==
    /\ run[x].at = "counted" /\ run[x].count < MaxAttempts
    /\ delivery' = [delivery EXCEPT ![run[x].row].status = "retrying"]
    /\ EndAttempt(x)
    /\ UNCHANGED <<endpoint, batch, posts, faults, overruns>>

Reschedule(x) ==
    /\ run[x].at = "counted" /\ run[x].count < MaxAttempts
    /\ delivery' = [delivery EXCEPT ![run[x].row].status = "retrying", ![run[x].row].next = "later"]
    /\ EndAttempt(x)
    /\ UNCHANGED <<endpoint, batch, posts, faults, overruns>>

GiveUp(x) ==
    /\ run[x].at = "counted" /\ run[x].count >= MaxAttempts
    /\ delivery' = [delivery EXCEPT ![run[x].row].status = "failed"]
    /\ Goto(x, "exhausted")
    /\ UNCHANGED <<endpoint, batch, posts, faults, overruns>>

ChargeEndpoint(x) ==
    /\ run[x].at = "exhausted"
    /\ endpoint' = [failures |-> endpoint.failures + 1,
                    status |-> IF endpoint.failures >= FailureLimit - 1 THEN "failed" ELSE endpoint.status]
    /\ EndAttempt(x)
    /\ UNCHANGED <<delivery, batch, posts, faults, overruns>>

Attempt(x) ==
    \/ Post(x) \/ NoAnswer(x) \/ RecordDelivered(x) \/ ResetFailures(x)
    \/ CountAttempt(x) \/ Reschedule(x) \/ GiveUp(x) \/ ChargeEndpoint(x)

-----------------------------------------------------------------------------
\* runWebhookRetrySweep.

DueRows == {d \in Deliveries : delivery[d].status = "retrying" /\ delivery[d].next = "due"}

ExpireStale(w) ==
    /\ run[w].at = "idle"
    /\ delivery' = [d \in Deliveries |->
                       IF d \in DueRows /\ delivery[d].stale THEN [delivery[d] EXCEPT !.status = "failed"]
                       ELSE delivery[d]]
    /\ Goto(w, "expired")
    /\ UNCHANGED <<endpoint, batch, posts, faults, overruns>>

Batches == {b \in SUBSET DueRows : Cardinality(b) <= BatchSize /\ (b = DueRows \/ Cardinality(b) = BatchSize)}

\* Variant: the rows are read and no lease is taken.
ClaimWithoutLease(w) ==
    /\ run[w].at = "expired"
    /\ \E b \in Batches : batch' = [batch EXCEPT ![w] = b]
    /\ Goto(w, "looping")
    /\ UNCHANGED <<endpoint, delivery, posts, faults, overruns>>

Claim(w) ==
    /\ run[w].at = "expired"
    /\ \E b \in Batches :
          /\ batch' = [batch EXCEPT ![w] = b]
          /\ delivery' = [d \in Deliveries |-> IF d \in b THEN [delivery[d] EXCEPT !.next = "later"] ELSE delivery[d]]
    /\ Goto(w, "looping")
    /\ UNCHANGED <<endpoint, posts, faults, overruns>>

\* The endpoint is read again for every row.
TakeRow(w) ==
    /\ run[w].at = "looping"
    /\ \E d \in batch[w] :
          /\ batch' = [batch EXCEPT ![w] = @ \ {d}]
          /\ run' = [run EXCEPT ![w].at = IF endpoint.status = "active" THEN "sending" ELSE "rejecting", ![w].row = d]
    /\ UNCHANGED <<endpoint, delivery, posts, faults, overruns>>

RejectRow(w) ==
    /\ run[w].at = "rejecting"
    /\ delivery' = [delivery EXCEPT ![run[w].row].status = "failed"]
    /\ EndAttempt(w)
    /\ UNCHANGED <<endpoint, batch, posts, faults, overruns>>

EndSweep(w) ==
    /\ run[w].at = "looping" /\ batch[w] = {}
    /\ Goto(w, "idle")
    /\ UNCHANGED <<endpoint, delivery, batch, posts, faults, overruns>>

Sweep(w) == ExpireStale(w) \/ Claim(w) \/ TakeRow(w) \/ RejectRow(w) \/ EndSweep(w)

-----------------------------------------------------------------------------
\* Time, the customer and what goes wrong.

NextRetryComes(d) ==
    /\ delivery[d].next = "later"
    /\ IF \E w \in Sweeps : Held(w, d)
       THEN overruns < MaxOverruns /\ overruns' = overruns + 1
       ELSE UNCHANGED overruns
    /\ delivery' = [delivery EXCEPT ![d].next = "due"]
    /\ UNCHANGED <<endpoint, run, batch, posts, faults>>

WindowCloses(d) ==
    /\ delivery[d].status # "none" /\ ~delivery[d].stale
    /\ delivery' = [delivery EXCEPT ![d].stale = TRUE]
    /\ UNCHANGED <<endpoint, run, batch, posts, faults, overruns>>

\* PATCH /api/webhooks/:id.
PatchEndpoint(status) ==
    /\ endpoint' = [endpoint EXCEPT !.status = status]
    /\ UNCHANGED <<delivery, run, batch, posts, faults, overruns>>

\* The process dies; an attempt whose bookkeeping throws ends the same way for
\* a first attempt.
Crash(x) ==
    /\ faults < MaxFaults /\ run[x].at \notin {"idle", "done", "lost"}
    /\ Leave(x, IF x \in Sweeps THEN "idle" ELSE "lost")
    /\ batch' = [w \in Sweeps |-> IF w = x THEN {} ELSE batch[w]]
    /\ faults' = faults + 1
    /\ UNCHANGED <<endpoint, delivery, posts, overruns>>

\* A statement inside the try block throws, after a 2xx or not: it is taken for
\* a failed request, and scheduleRetry runs, again if it was what threw.
CaughtFailure(x) ==
    /\ faults < MaxFaults /\ run[x].guarded /\ run[x].at \in AttemptStages
    /\ run' = [run EXCEPT ![x].at = "refused", ![x].guarded = FALSE]
    /\ faults' = faults + 1
    /\ UNCHANGED <<endpoint, delivery, batch, posts, overruns>>

\* A statement of a sweep throws outside of it: the batch goes on.
RowFails(w) ==
    /\ faults < MaxFaults /\ ~run[w].guarded /\ run[w].at \in AttemptStages \cup {"rejecting"}
    /\ EndAttempt(w)
    /\ faults' = faults + 1
    /\ UNCHANGED <<endpoint, delivery, batch, posts, overruns>>

Next ==
    \/ \E d \in Deliveries : Dispatch(d) \/ SendTest(d) \/ InsertDelivery(d) \/ NextRetryComes(d) \/ WindowCloses(d)
    \/ \E x \in Actors : Attempt(x) \/ Crash(x) \/ CaughtFailure(x)
    \/ \E w \in Sweeps : Sweep(w) \/ RowFails(w)
    \/ \E s \in {"active", "disabled"} : PatchEndpoint(s)

\* A live process goes on with what it does, the worker ticks and the clock runs.
Fairness ==
    /\ \A x \in Actors : WF_vars(Attempt(x))
    /\ \A d \in Deliveries : WF_vars(InsertDelivery(d)) /\ WF_vars(NextRetryComes(d))
    /\ \A w \in Sweeps : WF_vars(Sweep(w))

Spec == Init /\ [][Next]_vars /\ Fairness

-----------------------------------------------------------------------------
(***************************************************************************)
(* Properties.                                                             *)
(***************************************************************************)

\* A delivery is attempted by one actor at a time: the dispatcher until it
\* schedules a retry, then whichever sweep holds the lease, while leases hold.
OneAttemptAtATime ==
    overruns = 0 => \A d \in Deliveries, x, y \in Actors : Attempting(x, d) /\ Attempting(y, d) => x = y

\* What the delivery log says last is true for good: only an attempt that the
\* consumer accepted, and whose bookkeeping then threw, takes a delivered or
\* failed row back.
FinalStatusStays ==
    [][overruns = 0 => \A d \in Deliveries :
          delivery[d].status \in Final =>
              \/ delivery'[d].status = delivery[d].status
              \/ \E x \in Actors : Attempting(x, d) /\ run[x].answered]_vars

\* The three attempts bound what the consumer receives; every further request
\* is paid for by a crash or a statement that failed.
PostsAreBounded ==
    overruns = 0 => \A d \in Deliveries : posts[d] <= MaxAttempts + faults

\* Every delivery is settled, but for one whose process died before its first
\* attempt was recorded: no sweep looks at a pending row.
EveryDeliverySettles ==
    \A d \in Deliveries :
        delivery[d].status \in {"pending", "retrying"} ~>
            \/ delivery[d].status \in Final
            \/ delivery[d].status = "pending" /\ run[d].at = "lost"

=============================================================================
