------------------------------ MODULE StripeBilling ------------------------------
(***************************************************************************)
(* The billing of one organization: the handlers of the payment provider's *)
(* events, which come in any order, more than once and two at a time; the  *)
(* dunning cycles they open and close; and the hourly sweep that sends the *)
(* notices and withdraws access when a grace period is over.               *)
(*                                                                         *)
(* A handler claims its event, reads what it needs, and writes the         *)
(* organization in one statement that compares the event with the newest   *)
(* one written before.  Every statement is a transaction of its own.       *)
(***************************************************************************)
EXTENDS Naturals, Sequences

CONSTANTS
    Subs,       \* subscriptions of the customer
    NoSub,      \* the NULL of stripe_subscription_id
    Existing,   \* those that are older than the watermark: at most one is the organization's
    TierOf,     \* the tier of each one's price, "unknown" when it is not mapped
    Handlers,   \* requests that can be in progress together
    Sweeps,     \* sweeps that can be in progress together: one for each instance
    Grace,      \* SECURELOGIC_BILLING_GRACE_ENABLED
    GraceDays,  \* SECURELOGIC_BILLING_GRACE_DAYS, in units of the clock
    DaySeven,   \* the age at which the second notice is due
    LastTime,   \* bound on the clock: nothing is sent whose grace ends after it
    MaxEvents,  \* bound on the provider's events
    MaxFaults   \* bound on crashes and database errors

ASSUME SubsAssumption  == NoSub \notin Subs /\ Existing \subseteq Subs
ASSUME TierAssumption  == TierOf \in [Subs -> {"professional", "platform", "unknown"}]
ASSUME GraceAssumption == Grace \in BOOLEAN
ASSUME DaysAssumption  == GraceDays \in Nat \ {0} /\ DaySeven \in Nat
ASSUME BoundAssumption == LastTime \in Nat /\ MaxEvents \in Nat /\ MaxFaults \in Nat

VARIABLES
    org,            \* the billing columns of the organizations row
    processed,      \* webhook_events_processed
    cycles,         \* billing_dunning_cycles, by cycle_started_at
    handler,        \* the requests' local state
    sweep,          \* the sweeps' local state
    mails,          \* the notices sent: how often, for each cycle and stage
    subscriptions,  \* the provider's state of each subscription
    events,         \* its events; the id of one is its place
    acked,          \* those it has been answered 2xx for
    now,            \* the clock, in seconds or days: only its order and the grace matter
    applied,        \* how often each event has written the organization
    lost,           \* events whose handling stopped half-way and will not be repeated
    faults          \* the faults so far

stripeVars == <<subscriptions, events, now>>
ghosts     == <<applied, lost, faults>>
vars == <<org, processed, cycles, handler, sweep, mails, subscriptions, events, acked, now, applied, lost, faults>>

Times    == 1 .. (LastTime + 1)
Ids      == 1 .. MaxEvents
Tiers    == {"professional", "platform"}
Stages   == {0, 7, 14}
Ended    == {"unpaid", "canceled"}
Statuses == {"none", "trialing", "active", "past_due"} \cup Ended

\* failedAt: payment_failed_at.  eventAt, eventId: the watermark.  0 is NULL.
OrgRows ==
    [level : {"starter", "professional", "premium"}, failedAt : 0 .. (LastTime + 1), sub : Subs \cup {NoSub},
     status : Statuses, tier : Tiers \cup {"unknown"}, trial : BOOLEAN,
     eventAt : 0 .. (LastTime + 1), eventId : 0 .. MaxEvents]

CycleRows == [sub : Subs \cup {NoSub}, opened : BOOLEAN, recovered : BOOLEAN, lapsed : BOOLEAN, notified : SUBSET Stages]

EventRecords ==
    [kind : {"checkout", "created", "updated", "deleted", "failed", "paid"}, sub : Subs, status : Statuses, at : Times]

HandlerRecords ==
    [at : {"idle", "read", "sync", "follow", "stamp", "open", "notify", "send"}, id : 0 .. MaxEvents,
     tier : Tiers \cup {"unknown"}, cycle : 0 .. (LastTime + 1)]

\* rows: the cycles still to do.  seen, org, now: what the sweep's SELECT returned, and when.
SweepRecords ==
    [at : {"idle", "rows", "send", "lapse"}, rows : SUBSET Times, seen : [Times -> CycleRows],
     org : OrgRows, now : Times, cycle : 0 .. (LastTime + 1), stage : Stages]

TypeOK ==
    /\ org \in OrgRows
    /\ processed \subseteq Ids
    /\ cycles \in [Times -> CycleRows]
    /\ handler \in [Handlers -> HandlerRecords]
    /\ sweep \in [Sweeps -> SweepRecords]
    /\ mails \in [Times -> [Stages -> Nat]]
    /\ subscriptions \in [Subs -> Statuses]
    /\ events \in Seq(EventRecords) /\ Len(events) <= MaxEvents
    /\ acked \subseteq Ids
    /\ now \in Times
    /\ applied \in [Ids -> Nat]
    /\ lost \subseteq Ids
    /\ faults \in 0 .. MaxFaults

\* tierToDbLevel
Level(tier) == IF tier = "platform" THEN "premium" ELSE "professional"

NewOrg   == [level |-> "starter", failedAt |-> 0, sub |-> NoSub, status |-> "none", tier |-> "unknown",
             trial |-> FALSE, eventAt |-> 0, eventId |-> 0]
NoCycle  == [sub |-> NoSub, opened |-> FALSE, recovered |-> FALSE, lapsed |-> FALSE, notified |-> {}]
Free     == [at |-> "idle", id |-> 0, tier |-> "unknown", cycle |-> 0]
NoSweep  == [at |-> "idle", rows |-> {}, seen |-> [c \in Times |-> NoCycle], org |-> NewOrg, now |-> 1,
             cycle |-> 0, stage |-> 0]

\* An organization without a subscription, or with one from before the
\* watermark was introduced.
OldOrg(s) == [NewOrg EXCEPT !.level = Level(TierOf[s]), !.sub = s, !.status = "active", !.tier = TierOf[s]]

Init ==
    /\ org \in (IF Existing = {} THEN {NewOrg} ELSE {OldOrg(s) : s \in Existing})
    /\ processed = {}
    /\ cycles = [c \in Times |-> NoCycle]
    /\ handler = [h \in Handlers |-> Free]
    /\ sweep = [w \in Sweeps |-> NoSweep]
    /\ mails = [c \in Times |-> [s \in Stages |-> 0]]
    /\ subscriptions = [s \in Subs |-> IF s = org.sub THEN "active" ELSE "none"]
    /\ events = <<>>
    /\ acked = {}
    /\ now = 1
    /\ applied = [i \in Ids |-> 0]
    /\ lost = {}
    /\ faults = 0

-----------------------------------------------------------------------------
\* The provider.  Each of its acts takes it to the next instant; what one act
\* sends carries one time.

Event(kind, s, status) == [kind |-> kind, sub |-> s, status |-> status, at |-> now]

Send(s, status, sent) ==
    /\ Len(events) + Len(sent) <= MaxEvents
    /\ now + (IF Grace THEN GraceDays ELSE 0) <= LastTime
    /\ events' = events \o sent
    /\ subscriptions' = [subscriptions EXCEPT ![s] = status]
    /\ now' = now + 1
    /\ UNCHANGED <<org, processed, cycles, handler, sweep, mails, acked, ghosts>>

\* A checkout offers a trial, of the platform only, once to an organization.
Subscribe(s, status) ==
    /\ subscriptions[s] = "none"
    /\ status = "trialing" => TierOf[s] = "platform" /\ ~org.trial
    /\ Send(s, status, <<Event("created", s, status), Event("checkout", s, "none")>>)

PaymentFails(s) ==
    /\ subscriptions[s] \in {"trialing", "active", "past_due"}
    /\ Send(s, "past_due", IF subscriptions[s] = "past_due" THEN <<Event("failed", s, "none")>>
                           ELSE <<Event("failed", s, "none"), Event("updated", s, "past_due")>>)

PaymentSucceeds(s) ==
    /\ subscriptions[s] \in {"trialing", "past_due", "unpaid"}
    /\ Send(s, "active", <<Event("paid", s, "none"), Event("updated", s, "active")>>)

RetriesEnd(s) ==
    /\ subscriptions[s] = "past_due"
    /\ Send(s, "unpaid", <<Event("updated", s, "unpaid")>>)

Cancel(s) ==
    /\ subscriptions[s] \notin {"none", "canceled"}
    /\ Send(s, "canceled", <<Event("deleted", s, "canceled")>>)

\* Only the sweep and the grace period look at the clock.
Tick ==
    /\ Grace /\ now <= LastTime
    /\ now' = now + 1
    /\ UNCHANGED <<org, processed, cycles, handler, sweep, mails, subscriptions, events, acked, ghosts>>

-----------------------------------------------------------------------------
\* What an event means: classifySubscriptionEvent.

Known(s) == TierOf[s] # "unknown"

Grants(e) ==
    /\ e.kind \in {"checkout", "created"} \/ (e.kind = "updated" /\ e.status \in {"active", "trialing"})
    /\ Known(e.sub)

Revokes(e) ==
    \/ e.kind = "deleted"
    \/ e.kind = "updated" /\ e.status \in (IF Grace THEN Ended ELSE Ended \cup {"past_due"})

\* Mutant: two events of one second are told apart by nothing.
NewerOrEqual(row, i) == row.eventAt <= events[i].at

\* Mutant: the last event to come wins.
Always(row, i) == TRUE

\* orderingPredicate: event i is newer than the one that wrote the row last,
\* or another one of the same second.
Newer(row, i) ==
    \/ row.eventAt < events[i].at
    \/ row.eventAt = events[i].at /\ row.eventId # i

Stamped(row, i) == [row EXCEPT !.eventAt = events[i].at, !.eventId = i]

\* Mutant: a grant does not end the delinquency.
SyncedKeepingFailure(row, i, tier) ==
    LET e == events[i] IN
    [Stamped(row, i) EXCEPT
        !.level    = IF Revokes(e) THEN "starter" ELSE Level(tier),
        !.sub      = IF e.kind = "checkout" THEN @ ELSE e.sub,
        !.tier     = IF Known(e.sub) THEN TierOf[e.sub] ELSE @,
        !.status   = IF e.status = "none" THEN @ ELSE e.status]

\* The row that a grant, a revocation or a paid invoice writes.
Synced(row, i, tier) ==
    LET e == events[i] IN
    [Stamped(row, i) EXCEPT
        !.level    = IF Revokes(e) THEN "starter" ELSE Level(tier),
        !.failedAt = IF Revokes(e) THEN @ ELSE 0,
        !.sub      = IF e.kind = "checkout" THEN @ ELSE e.sub,
        !.tier     = IF Known(e.sub) THEN TierOf[e.sub] ELSE @,
        !.status   = IF e.status = "none" THEN @ ELSE e.status]

-----------------------------------------------------------------------------
\* The handler of an event.  Its statements are transactions of their own.

EventOf(h) == events[handler[h].id]

\* The answer is a 2xx, and the claim stays.
Answer(h) ==
    /\ acked' = acked \cup {handler[h].id}
    /\ handler' = [handler EXCEPT ![h] = Free]

At(h, place) == handler' = [handler EXCEPT ![h].at = place] /\ UNCHANGED acked

\* The claim, and the branch on the event's type.  A delivery that comes while
\* another one is being handled is answered as a replay.
Deliver(h, i) ==
    /\ handler[h].at = "idle" /\ i \in DOMAIN events \ acked
    /\ processed' = processed \cup {i}
    /\ IF i \in processed \/ (events[i].kind \in {"checkout", "created", "updated"} /\ ~Grants(events[i]) /\ ~Revokes(events[i]))
         THEN acked' = acked \cup {i} /\ UNCHANGED handler
         ELSE /\ handler' = [handler EXCEPT ![h] =
                    [Free EXCEPT !.id = i, !.tier = TierOf[events[i].sub],
                                 !.at = CASE events[i].kind = "failed"            -> "stamp"
                                          [] events[i].kind \in {"paid", "deleted"} -> "read"
                                          [] OTHER                                -> "sync"]]
              /\ UNCHANGED acked
    /\ UNCHANGED <<org, cycles, sweep, mails, stripeVars, ghosts>>

\* A cancellation or an invoice of a subscription that is not the organization's
\* any more, an invoice of one that has ended, and one without a tier: ignored.
Ignored(h) ==
    \/ org.sub \notin {NoSub, EventOf(h).sub}
    \/ EventOf(h).kind = "paid" /\ (org.status = "canceled" \/ (~Known(EventOf(h).sub) /\ org.tier = "unknown"))

Read(h) ==
    /\ handler[h].at = "read"
    /\ IF Ignored(h) THEN Answer(h)
       ELSE /\ handler' = [handler EXCEPT ![h].at = "sync", ![h].tier = IF Known(EventOf(h).sub) THEN @ ELSE org.tier]
            /\ UNCHANGED acked
    /\ UNCHANGED <<org, processed, cycles, sweep, mails, stripeVars, ghosts>>

\* syncOrgEntitlement
Sync(h) ==
    /\ handler[h].at = "sync"
    /\ IF Newer(org, handler[h].id)
         THEN /\ org' = Synced(org, handler[h].id, handler[h].tier)
              /\ applied' = [applied EXCEPT ![handler[h].id] = @ + 1]
              /\ At(h, "follow")
         ELSE Answer(h) /\ UNCHANGED <<org, applied>>
    /\ UNCHANGED <<processed, cycles, sweep, mails, stripeVars, lost, faults>>

\* What follows the write: each in its own statements.
Follows(h, kinds) == handler[h].at = "follow" /\ EventOf(h).kind \in kinds

MarkCyclesRecovered(h) ==
    /\ Follows(h, {"paid"})
    /\ cycles' = [c \in Times |-> IF cycles[c].opened /\ cycles[c].sub \in {NoSub, EventOf(h).sub}
                                    THEN [cycles[c] EXCEPT !.recovered = TRUE] ELSE cycles[c]]
    /\ Answer(h)
    /\ UNCHANGED <<org, processed, sweep, mails, stripeVars, ghosts>>

MarkCyclesLapsed(h) ==
    /\ Follows(h, {"deleted", "updated"}) /\ Revokes(EventOf(h))
    /\ cycles' = [c \in Times |-> IF cycles[c].opened /\ ~cycles[c].recovered
                                    THEN [cycles[c] EXCEPT !.lapsed = TRUE] ELSE cycles[c]]
    /\ Answer(h)
    /\ UNCHANGED <<org, processed, sweep, mails, stripeVars, ghosts>>

RecordTrial(h) ==
    /\ Follows(h, {"created", "updated"}) /\ ~Revokes(EventOf(h))
    /\ org' = [org EXCEPT !.trial = @ \/ (EventOf(h).status = "trialing" /\ TierOf[EventOf(h).sub] = "platform")]
    /\ Answer(h)
    /\ UNCHANGED <<processed, cycles, sweep, mails, stripeVars, ghosts>>

\* Whoever moves to the platform keeps no other active subscription.  The
\* provider sends a cancellation for each; a call that fails is passed over.
CancelPriorBriefSubscriptions(h, s) ==
    /\ Follows(h, {"checkout"}) /\ TierOf[EventOf(h).sub] = "platform"
    /\ s # EventOf(h).sub /\ subscriptions[s] = "active"
    /\ Len(events) < MaxEvents
    /\ subscriptions' = [subscriptions EXCEPT ![s] = "canceled"]
    /\ events' = Append(events, Event("deleted", s, "canceled"))
    /\ UNCHANGED <<org, processed, cycles, handler, sweep, mails, acked, now, ghosts>>

CheckoutDone(h) ==
    /\ Follows(h, {"checkout"})
    /\ Answer(h)
    /\ UNCHANGED <<org, processed, cycles, sweep, mails, stripeVars, ghosts>>

\* handlePaymentFailed: the stamp ...
StampFailure(h) ==
    LET row == [Stamped(org, handler[h].id) EXCEPT !.failedAt = IF @ = 0 THEN EventOf(h).at ELSE @] IN
    /\ handler[h].at = "stamp"
    /\ IF org.sub \in {NoSub, EventOf(h).sub} /\ Newer(org, handler[h].id)
         THEN /\ org' = row
              /\ applied' = [applied EXCEPT ![handler[h].id] = @ + 1]
              /\ handler' = [handler EXCEPT ![h].at = "open", ![h].cycle = row.failedAt]
              /\ UNCHANGED acked
         ELSE Answer(h) /\ UNCHANGED <<org, applied>>
    /\ UNCHANGED <<processed, cycles, sweep, mails, stripeVars, lost, faults>>

\* ... the cycle, opened by the first failure of a delinquency ...
OpenDunningCycle(h) ==
    LET c == handler[h].cycle IN
    /\ handler[h].at = "open"
    /\ IF cycles[c].opened THEN Answer(h) /\ UNCHANGED cycles
       ELSE cycles' = [cycles EXCEPT ![c] = [NoCycle EXCEPT !.opened = TRUE, !.sub = EventOf(h).sub]] /\ At(h, "notify")
    /\ UNCHANGED <<org, processed, sweep, mails, stripeVars, ghosts>>

\* claimDunningStage: ... and the notice, claimed before it is sent.
MayClaim(c, stage) == stage \notin cycles[c].notified /\ ~cycles[c].recovered

\* Mutant: the last two stages share a column.
ClaimOneColumn(c, stage) == cycles' = [cycles EXCEPT ![c].notified = @ \cup {IF stage = 14 THEN 7 ELSE stage}]

ClaimStage(c, stage) == cycles' = [cycles EXCEPT ![c].notified = @ \cup {stage}]

ClaimNotice(h) ==
    /\ handler[h].at = "notify"
    /\ IF MayClaim(handler[h].cycle, 0) THEN ClaimStage(handler[h].cycle, 0) /\ At(h, "send")
       ELSE Answer(h) /\ UNCHANGED cycles
    /\ UNCHANGED <<org, processed, sweep, mails, stripeVars, ghosts>>

SendNotice(h) ==
    /\ handler[h].at = "send"
    /\ mails' = [mails EXCEPT ![handler[h].cycle][0] = @ + 1]
    /\ Answer(h)
    /\ UNCHANGED <<org, processed, cycles, sweep, stripeVars, ghosts>>

Fault == faults < MaxFaults /\ faults' = faults + 1

\* Something throws: the claim is released, and the provider sends again,
\* unless it has had the answer to a replay meanwhile.
Fail(h) ==
    /\ Fault
    /\ handler[h].at \in {"read", "sync", "follow"}
    /\ processed' = processed \ {handler[h].id}
    /\ handler' = [handler EXCEPT ![h] = Free]
    /\ lost' = IF handler[h].id \in acked THEN lost \cup {handler[h].id} ELSE lost
    /\ UNCHANGED <<org, cycles, sweep, mails, stripeVars, acked, applied>>

\* A statement fails where the error is caught.  The handler goes on as if an
\* event that grants or revokes had been written.
ErrorSwallowed(h) ==
    /\ Fault
    /\ handler[h].at \in {"sync", "stamp", "open", "notify"}
    /\ IF handler[h].at = "sync" /\ EventOf(h).kind # "paid" THEN At(h, "follow") ELSE Answer(h)
    /\ lost' = lost \cup {handler[h].id}
    /\ UNCHANGED <<org, processed, cycles, sweep, mails, stripeVars, applied>>

\* The process dies, or the claim cannot be released.
Crash(h) ==
    /\ Fault
    /\ handler[h].at # "idle"
    /\ handler' = [handler EXCEPT ![h] = Free]
    /\ lost' = lost \cup {handler[h].id}
    /\ UNCHANGED <<org, processed, cycles, sweep, mails, stripeVars, acked, applied>>

-----------------------------------------------------------------------------
\* The sweep: runDunningSweep.  It works from what its one SELECT returned.

IsOpen(c) == cycles[c].opened /\ ~cycles[c].recovered /\ ~cycles[c].lapsed

SweepSelect(w) ==
    LET rows == {c \in Times : IsOpen(c)} IN
    /\ Grace /\ sweep[w].at = "idle" /\ rows # {}
    /\ sweep' = [sweep EXCEPT ![w] = [NoSweep EXCEPT !.at = "rows", !.rows = rows, !.seen = cycles, !.org = org, !.now = now]]
    /\ UNCHANGED <<org, processed, cycles, handler, mails, acked, stripeVars, ghosts>>

\* graceState, on the columns the sweep has read.
GraceState(row, time) ==
    IF row.failedAt = 0 THEN "healthy"
    ELSE IF row.status \in Ended \/ row.failedAt + GraceDays <= time THEN "lapsed" ELSE "in_grace"

\* The oldest cycle is next.
AtRow(w, c, state) ==
    /\ sweep[w].at = "rows" /\ c \in sweep[w].rows /\ \A d \in sweep[w].rows : c <= d
    /\ GraceState(sweep[w].org, sweep[w].now) = state

RowDone(w, c) ==
    sweep' = [sweep EXCEPT ![w] = IF sweep[w].rows = {c} THEN NoSweep
                                  ELSE [sweep[w] EXCEPT !.at = "rows", !.rows = sweep[w].rows \ {c}, !.cycle = 0, !.stage = 0]]

\* Mutant: a cycle of an organization that has paid is passed over.
SweepSkipsOrphan(w, c) ==
    /\ AtRow(w, c, "healthy")
    /\ RowDone(w, c)
    /\ UNCHANGED <<org, processed, cycles, handler, mails, acked, stripeVars, ghosts>>

\* The organization has paid: the cycle is closed.
SweepOrphan(w, c) ==
    /\ AtRow(w, c, "healthy")
    /\ cycles' = [cycles EXCEPT ![c].recovered = TRUE]
    /\ RowDone(w, c)
    /\ UNCHANGED <<org, processed, handler, mails, acked, stripeVars, ghosts>>

\* The notice due for a cycle, by its age and those sent: 0 for none.
StageDue(w, c) ==
    LET age == sweep[w].now - c  sent == sweep[w].seen[c].notified IN
    IF age >= GraceDays - 1 /\ 14 \notin sent THEN 14
    ELSE IF age >= DaySeven /\ 7 \notin sent THEN 7 ELSE 0

SweepClaim(w, c) ==
    LET stage == StageDue(w, c) IN
    /\ AtRow(w, c, "in_grace")
    /\ IF stage # 0 /\ MayClaim(c, stage)
         THEN /\ ClaimStage(c, stage)
              /\ sweep' = [sweep EXCEPT ![w].at = "send", ![w].cycle = c, ![w].stage = stage]
         ELSE RowDone(w, c) /\ UNCHANGED cycles
    /\ UNCHANGED <<org, processed, handler, mails, acked, stripeVars, ghosts>>

SweepSend(w) ==
    /\ sweep[w].at = "send"
    /\ mails' = [mails EXCEPT ![sweep[w].cycle][sweep[w].stage] = @ + 1]
    /\ RowDone(w, sweep[w].cycle)
    /\ UNCHANGED <<org, processed, cycles, handler, acked, stripeVars, ghosts>>

\* The grace period is over: the level is written, and then the cycle.
SweepWithdraw(w, c) ==
    /\ AtRow(w, c, "lapsed")
    /\ org' = [org EXCEPT !.level = "starter"]
    /\ sweep' = [sweep EXCEPT ![w].at = "lapse", ![w].cycle = c]
    /\ UNCHANGED <<processed, cycles, handler, mails, acked, stripeVars, ghosts>>

MarkCycleLapsed(w) ==
    LET c == sweep[w].cycle IN
    /\ sweep[w].at = "lapse"
    /\ cycles' = IF IsOpen(c) THEN [cycles EXCEPT ![c].lapsed = TRUE] ELSE cycles
    /\ RowDone(w, c)
    /\ UNCHANGED <<org, processed, handler, mails, acked, stripeVars, ghosts>>

\* A cycle's error is caught, and the sweep goes on with the next.
SweepItemFails(w) ==
    /\ Fault
    /\ \E c \in sweep[w].rows : (\A d \in sweep[w].rows : c <= d) /\ RowDone(w, c)
    /\ UNCHANGED <<org, processed, cycles, handler, mails, acked, stripeVars, applied, lost>>

\* The process ends in the middle of a sweep.
SweepDies(w) ==
    /\ Fault
    /\ sweep[w].at # "idle"
    /\ sweep' = [sweep EXCEPT ![w] = NoSweep]
    /\ UNCHANGED <<org, processed, cycles, handler, mails, acked, stripeVars, applied, lost>>

-----------------------------------------------------------------------------
Follow(h) ==
    \/ MarkCyclesRecovered(h) \/ MarkCyclesLapsed(h) \/ RecordTrial(h) \/ CheckoutDone(h)
    \/ \E s \in Subs : CancelPriorBriefSubscriptions(h, s)

HandlerStep(h) ==
    Read(h) \/ Sync(h) \/ Follow(h) \/ StampFailure(h) \/ OpenDunningCycle(h) \/ ClaimNotice(h) \/ SendNotice(h)

SweepStep(w) ==
    \/ SweepSelect(w) \/ SweepSend(w) \/ MarkCycleLapsed(w)
    \/ \E c \in Times : SweepOrphan(w, c) \/ SweepClaim(w, c) \/ SweepWithdraw(w, c)

Stripe ==
    \E s \in Subs :
        \/ \E status \in {"trialing", "active"} : Subscribe(s, status)
        \/ PaymentFails(s) \/ PaymentSucceeds(s) \/ RetriesEnd(s) \/ Cancel(s)

Next ==
    \/ Stripe \/ Tick
    \/ \E h \in Handlers : HandlerStep(h) \/ Fail(h) \/ ErrorSwallowed(h) \/ Crash(h) \/ \E i \in Ids : Deliver(h, i)
    \/ \E w \in Sweeps : SweepStep(w) \/ SweepItemFails(w) \/ SweepDies(w)

\* A request ends, the sweep runs every hour, time passes, and the provider
\* repeats a delivery that was not answered.  It need not send anything.
Fairness ==
    /\ WF_vars(Tick)
    /\ \A h \in Handlers : WF_vars(HandlerStep(h))
    /\ \A i \in Ids : WF_vars(\E h \in Handlers : Deliver(h, i))
    /\ \A w \in Sweeps : WF_vars(SweepStep(w))

Spec == Init /\ [][Next]_vars /\ Fairness

-----------------------------------------------------------------------------
(***************************************************************************)
(* Properties.                                                             *)
(***************************************************************************)

\* The watermark makes the write of an event idempotent "even if the gate is
\* ever bypassed" (stripeWebhook.ts, line 130): whatever is delivered twice,
\* handled half and repeated, an event writes the organization once, but for
\* another event of the same second between.
AppliedOnce ==
    \A i \in DOMAIN events : applied[i] > 1 =>
        \E j \in DOMAIN events : j # i /\ events[j].at = events[i].at

\* When everything sent has been answered and nothing was lost, in whatever
\* order it came and however often it was repeated, a customer with one
\* subscription has the access it pays for, and no delinquency; and one whose
\* subscription has ended has none.
Quiet == \A i \in DOMAIN events : i \in acked /\ \A h \in Handlers : handler[h].at = "idle"
Only(s) == \A r \in Subs \ {s} : subscriptions[r] = "none"

SettledIsTrue ==
    \A s \in Subs : Quiet /\ lost = {} /\ ~Grace /\ Only(s) /\ Known(s) =>
        /\ subscriptions[s] \in {"trialing", "active"} => org.level = Level(TierOf[s]) /\ org.failedAt = 0
        /\ subscriptions[s] \in Ended => org.level = "starter"
        /\ subscriptions[s] = "past_due" => org.failedAt # 0

\* The same for a customer who moves to the platform: "a superseded
\* subscription and must not downgrade" (stripeWebhook.ts, line 729).
Latest(s) == \A i \in DOMAIN events : events[i].kind = "created" /\ events[i].sub # s =>
                \E j \in DOMAIN events : j > i /\ events[j].kind = "created" /\ events[j].sub = s

UpgradeKeepsAccess ==
    \A s \in Subs : Quiet /\ lost = {} /\ Latest(s) /\ TierOf[s] = "platform" /\ subscriptions[s] = "active" =>
        org.level = "premium"

\* The bookkeeping keeps the promise of BillingLedger.
Ledger == INSTANCE BillingLedger WITH level <- org.level, failedAt <- org.failedAt, newest <- org.eventAt
FollowsLedger == Ledger!Spec

\* A notice is sent at most once for a delinquency, though the provider repeats
\* the failure, two sweeps overlap and either dies (billingDunningCycle.ts,
\* lines 4-15).
NoticesOnce == \A c \in Times, s \in Stages : mails[c][s] <= 1

\* A delinquency does not stay open: its cycle is closed as recovered or lapsed,
\* though the handlers that should close it die, come too early or too late.
CyclesClose == []<>(\A c \in Times : ~IsOpen(c))
=============================================================================
