--------------------------- MODULE StripeBillingProofs ---------------------------
(***************************************************************************)
(* What StripeBilling promises, for every number of subscriptions, events, *)
(* handlers and sweeps, every grace period and every bound.                *)
(***************************************************************************)
EXTENDS StripeBilling, TLAPS

-----------------------------------------------------------------------------
(***************************************************************************)
(* The inductive invariant.                                                *)
(***************************************************************************)

\* A row's delinquency and final status come from events that were sent.
FromEvents(row) ==
    /\ row.failedAt # 0 => \E i \in DOMAIN events : events[i].kind = "failed" /\ events[i].at = row.failedAt
    /\ row.status \in Ended => \E i \in DOMAIN events : events[i].status = row.status

\* A handler that writes has the kind of event that the write is for.
HandlerSane(h) ==
    /\ handler[h].at # "idle" => handler[h].id \in DOMAIN events
    /\ handler[h].at \in {"stamp", "open", "notify", "send"} => EventOf(h).kind = "failed"
    /\ handler[h].at \in {"open", "notify", "send"} => handler[h].cycle \in Times
    /\ handler[h].at \in {"read", "sync", "follow"} =>
            Grants(EventOf(h)) \/ Revokes(EventOf(h)) \/ EventOf(h).kind = "paid"

SweepSane(w) ==
    /\ sweep[w].now <= now
    /\ sweep[w].at \in {"send", "lapse"} => sweep[w].cycle \in Times
    /\ sweep[w].at = "send" => sweep[w].stage \in {7, 14}
    /\ FromEvents(sweep[w].org)

Sane ==
    /\ FromEvents(org)
    /\ \A h \in Handlers : HandlerSane(h)
    /\ \A w \in Sweeps : SweepSane(w)

\* What keeps an event from being applied again.
Past(i) ==
    \/ org.eventAt > events[i].at
    \/ org.eventAt = events[i].at /\ org.eventId = i
    \/ \E j \in DOMAIN events : j # i /\ events[j].at = events[i].at

Watermark == \A i \in Ids : applied[i] > 0 => i \in DOMAIN events /\ Past(i)

\* A notice that is on its way is claimed, not sent yet, and on its way once.
Sending(h)  == handler[h].at = "send"
Sweeping(w) == sweep[w].at = "send"

Notices ==
    /\ \A c \in Times, s \in Stages : mails[c][s] <= 1 /\ (mails[c][s] # 0 => s \in cycles[c].notified)
    /\ \A h \in Handlers : Sending(h) =>
            /\ 0 \in cycles[handler[h].cycle].notified /\ mails[handler[h].cycle][0] = 0
            /\ \A g \in Handlers : Sending(g) /\ handler[g].cycle = handler[h].cycle => g = h
    /\ \A w \in Sweeps : Sweeping(w) =>
            /\ sweep[w].stage \in cycles[sweep[w].cycle].notified /\ mails[sweep[w].cycle][sweep[w].stage] = 0
            /\ \A v \in Sweeps : Sweeping(v) /\ sweep[v].cycle = sweep[w].cycle /\ sweep[v].stage = sweep[w].stage => v = w

\* Only the cycle of a delinquency that was opened is claimed.
Opened ==
    /\ \A c \in Times : cycles[c].notified # {} => cycles[c].opened
    /\ \A h \in Handlers : handler[h].at \in {"notify", "send"} => cycles[handler[h].cycle].opened
    /\ \A w \in Sweeps : \A c \in sweep[w].rows : cycles[c].opened

IInv == TypeOK /\ Sane /\ Watermark /\ AppliedOnce /\ Opened /\ Notices

-----------------------------------------------------------------------------
(***************************************************************************)
(* What the operators return.                                              *)
(***************************************************************************)

LEMMA SentIsARecord ==
    ASSUME TypeOK, NEW i \in DOMAIN events
    PROVE  events[i] \in EventRecords /\ i \in Ids
BY BoundAssumption DEF TypeOK, Ids

LEMMA SyncedIsARow ==
    ASSUME TypeOK, NEW i \in DOMAIN events, NEW tier \in Tiers \cup {"unknown"}
    PROVE  Synced(org, i, tier) \in OrgRows
<1>1. events[i] \in EventRecords /\ i \in Ids
  BY SentIsARecord
<1>2. TierOf[events[i].sub] \in Tiers \cup {"unknown"}
  BY <1>1, TierAssumption DEF EventRecords, Tiers
<1> DEFINE e == events[i]  row == Stamped(org, i)
           level    == IF Revokes(e) THEN "starter" ELSE Level(tier)
           failedAt == IF Revokes(e) THEN row.failedAt ELSE 0
           sub      == IF e.kind = "checkout" THEN row.sub ELSE e.sub
           known    == IF Known(e.sub) THEN TierOf[e.sub] ELSE row.tier
           status   == IF e.status = "none" THEN row.status ELSE e.status
<1>3. row \in OrgRows
  <2>1. org \in OrgRows /\ events[i].at \in 0 .. (LastTime + 1) /\ i \in 0 .. MaxEvents
    BY <1>1, BoundAssumption DEF TypeOK, EventRecords, Times, Ids
  <2>2. row = [org EXCEPT !.eventAt = events[i].at, !.eventId = i]
    BY DEF Stamped
  <2> HIDE DEF row
  <2> QED
    BY <2>1, <2>2 DEF OrgRows
<1>4. /\ level \in {"starter", "professional", "premium"}
      /\ failedAt \in 0 .. (LastTime + 1) /\ sub \in Subs \cup {NoSub}
      /\ known \in Tiers \cup {"unknown"} /\ status \in Statuses
  BY <1>1, <1>2, <1>3, BoundAssumption DEF Level, OrgRows, EventRecords
<1>5. Synced(org, i, tier) =
        [row EXCEPT !.level = level, !.failedAt = failedAt, !.sub = sub, !.tier = known, !.status = status]
  BY DEF Synced
<1> HIDE DEF e, row, level, failedAt, sub, known, status
<1> QED
  BY <1>3, <1>4, <1>5 DEF OrgRows

\* What sending appends leaves what was sent before.
LEMMA SentIsKept ==
    ASSUME TypeOK, NEW s \in Subs, NEW status \in Statuses, NEW sent \in Seq(EventRecords),
           Send(s, status, sent)
    PROVE  /\ events' \in Seq(EventRecords) /\ Len(events') <= MaxEvents
           /\ Len(events) <= Len(events')
           /\ \A i \in DOMAIN events : i \in DOMAIN events' /\ events'[i] = events[i]
           /\ now' \in Times /\ now' = now + 1
           /\ subscriptions' \in [Subs -> Statuses]
<1>1. /\ events \in Seq(EventRecords) /\ now \in Times /\ subscriptions \in [Subs -> Statuses]
      /\ events' = events \o sent /\ now' = now + 1
      /\ Len(events') <= MaxEvents
      /\ subscriptions' = [subscriptions EXCEPT ![s] = status]
  BY DEF TypeOK, Send
<1>2. events' \in Seq(EventRecords) /\ Len(events') = Len(events) + Len(sent)
  BY <1>1
<1>3. \A i \in DOMAIN events : i \in DOMAIN events' /\ events'[i] = events[i]
  BY <1>1, <1>2
<1>4. now' \in Times
  BY <1>1, BoundAssumption, DaysAssumption DEF Send, Times
<1> QED
  BY <1>1, <1>2, <1>3, <1>4

LEMMA EventsAreRecords ==
    ASSUME TypeOK, now <= LastTime, NEW s \in Subs,
           NEW kind \in {"checkout", "created", "updated", "deleted", "failed", "paid"}, NEW status \in Statuses
    PROVE  Event(kind, s, status) \in EventRecords
BY DEF TypeOK, Event, EventRecords, Times

\* What the provider does: a step that only it takes part in.
Sends ==
    /\ events' \in Seq(EventRecords) /\ Len(events') <= MaxEvents
    /\ Len(events) <= Len(events')
    /\ \A i \in DOMAIN events : i \in DOMAIN events' /\ events'[i] = events[i]
    /\ now' \in Times /\ now' \in {now, now + 1}
    /\ subscriptions' \in [Subs -> Statuses]

LEMMA StripeSends ==
    ASSUME TypeOK, Stripe
    PROVE  Sends /\ UNCHANGED <<org, processed, cycles, handler, sweep, mails, acked, ghosts>>
<1> USE DEF Statuses, Ended
<1>1. now <= LastTime
  BY BoundAssumption, DaysAssumption DEF Stripe, Subscribe, PaymentFails, PaymentSucceeds, RetriesEnd, Cancel, Send, TypeOK, Times
<1>2. PICK s \in Subs : (\E status \in {"trialing", "active"} : Subscribe(s, status))
                        \/ PaymentFails(s) \/ PaymentSucceeds(s) \/ RetriesEnd(s) \/ Cancel(s)
  BY DEF Stripe
<1>3. CASE \E status \in {"trialing", "active"} : Subscribe(s, status)
  <2>1. PICK status \in {"trialing", "active"} : Subscribe(s, status)
    BY <1>3
  <2>2. <<Event("created", s, status), Event("checkout", s, "none")>> \in Seq(EventRecords)
    BY <1>1, EventsAreRecords
  <2> QED
    BY <2>1, <2>2, SentIsKept DEF Subscribe, Send, Sends
<1>4. CASE PaymentFails(s)
  <2>1. <<Event("failed", s, "none")>> \in Seq(EventRecords)
    BY <1>1, EventsAreRecords
  <2>2. <<Event("failed", s, "none"), Event("updated", s, "past_due")>> \in Seq(EventRecords)
    BY <1>1, EventsAreRecords
  <2> QED
    BY <1>4, <2>1, <2>2, SentIsKept DEF PaymentFails, Send, Sends
<1>5. CASE PaymentSucceeds(s)
  <2>1. <<Event("paid", s, "none"), Event("updated", s, "active")>> \in Seq(EventRecords)
    BY <1>1, EventsAreRecords
  <2> QED
    BY <1>5, <2>1, SentIsKept DEF PaymentSucceeds, Send, Sends
<1>6. CASE RetriesEnd(s)
  <2>1. <<Event("updated", s, "unpaid")>> \in Seq(EventRecords)
    BY <1>1, EventsAreRecords
  <2> QED
    BY <1>6, <2>1, SentIsKept DEF RetriesEnd, Send, Sends
<1>7. CASE Cancel(s)
  <2>1. <<Event("deleted", s, "canceled")>> \in Seq(EventRecords)
    BY <1>1, EventsAreRecords
  <2> QED
    BY <1>7, <2>1, SentIsKept DEF Cancel, Send, Sends
<1> QED
  BY <1>2, <1>3, <1>4, <1>5, <1>6, <1>7

LEMMA CancellationSends ==
    ASSUME TypeOK, NEW h \in Handlers, NEW s \in Subs, CancelPriorBriefSubscriptions(h, s)
    PROVE  Sends /\ UNCHANGED <<org, processed, cycles, handler, sweep, mails, acked, now, ghosts>>
<1>1. Event("deleted", s, "canceled") \in EventRecords
  BY DEF TypeOK, Event, EventRecords, Statuses, Ended
<1> QED
  BY <1>1, BoundAssumption DEF TypeOK, CancelPriorBriefSubscriptions, Sends, Statuses, Ended, stripeVars

\* The local state of a handler, and of a sweep, after each of its moves.
LEMMA HandlerMoves ==
    /\ Free \in HandlerRecords
    /\ \A r \in HandlerRecords, place \in {"sync", "follow", "open", "notify", "send"} :
            [r EXCEPT !.at = place] \in HandlerRecords
<1>1. Free \in HandlerRecords
  BY BoundAssumption DEF Free, HandlerRecords
<1>2. ASSUME NEW r \in HandlerRecords, NEW place \in {"sync", "follow", "open", "notify", "send"}
      PROVE  [r EXCEPT !.at = place] \in HandlerRecords
  BY <1>2 DEF HandlerRecords
<1> QED
  BY <1>1, <1>2

LEMMA Replies ==
    ASSUME TypeOK, NEW h \in Handlers, handler[h].id \in Ids, Answer(h)
    PROVE  acked' \subseteq Ids /\ handler' \in [Handlers -> HandlerRecords]
BY HandlerMoves DEF TypeOK, Answer

LEMMA Moves ==
    ASSUME TypeOK, NEW h \in Handlers, At(h, "follow") \/ At(h, "notify") \/ At(h, "send")
    PROVE  acked' \subseteq Ids /\ handler' \in [Handlers -> HandlerRecords]
<1>1. handler \in [Handlers -> HandlerRecords] /\ handler[h] \in HandlerRecords /\ acked \subseteq Ids
  BY DEF TypeOK
<1>2. PICK place \in {"follow", "notify", "send"} : At(h, place)
  OBVIOUS
<1>3. [handler[h] EXCEPT !.at = place] \in HandlerRecords
  BY <1>1, HandlerMoves
<1> QED
  BY <1>1, <1>2, <1>3 DEF At

LEMMA SweepIsFree == NoSweep \in SweepRecords
<1>1. NewOrg \in OrgRows
  BY BoundAssumption DEF NewOrg, OrgRows, Statuses, Ended
<1>2. [c \in Times |-> NoCycle] \in [Times -> CycleRows]
  BY DEF NoCycle, CycleRows
<1>3. 1 \in Times /\ 0 \in Stages /\ 0 \in 0 .. (LastTime + 1)
  BY BoundAssumption DEF Times, Stages
<1> QED
  BY <1>1, <1>2, <1>3 DEF NoSweep, SweepRecords

LEMMA SweepMoves ==
    ASSUME NEW r \in SweepRecords, NEW c \in 0 .. (LastTime + 1), NEW stage \in Stages, NEW rows \in SUBSET Times
    PROVE  /\ [r EXCEPT !.at = "send", !.cycle = c, !.stage = stage] \in SweepRecords
           /\ [r EXCEPT !.at = "lapse", !.cycle = c] \in SweepRecords
           /\ [r EXCEPT !.at = "rows", !.rows = rows, !.cycle = c, !.stage = stage] \in SweepRecords
<1>1. [r EXCEPT !.at = "send", !.cycle = c, !.stage = stage] \in SweepRecords
  BY DEF SweepRecords
<1>2. [r EXCEPT !.at = "lapse", !.cycle = c] \in SweepRecords
  BY DEF SweepRecords
<1>3. [r EXCEPT !.at = "rows", !.rows = rows, !.cycle = c, !.stage = stage] \in SweepRecords
  BY DEF SweepRecords
<1> QED
  BY <1>1, <1>2, <1>3

LEMMA RowsGoOn ==
    ASSUME TypeOK, NEW w \in Sweeps, NEW c, RowDone(w, c)
    PROVE  sweep' \in [Sweeps -> SweepRecords]
<1> DEFINE rows == sweep[w].rows \ {c}
<1>1. rows \in SUBSET Times /\ 0 \in Stages /\ 0 \in 0 .. (LastTime + 1)
  BY BoundAssumption DEF TypeOK, SweepRecords, Stages
<1>2. sweep[w].rows = {c} => sweep' = [sweep EXCEPT ![w] = NoSweep]
  BY DEF RowDone
<1>3. sweep[w].rows # {c} =>
        sweep' = [sweep EXCEPT ![w] = [sweep[w] EXCEPT !.at = "rows", !.rows = rows, !.cycle = 0, !.stage = 0]]
  BY DEF TypeOK, RowDone
<1> HIDE DEF rows
<1>4. [sweep[w] EXCEPT !.at = "rows", !.rows = rows, !.cycle = 0, !.stage = 0] \in SweepRecords
  BY <1>1, SweepMoves DEF TypeOK
<1> QED
  BY <1>2, <1>3, <1>4, SweepIsFree DEF TypeOK

LEMMA RowMoves ==
    ASSUME TypeOK, NEW w \in Sweeps, NEW c \in Times, NEW stage \in Stages,
           \/ sweep' = [sweep EXCEPT ![w].at = "send", ![w].cycle = c, ![w].stage = stage]
           \/ sweep' = [sweep EXCEPT ![w].at = "lapse", ![w].cycle = c]
    PROVE  sweep' \in [Sweeps -> SweepRecords]
<1>1. c \in 0 .. (LastTime + 1) /\ {} \in SUBSET Times /\ sweep[w] \in SweepRecords
  BY DEF Times, TypeOK
<1>2. /\ [sweep[w] EXCEPT !.at = "send", !.cycle = c, !.stage = stage] \in SweepRecords
      /\ [sweep[w] EXCEPT !.at = "lapse", !.cycle = c] \in SweepRecords
  BY <1>1, SweepMoves
<1> QED
  BY <1>2 DEF TypeOK

LEMMA CycleMoves ==
    ASSUME TypeOK, NEW c \in Times,
           \/ cycles' = [cycles EXCEPT ![c].recovered = TRUE]
           \/ cycles' = [cycles EXCEPT ![c].lapsed = TRUE]
           \/ \E stage \in Stages : cycles' = [cycles EXCEPT ![c].notified = @ \cup {stage}]
    PROVE  cycles' \in [Times -> CycleRows]
<1>1. cycles[c] \in CycleRows /\ cycles \in [Times -> CycleRows]
  BY DEF TypeOK
<1>2. [cycles[c] EXCEPT !.recovered = TRUE] \in CycleRows /\ [cycles[c] EXCEPT !.lapsed = TRUE] \in CycleRows
  BY <1>1 DEF CycleRows
<1>3. \A stage \in Stages : [cycles[c] EXCEPT !.notified = @ \cup {stage}] \in CycleRows
  BY <1>1 DEF CycleRows
<1> QED
  BY <1>1, <1>2, <1>3

LEMMA MailGoes ==
    ASSUME TypeOK, NEW c \in Times, NEW stage \in Stages, mails' = [mails EXCEPT ![c][stage] = @ + 1]
    PROVE  mails' \in [Times -> [Stages -> Nat]]
<1>1. mails[c] \in [Stages -> Nat] /\ mails \in [Times -> [Stages -> Nat]]
  BY DEF TypeOK
<1>2. [mails[c] EXCEPT ![stage] = @ + 1] \in [Stages -> Nat]
  BY <1>1
<1> QED
  BY <1>1, <1>2

LEMMA StageIsAStage == \A w, c : StageDue(w, c) \in Stages
<1> TAKE w, c
<1> DEFINE final == sweep[w].now - c >= GraceDays - 1 /\ 14 \notin sweep[w].seen[c].notified
           second == sweep[w].now - c >= DaySeven /\ 7 \notin sweep[w].seen[c].notified
<1>1. StageDue(w, c) = IF final THEN 14 ELSE IF second THEN 7 ELSE 0
  BY DEF StageDue
<1> HIDE DEF final, second
<1> QED
  BY <1>1 DEF Stages

-----------------------------------------------------------------------------
(***************************************************************************)
(* Types.                                                                  *)
(***************************************************************************)

LEMMA InitialType == Init => TypeOK
<1> SUFFICES ASSUME Init PROVE TypeOK
  OBVIOUS
<1>1. org \in OrgRows
  <2>1. NewOrg \in OrgRows
    BY BoundAssumption DEF NewOrg, OrgRows, Statuses, Ended
  <2>2. ASSUME NEW s \in Existing PROVE OldOrg(s) \in OrgRows
    <3>1. s \in Subs /\ TierOf[s] \in Tiers \cup {"unknown"}
      BY SubsAssumption, TierAssumption DEF Tiers
    <3> QED
      BY <2>1, <3>1 DEF OldOrg, Level, OrgRows, Statuses
  <2> QED
    BY <2>1, <2>2 DEF Init
<1>2. sweep \in [Sweeps -> SweepRecords]
  BY SweepIsFree DEF Init
<1>3. cycles \in [Times -> CycleRows]
  BY DEF Init, NoCycle, CycleRows
<1>4. handler \in [Handlers -> HandlerRecords]
  BY HandlerMoves DEF Init
<1>5. subscriptions \in [Subs -> Statuses]
  BY DEF Init, Statuses
<1>6. events \in Seq(EventRecords) /\ Len(events) <= MaxEvents
  BY BoundAssumption DEF Init
<1>7. mails \in [Times -> [Stages -> Nat]] /\ applied \in [Ids -> Nat]
  BY DEF Init
<1>8. processed = {} /\ acked = {} /\ lost = {} /\ now \in Times /\ faults \in 0 .. MaxFaults
  BY BoundAssumption DEF Init, Times
<1> QED
  BY <1>1, <1>2, <1>3, <1>4, <1>5, <1>6, <1>7, <1>8 DEF TypeOK

LEMMA FaultsAreBounded == TypeOK /\ Fault => faults' \in 0 .. MaxFaults
BY BoundAssumption DEF TypeOK, Fault

\* The steps of a handler keep the types of what they write.
LEMMA HandlerTypes ==
    ASSUME TypeOK, Sane, NEW h \in Handlers,
           HandlerStep(h) \/ Fail(h) \/ ErrorSwallowed(h) \/ Crash(h) \/ \E i \in Ids : Deliver(h, i)
    PROVE  TypeOK'
<1>1. \A g \in Handlers : handler[g].at # "idle" => handler[g].id \in Ids /\ handler[g].id \in DOMAIN events
                                                    /\ EventOf(g) \in EventRecords
  BY SentIsARecord DEF Sane, HandlerSane, EventOf
<1>2. ASSUME NEW i \in Ids, Deliver(h, i) PROVE TypeOK'
  <2>1. events[i] \in EventRecords
    BY <1>2, SentIsARecord DEF Deliver
  <2>2. TierOf[events[i].sub] \in Tiers \cup {"unknown"}
    BY <2>1, TierAssumption DEF EventRecords, Tiers
  <2>3. handler' \in [Handlers -> HandlerRecords]
    <3> DEFINE place == CASE events[i].kind = "failed" -> "stamp"
                          [] events[i].kind \in {"paid", "deleted"} -> "read"
                          [] OTHER -> "sync"
               new == [Free EXCEPT !.id = i, !.tier = TierOf[events[i].sub], !.at = place]
    <3>1. place \in {"stamp", "read", "sync"}
      BY <2>1 DEF EventRecords
    <3>2. handler' = handler \/ handler' = [handler EXCEPT ![h] = new]
      BY <1>2 DEF Deliver
    <3>3. i \in 0 .. MaxEvents
      BY BoundAssumption DEF Ids
    <3> HIDE DEF place
    <3>4. new \in HandlerRecords
      BY <2>2, <3>1, <3>3, HandlerMoves DEF HandlerRecords
    <3> QED
      BY <3>2, <3>4 DEF TypeOK
  <2> QED
    BY <1>2, <2>3 DEF Deliver, TypeOK, Ids, ghosts, stripeVars
<1>3. CASE Read(h)
  <2>1. handler[h].id \in Ids
    BY <1>1, <1>3 DEF Read
  <2>2. CASE Answer(h)
    BY <1>3, <2>1, <2>2, Replies DEF Read, TypeOK, ghosts, stripeVars
  <2>3. CASE ~Ignored(h)
    <3>1. handler' \in [Handlers -> HandlerRecords]
      <4> DEFINE tier == IF Known(EventOf(h).sub) THEN handler[h].tier ELSE org.tier
      <4>1. tier \in Tiers \cup {"unknown"} /\ handler[h] \in HandlerRecords
        BY DEF TypeOK, HandlerRecords, OrgRows
      <4>2. handler' = [handler EXCEPT ![h] = [handler[h] EXCEPT !.at = "sync", !.tier = tier]]
        BY <1>3, <2>3 DEF Read, TypeOK
      <4> HIDE DEF tier
      <4>3. [handler[h] EXCEPT !.at = "sync", !.tier = tier] \in HandlerRecords
        BY <4>1 DEF HandlerRecords
      <4> QED
        BY <4>2, <4>3 DEF TypeOK
    <3> QED
      BY <1>3, <2>3, <3>1 DEF Read, TypeOK, ghosts, stripeVars
  <2> QED
    BY <1>3, <2>2, <2>3 DEF Read
<1>4. CASE Sync(h)
  <2>1. handler[h].id \in Ids /\ handler[h].id \in DOMAIN events
    BY <1>1, <1>4 DEF Sync
  <2>2. CASE Newer(org, handler[h].id)
    <3>1. org' \in OrgRows
      <4>1. handler[h].tier \in Tiers \cup {"unknown"}
        BY DEF TypeOK, HandlerRecords
      <4> QED
        BY <1>4, <2>1, <2>2, <4>1, SyncedIsARow DEF Sync
    <3>2. applied' \in [Ids -> Nat]
      <4>1. applied' = [applied EXCEPT ![handler[h].id] = @ + 1] /\ applied \in [Ids -> Nat]
        BY <1>4, <2>2 DEF Sync, TypeOK
      <4> QED
        BY <2>1, <4>1
    <3> QED
      BY <1>4, <2>2, <3>1, <3>2, Moves DEF Sync, TypeOK, stripeVars
  <2>3. CASE ~Newer(org, handler[h].id)
    BY <1>4, <2>1, <2>3, Replies DEF Sync, TypeOK, stripeVars
  <2> QED
    BY <2>2, <2>3
<1>5. CASE MarkCyclesRecovered(h)
  <2>1. handler[h].id \in Ids
    BY <1>1, <1>5 DEF MarkCyclesRecovered, Follows
  <2>2. cycles' \in [Times -> CycleRows]
    BY <1>5 DEF MarkCyclesRecovered, TypeOK, CycleRows
  <2> QED
    BY <1>5, <2>1, <2>2, Replies DEF MarkCyclesRecovered, TypeOK, ghosts, stripeVars
<1>6. CASE MarkCyclesLapsed(h)
  <2>1. handler[h].id \in Ids
    BY <1>1, <1>6 DEF MarkCyclesLapsed, Follows
  <2>2. cycles' \in [Times -> CycleRows]
    BY <1>6 DEF MarkCyclesLapsed, TypeOK, CycleRows
  <2> QED
    BY <1>6, <2>1, <2>2, Replies DEF MarkCyclesLapsed, TypeOK, ghosts, stripeVars
<1>7. CASE RecordTrial(h)
  <2>1. handler[h].id \in Ids
    BY <1>1, <1>7 DEF RecordTrial, Follows
  <2>2. org' \in OrgRows
    BY <1>7 DEF RecordTrial, TypeOK, OrgRows
  <2> QED
    BY <1>7, <2>1, <2>2, Replies DEF RecordTrial, TypeOK, ghosts, stripeVars
<1>8. CASE CheckoutDone(h)
  <2>1. handler[h].id \in Ids
    BY <1>1, <1>8 DEF CheckoutDone, Follows
  <2> QED
    BY <1>8, <2>1, Replies DEF CheckoutDone, TypeOK, ghosts, stripeVars
<1>9. ASSUME NEW s \in Subs, CancelPriorBriefSubscriptions(h, s) PROVE TypeOK'
  BY <1>9, CancellationSends DEF Sends, TypeOK, ghosts
<1>10. CASE StampFailure(h)
  <2>1. handler[h].id \in Ids /\ EventOf(h) \in EventRecords
    BY <1>1, <1>10 DEF StampFailure
  <2> DEFINE row == [Stamped(org, handler[h].id) EXCEPT !.failedAt = IF @ = 0 THEN EventOf(h).at ELSE @]
  <2>2. row \in OrgRows /\ row.failedAt \in 0 .. (LastTime + 1)
    <3>1. EventOf(h).at \in 0 .. (LastTime + 1) /\ handler[h].id \in 0 .. MaxEvents /\ org \in OrgRows
      BY <2>1 DEF EventRecords, Times, Ids, TypeOK
    <3>2. row = [org EXCEPT !.eventAt = EventOf(h).at, !.eventId = handler[h].id,
                            !.failedAt = IF org.failedAt = 0 THEN EventOf(h).at ELSE org.failedAt]
      BY <3>1 DEF Stamped, EventOf, OrgRows
    <3> HIDE DEF row
    <3> QED
      BY <3>1, <3>2 DEF OrgRows
  <2>3. CASE org' = row /\ applied' = [applied EXCEPT ![handler[h].id] = @ + 1]
             /\ handler' = [handler EXCEPT ![h].at = "open", ![h].cycle = row.failedAt] /\ UNCHANGED acked
    <3> HIDE DEF row
    <3>1. handler' \in [Handlers -> HandlerRecords]
      BY <2>2, <2>3 DEF TypeOK, HandlerRecords
    <3>2. applied' \in [Ids -> Nat]
      BY <2>1, <2>3 DEF TypeOK
    <3> QED
      BY <1>10, <2>2, <2>3, <3>1, <3>2 DEF StampFailure, TypeOK, stripeVars
  <2>4. CASE Answer(h) /\ UNCHANGED <<org, applied>>
    BY <1>10, <2>1, <2>4, Replies DEF StampFailure, TypeOK, stripeVars
  <2> QED
    BY <1>10, <2>3, <2>4 DEF StampFailure
<1>11. CASE OpenDunningCycle(h)
  <2>1. handler[h].id \in Ids /\ handler[h].cycle \in Times /\ EventOf(h).sub \in Subs
    BY <1>1, <1>11 DEF OpenDunningCycle, Sane, HandlerSane, EventRecords
  <2>2. cycles' \in [Times -> CycleRows]
    <3>1. [NoCycle EXCEPT !.opened = TRUE, !.sub = EventOf(h).sub] \in CycleRows
      BY <2>1 DEF NoCycle, CycleRows
    <3> QED
      BY <1>11, <2>1, <3>1 DEF OpenDunningCycle, TypeOK
  <2>3. acked' \subseteq Ids /\ handler' \in [Handlers -> HandlerRecords]
    BY <1>11, <2>1, Replies, Moves DEF OpenDunningCycle
  <2> QED
    BY <1>11, <2>2, <2>3 DEF OpenDunningCycle, TypeOK, ghosts, stripeVars
<1>12. CASE ClaimNotice(h)
  <2>1. handler[h].id \in Ids /\ handler[h].cycle \in Times
    BY <1>1, <1>12 DEF ClaimNotice, Sane, HandlerSane
  <2>2. cycles' \in [Times -> CycleRows]
    <3>1. 0 \in Stages
      BY DEF Stages
    <3> QED
      BY <1>12, <2>1, <3>1, CycleMoves DEF ClaimNotice, ClaimStage, TypeOK
  <2>3. acked' \subseteq Ids /\ handler' \in [Handlers -> HandlerRecords]
    BY <1>12, <2>1, Replies, Moves DEF ClaimNotice
  <2> QED
    BY <1>12, <2>2, <2>3 DEF ClaimNotice, TypeOK, ghosts, stripeVars
<1>13. CASE SendNotice(h)
  <2>1. handler[h].id \in Ids /\ handler[h].cycle \in Times
    BY <1>1, <1>13 DEF SendNotice, Sane, HandlerSane
  <2>2. mails' \in [Times -> [Stages -> Nat]]
    <3>1. 0 \in Stages
      BY DEF Stages
    <3> QED
      BY <1>13, <2>1, <3>1, MailGoes DEF SendNotice
  <2>3. acked' \subseteq Ids /\ handler' \in [Handlers -> HandlerRecords]
    BY <1>13, <2>1, Replies DEF SendNotice
  <2> QED
    BY <1>13, <2>2, <2>3 DEF SendNotice, TypeOK, ghosts, stripeVars
<1>14. CASE Fail(h)
  <2>1. handler[h].id \in Ids
    BY <1>1, <1>14 DEF Fail
  <2>2. handler' \in [Handlers -> HandlerRecords]
    BY <1>14, HandlerMoves DEF Fail, TypeOK
  <2> QED
    BY <1>14, <2>1, <2>2, FaultsAreBounded DEF Fail, TypeOK, stripeVars
<1>15. CASE ErrorSwallowed(h)
  <2>1. handler[h].id \in Ids
    BY <1>1, <1>15 DEF ErrorSwallowed
  <2>2. acked' \subseteq Ids /\ handler' \in [Handlers -> HandlerRecords]
    BY <1>15, <2>1, Replies, Moves DEF ErrorSwallowed
  <2> QED
    BY <1>15, <2>1, <2>2, FaultsAreBounded DEF ErrorSwallowed, TypeOK, stripeVars
<1>16. CASE Crash(h)
  <2>1. handler[h].id \in Ids
    BY <1>1, <1>16 DEF Crash
  <2>2. handler' \in [Handlers -> HandlerRecords]
    BY <1>16, HandlerMoves DEF Crash, TypeOK
  <2> QED
    BY <1>16, <2>1, <2>2, FaultsAreBounded DEF Crash, TypeOK, stripeVars
<1> QED
  BY <1>2, <1>3, <1>4, <1>5, <1>6, <1>7, <1>8, <1>9, <1>10, <1>11, <1>12, <1>13, <1>14, <1>15, <1>16
  DEF HandlerStep, Follow

LEMMA SweepTypes ==
    ASSUME TypeOK, Sane, NEW w \in Sweeps, SweepStep(w) \/ SweepItemFails(w) \/ SweepDies(w)
    PROVE  TypeOK'
<1>1. CASE SweepSelect(w)
  <2>1. sweep' \in [Sweeps -> SweepRecords]
    <3> DEFINE rows == {c \in Times : IsOpen(c)}
               new == [NoSweep EXCEPT !.at = "rows", !.rows = rows, !.seen = cycles, !.org = org, !.now = now]
    <3>1. rows \subseteq Times
      OBVIOUS
    <3> HIDE DEF rows
    <3>2. new \in SweepRecords
      BY <3>1, SweepIsFree DEF TypeOK, SweepRecords
    <3>3. sweep' = [sweep EXCEPT ![w] = new]
      BY <1>1 DEF SweepSelect, rows
    <3> QED
      BY <3>2, <3>3 DEF TypeOK
  <2> QED
    BY <1>1, <2>1 DEF SweepSelect, TypeOK, ghosts, stripeVars
<1>2. ASSUME NEW c \in Times, SweepOrphan(w, c) PROVE TypeOK'
  <2>1. cycles' \in [Times -> CycleRows]
    BY <1>2, CycleMoves DEF SweepOrphan
  <2> QED
    BY <1>2, <2>1, RowsGoOn DEF SweepOrphan, TypeOK, ghosts, stripeVars
<1>3. ASSUME NEW c \in Times, SweepClaim(w, c) PROVE TypeOK'
  <2>1. StageDue(w, c) \in Stages
    BY StageIsAStage
  <2>2. cycles' \in [Times -> CycleRows]
    BY <1>3, <2>1, CycleMoves DEF SweepClaim, ClaimStage, TypeOK
  <2>3. sweep' \in [Sweeps -> SweepRecords]
    <3>1. CASE RowDone(w, c)
      BY <3>1, RowsGoOn
    <3>2. CASE sweep' = [sweep EXCEPT ![w].at = "send", ![w].cycle = c, ![w].stage = StageDue(w, c)]
      BY <2>1, <3>2, RowMoves
    <3> QED
      BY <1>3, <3>1, <3>2 DEF SweepClaim
  <2> QED
    BY <1>3, <2>2, <2>3 DEF SweepClaim, TypeOK, ghosts, stripeVars
<1>4. CASE SweepSend(w)
  <2>1. sweep[w].cycle \in Times /\ sweep[w].stage \in Stages
    BY <1>4 DEF SweepSend, Sane, SweepSane, Stages
  <2>2. mails' \in [Times -> [Stages -> Nat]]
    BY <1>4, <2>1, MailGoes DEF SweepSend
  <2> QED
    BY <1>4, <2>2, RowsGoOn DEF SweepSend, TypeOK, ghosts, stripeVars
<1>5. ASSUME NEW c \in Times, SweepWithdraw(w, c) PROVE TypeOK'
  <2>1. org' \in OrgRows
    BY <1>5 DEF SweepWithdraw, TypeOK, OrgRows
  <2>2. sweep' \in [Sweeps -> SweepRecords]
    BY <1>5, RowMoves DEF SweepWithdraw, Stages
  <2> QED
    BY <1>5, <2>1, <2>2 DEF SweepWithdraw, TypeOK, ghosts, stripeVars
<1>6. CASE MarkCycleLapsed(w)
  <2>1. cycles' \in [Times -> CycleRows]
    <3>1. sweep[w].cycle \in Times
      BY <1>6 DEF MarkCycleLapsed, Sane, SweepSane
    <3> QED
      BY <1>6, <3>1, CycleMoves DEF MarkCycleLapsed, TypeOK
  <2> QED
    BY <1>6, <2>1, RowsGoOn DEF MarkCycleLapsed, TypeOK, ghosts, stripeVars
<1>7. CASE SweepDies(w)
  BY <1>7, SweepIsFree, FaultsAreBounded DEF SweepDies, TypeOK, stripeVars
<1>8. CASE SweepItemFails(w)
  BY <1>8, RowsGoOn, FaultsAreBounded DEF SweepItemFails, TypeOK, stripeVars
<1> QED
  BY <1>1, <1>2, <1>3, <1>4, <1>5, <1>6, <1>7, <1>8 DEF SweepStep

LEMMA TypeStep == TypeOK /\ Sane /\ [Next]_vars => TypeOK'
<1> SUFFICES ASSUME TypeOK, Sane, [Next]_vars PROVE TypeOK'
  OBVIOUS
<1>1. CASE Stripe
  BY <1>1, StripeSends DEF Sends, TypeOK, ghosts
<1>2. CASE Tick
  BY <1>2, BoundAssumption DEF Tick, TypeOK, Times, ghosts
<1>3. CASE UNCHANGED vars
  BY <1>3 DEF vars, TypeOK
<1> QED
  BY <1>1, <1>2, <1>3, HandlerTypes, SweepTypes DEF Next

-----------------------------------------------------------------------------
(***************************************************************************)
(* What the handlers and the sweeps know.                                  *)
(***************************************************************************)

\* What was sent stays: what is known from it stays too.
LEMMA StillFromEvents ==
    ASSUME NEW row, FromEvents(row), \A i \in DOMAIN events : i \in DOMAIN events' /\ events'[i] = events[i]
    PROVE  FromEvents(row)'
BY DEF FromEvents

\* The steps that append to what was sent, or let time pass.
LEMMA SaneWhenSent ==
    ASSUME TypeOK, Sane, now' \in {now, now + 1}, UNCHANGED <<org, handler, sweep>>,
           \A i \in DOMAIN events : i \in DOMAIN events' /\ events'[i] = events[i]
    PROVE  Sane'
<1>1. FromEvents(org)'
  BY StillFromEvents DEF Sane
<1>2. ASSUME NEW h \in Handlers PROVE HandlerSane(h)'
  <2>1. HandlerSane(h)
    BY DEF Sane
  <2> QED
    BY <2>1 DEF HandlerSane, EventOf
<1>3. ASSUME NEW w \in Sweeps PROVE SweepSane(w)'
  <2>1. SweepSane(w) /\ sweep[w].now \in Nat /\ now \in Nat
    BY DEF Sane, TypeOK, SweepRecords, Times
  <2>2. sweep'[w].now <= now'
    BY <2>1 DEF SweepSane
  <2>3. FromEvents(sweep[w].org)'
    BY <2>1, StillFromEvents DEF SweepSane
  <2> QED
    BY <2>1, <2>2, <2>3 DEF SweepSane
<1> QED
  BY <1>1, <1>2, <1>3 DEF Sane

\* A handler's step needs to be looked at for that handler and the row only.
LEMMA SaneByHandler ==
    ASSUME Sane, NEW h \in Handlers, UNCHANGED <<events, now, sweep>>, FromEvents(org)',
           \A g \in Handlers \ {h} : handler'[g] = handler[g], HandlerSane(h)'
    PROVE  Sane'
<1>1. ASSUME NEW g \in Handlers \ {h} PROVE HandlerSane(g)'
  BY DEF Sane, HandlerSane, EventOf
<1>2. ASSUME NEW w \in Sweeps PROVE SweepSane(w)'
  BY DEF Sane, SweepSane, FromEvents
<1> QED
  BY <1>1, <1>2 DEF Sane

LEMMA SaneBySweep ==
    ASSUME Sane, NEW w \in Sweeps, UNCHANGED <<events, now, handler>>, FromEvents(org)',
           \A v \in Sweeps \ {w} : sweep'[v] = sweep[v], SweepSane(w)'
    PROVE  Sane'
<1>1. ASSUME NEW v \in Sweeps \ {w} PROVE SweepSane(v)'
  BY DEF Sane, SweepSane, FromEvents
<1>2. ASSUME NEW h \in Handlers PROVE HandlerSane(h)'
  BY DEF Sane, HandlerSane, EventOf
<1> QED
  BY <1>1, <1>2 DEF Sane

LEMMA AnsweredIsSane ==
    ASSUME TypeOK, NEW h \in Handlers, handler' = [handler EXCEPT ![h] = Free]
    PROVE  HandlerSane(h)' /\ \A g \in Handlers \ {h} : handler'[g] = handler[g]
BY DEF TypeOK, HandlerSane, Free

\* A move keeps the event.
LEMMA MovedIsSane ==
    ASSUME TypeOK, Sane, NEW h \in Handlers, handler[h].at # "idle", UNCHANGED events,
           \/ At(h, "follow") /\ handler[h].at \in {"read", "sync", "follow"}
           \/ \E place \in {"notify", "send"} : At(h, place) /\ handler[h].at \in {"open", "notify"}
    PROVE  HandlerSane(h)' /\ \A g \in Handlers \ {h} : handler'[g] = handler[g]
<1>1. handler \in [Handlers -> HandlerRecords] /\ handler[h] \in HandlerRecords /\ HandlerSane(h)
  BY DEF TypeOK, Sane
<1>2. PICK place \in {"follow", "notify", "send"} :
            /\ At(h, place)
            /\ place = "follow" => handler[h].at \in {"read", "sync", "follow"}
            /\ place # "follow" => handler[h].at \in {"open", "notify"}
  OBVIOUS
<1>3. /\ handler'[h].at = place /\ handler'[h].id = handler[h].id /\ handler'[h].cycle = handler[h].cycle
      /\ \A g \in Handlers \ {h} : handler'[g] = handler[g]
  BY <1>1, <1>2 DEF At, HandlerRecords
<1> QED
  BY <1>1, <1>2, <1>3 DEF HandlerSane, EventOf

LEMMA HandlerSaneStep ==
    ASSUME TypeOK, Sane, NEW h \in Handlers,
           HandlerStep(h) \/ Fail(h) \/ ErrorSwallowed(h) \/ Crash(h) \/ \E i \in Ids : Deliver(h, i)
    PROVE  Sane'
<1>1. FromEvents(org) /\ HandlerSane(h) /\ handler \in [Handlers -> HandlerRecords] /\ handler[h] \in HandlerRecords
  BY DEF Sane, TypeOK
<1>2. UNCHANGED <<org, events>> => FromEvents(org)'
  BY <1>1 DEF FromEvents
<1>3. Answer(h) => HandlerSane(h)' /\ \A g \in Handlers \ {h} : handler'[g] = handler[g]
  BY AnsweredIsSane DEF Answer
<1>4. ASSUME NEW i \in Ids, Deliver(h, i) PROVE Sane'
  <2> DEFINE place == CASE events[i].kind = "failed" -> "stamp"
                        [] events[i].kind \in {"paid", "deleted"} -> "read"
                        [] OTHER -> "sync"
  <2>1. i \in DOMAIN events /\ events[i] \in EventRecords
    BY <1>4, SentIsARecord DEF Deliver
  <2>2. CASE UNCHANGED handler
    BY <1>4, <2>2, SaneWhenSent DEF Deliver, stripeVars
  <2>3. CASE /\ handler' = [handler EXCEPT ![h] = [Free EXCEPT !.id = i, !.tier = TierOf[events[i].sub], !.at = place]]
             /\ ~(events[i].kind \in {"checkout", "created", "updated"} /\ ~Grants(events[i]) /\ ~Revokes(events[i]))
    <3>1. /\ events[i].kind = "failed" => place = "stamp"
          /\ events[i].kind # "failed" => place \in {"read", "sync"} /\ (Grants(events[i]) \/ Revokes(events[i]) \/ events[i].kind = "paid")
      BY <2>1, <2>3 DEF EventRecords, Revokes
    <3> HIDE DEF place
    <3>2. handler'[h].at = place /\ handler'[h].id = i /\ \A g \in Handlers \ {h} : handler'[g] = handler[g]
      BY <1>1, <2>3 DEF Free
    <3>3. UNCHANGED <<org, events, now, sweep>>
      BY <1>4 DEF Deliver, stripeVars
    <3>4. HandlerSane(h)'
      BY <2>1, <3>1, <3>2, <3>3 DEF HandlerSane, EventOf, Grants, Revokes
    <3> QED
      BY <1>2, <3>2, <3>3, <3>4, SaneByHandler
  <2> QED
    BY <1>4, <2>2, <2>3 DEF Deliver
<1>5. CASE Read(h)
  <2>1. CASE Answer(h)
    BY <1>2, <1>3, <1>5, <2>1, SaneByHandler DEF Read, stripeVars
  <2>2. CASE ~Ignored(h)
    <3>1. handler'[h].at = "sync" /\ handler'[h].id = handler[h].id /\ \A g \in Handlers \ {h} : handler'[g] = handler[g]
      BY <1>1, <1>5, <2>2 DEF Read, HandlerRecords
    <3>2. UNCHANGED <<org, events, now, sweep>>
      BY <1>5 DEF Read, stripeVars
    <3>3. HandlerSane(h)'
      BY <1>1, <1>5, <3>1, <3>2 DEF Read, HandlerSane, EventOf
    <3> QED
      BY <1>2, <3>1, <3>2, <3>3, SaneByHandler
  <2> QED
    BY <1>5, <2>1, <2>2 DEF Read
<1>6. CASE Sync(h)
  <2>1. UNCHANGED <<events, now, sweep>> /\ handler[h].id \in DOMAIN events /\ EventOf(h) \in EventRecords
    BY <1>1, <1>6, SentIsARecord DEF Sync, stripeVars, HandlerSane, EventOf
  <2>2. FromEvents(org)'
    <3>1. CASE org' = Synced(org, handler[h].id, handler[h].tier)
      <4>1. /\ org'.failedAt \in {org.failedAt, 0}
            /\ org'.status \in {org.status, EventOf(h).status}
        BY <3>1 DEF Synced, Stamped, EventOf, TypeOK, OrgRows
      <4> QED
        BY <1>1, <2>1, <4>1 DEF FromEvents, EventOf
    <3> QED
      BY <1>2, <1>6, <2>1, <3>1 DEF Sync
  <2> QED
    BY <1>3, <1>6, <2>1, <2>2, SaneByHandler, MovedIsSane DEF Sync
<1>7. CASE MarkCyclesRecovered(h)
  BY <1>2, <1>3, <1>7, SaneByHandler DEF MarkCyclesRecovered, stripeVars
<1>8. CASE MarkCyclesLapsed(h)
  BY <1>2, <1>3, <1>8, SaneByHandler DEF MarkCyclesLapsed, stripeVars
<1>9. CASE RecordTrial(h)
  <2>1. FromEvents(org)'
    BY <1>1, <1>9 DEF RecordTrial, FromEvents, TypeOK, OrgRows, stripeVars
  <2> QED
    BY <1>3, <1>9, <2>1, SaneByHandler DEF RecordTrial, stripeVars
<1>10. CASE CheckoutDone(h)
  BY <1>2, <1>3, <1>10, SaneByHandler DEF CheckoutDone, stripeVars
<1>11. ASSUME NEW s \in Subs, CancelPriorBriefSubscriptions(h, s) PROVE Sane'
  BY <1>11, CancellationSends, SaneWhenSent DEF Sends
<1>12. CASE StampFailure(h)
  <2>1. UNCHANGED <<events, now, sweep>> /\ handler[h].id \in DOMAIN events /\ EventOf(h) \in EventRecords
        /\ EventOf(h).kind = "failed"
    BY <1>1, <1>12, SentIsARecord DEF StampFailure, stripeVars, HandlerSane, EventOf
  <2>2. CASE Answer(h) /\ UNCHANGED org
    BY <1>2, <1>3, <2>1, <2>2, SaneByHandler
  <2> DEFINE row == [Stamped(org, handler[h].id) EXCEPT !.failedAt = IF @ = 0 THEN EventOf(h).at ELSE @]
  <2>3. CASE org' = row /\ handler' = [handler EXCEPT ![h].at = "open", ![h].cycle = row.failedAt]
    <3>1. row.failedAt = (IF org.failedAt = 0 THEN EventOf(h).at ELSE org.failedAt) /\ row.status = org.status
      BY DEF Stamped, TypeOK, OrgRows
    <3>2. row.failedAt \in Times
      <4>1. org.failedAt \in 0 .. (LastTime + 1)
        BY DEF TypeOK, OrgRows
      <4>2. EventOf(h).at \in Times
        BY <2>1 DEF EventRecords
      <4> HIDE DEF row
      <4> QED
        BY <3>1, <4>1, <4>2, BoundAssumption DEF Times
    <3> HIDE DEF row
    <3>3. FromEvents(org)'
      BY <1>1, <2>1, <2>3, <3>1 DEF FromEvents, EventOf
    <3>4. /\ handler'[h].at = "open" /\ handler'[h].id = handler[h].id /\ handler'[h].cycle = row.failedAt
          /\ \A g \in Handlers \ {h} : handler'[g] = handler[g]
      BY <1>1, <2>3 DEF HandlerRecords
    <3>5. HandlerSane(h)'
      BY <2>1, <3>2, <3>4 DEF HandlerSane, EventOf
    <3> QED
      BY <2>1, <3>3, <3>4, <3>5, SaneByHandler
  <2> QED
    BY <1>12, <2>2, <2>3 DEF StampFailure
<1>13. CASE OpenDunningCycle(h)
  BY <1>2, <1>3, <1>13, SaneByHandler, MovedIsSane DEF OpenDunningCycle, stripeVars
<1>14. CASE ClaimNotice(h)
  BY <1>2, <1>3, <1>14, SaneByHandler, MovedIsSane DEF ClaimNotice, stripeVars
<1>15. CASE SendNotice(h)
  BY <1>2, <1>3, <1>15, SaneByHandler DEF SendNotice, stripeVars
<1>16. CASE Fail(h)
  BY <1>2, <1>16, AnsweredIsSane, SaneByHandler DEF Fail, stripeVars
<1>17. CASE ErrorSwallowed(h)
  BY <1>2, <1>3, <1>17, SaneByHandler, MovedIsSane DEF ErrorSwallowed, stripeVars
<1>18. CASE Crash(h)
  BY <1>2, <1>18, AnsweredIsSane, SaneByHandler DEF Crash, stripeVars
<1> QED
  BY <1>4, <1>5, <1>6, <1>7, <1>8, <1>9, <1>10, <1>11, <1>12, <1>13, <1>14, <1>15, <1>16, <1>17, <1>18
  DEF HandlerStep, Follow

LEMMA FreeSweepIsSane ==
    ASSUME TypeOK, NEW w \in Sweeps, sweep' = [sweep EXCEPT ![w] = NoSweep], UNCHANGED <<events, now>>
    PROVE  SweepSane(w)' /\ \A v \in Sweeps \ {w} : sweep'[v] = sweep[v]
<1>1. sweep'[w] = NoSweep /\ \A v \in Sweeps \ {w} : sweep'[v] = sweep[v]
  BY DEF TypeOK
<1>2. /\ sweep'[w].at = "idle" /\ sweep'[w].now = 1
      /\ sweep'[w].org.failedAt = 0 /\ sweep'[w].org.status = "none"
  BY <1>1 DEF NoSweep, NewOrg
<1>3. 1 <= now
  BY BoundAssumption DEF TypeOK, Times
<1> QED
  BY <1>1, <1>2, <1>3 DEF SweepSane, FromEvents, Ended

\* A row that is done leaves the sweep with the next, or free.
LEMMA RowDoneIsSane ==
    ASSUME TypeOK, Sane, NEW w \in Sweeps, NEW c, RowDone(w, c), UNCHANGED <<events, now>>
    PROVE  SweepSane(w)' /\ \A v \in Sweeps \ {w} : sweep'[v] = sweep[v]
<1>1. sweep \in [Sweeps -> SweepRecords] /\ sweep[w] \in SweepRecords /\ SweepSane(w) /\ now \in Times
  BY DEF TypeOK, Sane
<1>2. CASE sweep' = [sweep EXCEPT ![w] = NoSweep]
  BY <1>1, <1>2, FreeSweepIsSane
<1>3. CASE sweep' = [sweep EXCEPT ![w] = [sweep[w] EXCEPT !.at = "rows", !.rows = sweep[w].rows \ {c}, !.cycle = 0, !.stage = 0]]
  <2>1. /\ sweep'[w].at = "rows" /\ sweep'[w].org = sweep[w].org /\ sweep'[w].now = sweep[w].now
        /\ \A v \in Sweeps \ {w} : sweep'[v] = sweep[v]
    BY <1>1, <1>3 DEF SweepRecords
  <2> QED
    BY <1>1, <2>1 DEF SweepSane, FromEvents
<1> QED
  BY <1>2, <1>3 DEF RowDone

LEMMA SweepSaneStep ==
    ASSUME TypeOK, Sane, NEW w \in Sweeps, SweepStep(w) \/ SweepItemFails(w) \/ SweepDies(w)
    PROVE  Sane'
<1>1. /\ sweep \in [Sweeps -> SweepRecords] /\ sweep[w] \in SweepRecords /\ SweepSane(w) /\ now \in Times
      /\ FromEvents(org)
  BY DEF TypeOK, Sane
<1>2. UNCHANGED <<org, events>> => FromEvents(org)'
  BY <1>1 DEF FromEvents
<1>3. CASE SweepSelect(w)
  <2>1. UNCHANGED <<org, events, now, handler>>
    BY <1>3 DEF SweepSelect, stripeVars
  <2>2. /\ sweep'[w].at = "rows" /\ sweep'[w].org = org /\ sweep'[w].now = now
        /\ \A v \in Sweeps \ {w} : sweep'[v] = sweep[v]
    BY <1>1, <1>3 DEF SweepSelect, NoSweep
  <2>3. SweepSane(w)'
    BY <1>1, <2>1, <2>2 DEF SweepSane, FromEvents, Times
  <2> QED
    BY <1>2, <2>1, <2>2, <2>3, SaneBySweep
<1>4. ASSUME NEW c \in Times, SweepOrphan(w, c) PROVE Sane'
  BY <1>2, <1>4, RowDoneIsSane, SaneBySweep DEF SweepOrphan, stripeVars
<1>5. ASSUME NEW c \in Times, SweepClaim(w, c) PROVE Sane'
  <2>1. UNCHANGED <<org, events, now, handler>>
    BY <1>5 DEF SweepClaim, stripeVars
  <2>2. CASE RowDone(w, c)
    BY <1>2, <2>1, <2>2, RowDoneIsSane, SaneBySweep
  <2>3. CASE /\ StageDue(w, c) # 0
             /\ sweep' = [sweep EXCEPT ![w].at = "send", ![w].cycle = c, ![w].stage = StageDue(w, c)]
    <3>1. StageDue(w, c) \in {7, 14}
      BY <2>3, StageIsAStage DEF Stages
    <3>2. /\ sweep'[w].at = "send" /\ sweep'[w].cycle = c /\ sweep'[w].stage = StageDue(w, c)
          /\ sweep'[w].org = sweep[w].org /\ sweep'[w].now = sweep[w].now
          /\ \A v \in Sweeps \ {w} : sweep'[v] = sweep[v]
      BY <1>1, <2>3 DEF SweepRecords
    <3>3. SweepSane(w)'
      BY <1>1, <2>1, <3>1, <3>2 DEF SweepSane, FromEvents
    <3> QED
      BY <1>2, <2>1, <3>2, <3>3, SaneBySweep
  <2> QED
    BY <1>5, <2>2, <2>3 DEF SweepClaim
<1>6. CASE SweepSend(w)
  BY <1>2, <1>6, RowDoneIsSane, SaneBySweep DEF SweepSend, stripeVars
<1>7. ASSUME NEW c \in Times, SweepWithdraw(w, c) PROVE Sane'
  <2>1. UNCHANGED <<events, now, handler>>
    BY <1>7 DEF SweepWithdraw, stripeVars
  <2>2. org'.failedAt = org.failedAt /\ org'.status = org.status
    BY <1>7 DEF SweepWithdraw, TypeOK, OrgRows
  <2>3. /\ sweep'[w].at = "lapse" /\ sweep'[w].cycle = c
        /\ sweep'[w].org = sweep[w].org /\ sweep'[w].now = sweep[w].now
        /\ \A v \in Sweeps \ {w} : sweep'[v] = sweep[v]
    BY <1>1, <1>7 DEF SweepWithdraw, SweepRecords
  <2>4. SweepSane(w)' /\ FromEvents(org)'
    BY <1>1, <2>1, <2>2, <2>3 DEF SweepSane, FromEvents
  <2> QED
    BY <2>1, <2>3, <2>4, SaneBySweep
<1>8. CASE MarkCycleLapsed(w)
  BY <1>2, <1>8, RowDoneIsSane, SaneBySweep DEF MarkCycleLapsed, stripeVars
<1>9. CASE SweepDies(w)
  BY <1>1, <1>2, <1>9, FreeSweepIsSane, SaneBySweep DEF SweepDies, stripeVars
<1>10. CASE SweepItemFails(w)
  BY <1>2, <1>10, RowDoneIsSane, SaneBySweep DEF SweepItemFails, stripeVars
<1> QED
  BY <1>3, <1>4, <1>5, <1>6, <1>7, <1>8, <1>9, <1>10 DEF SweepStep

LEMMA SaneStep == TypeOK /\ Sane /\ [Next]_vars => Sane'
<1> SUFFICES ASSUME TypeOK, Sane, [Next]_vars PROVE Sane'
  OBVIOUS
<1>1. CASE Stripe
  BY <1>1, StripeSends, SaneWhenSent DEF Sends
<1>2. CASE Tick
  BY <1>2, SaneWhenSent DEF Tick
<1>3. CASE UNCHANGED vars
  BY <1>3, SaneWhenSent DEF vars
<1> QED
  BY <1>1, <1>2, <1>3, HandlerSaneStep, SweepSaneStep DEF Next

LEMMA InitialSane == Init => Sane
<1> SUFFICES ASSUME Init PROVE Sane
  OBVIOUS
<1>1. FromEvents(NewOrg)
  BY DEF FromEvents, NewOrg, Ended
<1>2. \A s \in Existing : FromEvents(OldOrg(s))
  BY DEF FromEvents, OldOrg, NewOrg, Ended
<1>3. FromEvents(org)
  BY <1>1, <1>2 DEF Init
<1>4. \A h \in Handlers : HandlerSane(h)
  BY DEF Init, HandlerSane, Free
<1>5. \A w \in Sweeps : SweepSane(w)
  BY <1>1 DEF Init, SweepSane, NoSweep
<1> QED
  BY <1>3, <1>4, <1>5 DEF Sane

-----------------------------------------------------------------------------
(***************************************************************************)
(* The watermark.                                                          *)
(***************************************************************************)

LEMMA StillPast ==
    ASSUME TypeOK, Watermark, AppliedOnce, UNCHANGED applied, org'.eventAt = org.eventAt, org'.eventId = org.eventId,
           \A i \in DOMAIN events : i \in DOMAIN events' /\ events'[i] = events[i],
           DOMAIN events' \subseteq Ids
    PROVE  Watermark' /\ AppliedOnce'
<1>1. Watermark'
  BY DEF Watermark, Past
<1>2. AppliedOnce'
  <2> SUFFICES ASSUME NEW i \in DOMAIN events', applied[i] > 1
               PROVE  \E j \in DOMAIN events' : j # i /\ events'[j].at = events'[i].at
    BY DEF AppliedOnce
  <2>1. i \in Ids /\ applied[i] \in Nat
    BY DEF TypeOK
  <2>2. i \in DOMAIN events
    BY <2>1 DEF Watermark
  <2> QED
    BY <2>2 DEF AppliedOnce
<1> QED
  BY <1>1, <1>2

\* The write of an event.  Had it written before, and no other event of its
\* time were there, the watermark would hold it off.
LEMMA WrittenIsPast ==
    ASSUME TypeOK, Watermark, AppliedOnce, UNCHANGED events, NEW k \in DOMAIN events, Newer(org, k),
           org'.eventAt = events[k].at, org'.eventId = k, applied' = [applied EXCEPT ![k] = @ + 1]
    PROVE  Watermark' /\ AppliedOnce'
<1>1. k \in Ids /\ applied \in [Ids -> Nat] /\ org.eventAt \in Nat /\ \A i \in DOMAIN events : events[i].at \in Nat /\ i \in Ids
  BY SentIsARecord DEF TypeOK, OrgRows, EventRecords, Times
<1>2. /\ applied'[k] = applied[k] + 1
      /\ \A i \in Ids \ {k} : applied'[i] = applied[i]
  BY <1>1
<1>3. org.eventAt <= events[k].at
  BY <1>1 DEF Newer
<1>4. ASSUME NEW i \in Ids, applied'[i] > 0 PROVE i \in DOMAIN events' /\ Past(i)'
  <2>1. CASE i = k
    BY <2>1 DEF Past
  <2>2. CASE i # k
    <3>1. i \in DOMAIN events /\ Past(i)
      BY <1>2, <1>4, <2>2 DEF Watermark
    <3>2. CASE org.eventAt > events[i].at
      BY <1>1, <1>3, <3>1, <3>2 DEF Past
    <3>3. CASE org.eventAt = events[i].at
      <4>1. CASE events[k].at = events[i].at
        BY <2>2, <3>1, <4>1 DEF Past
      <4>2. CASE events[k].at > events[i].at
        BY <3>1, <4>2 DEF Past
      <4> QED
        BY <1>1, <1>3, <3>1, <3>3, <4>1, <4>2
    <3>4. CASE \E j \in DOMAIN events : j # i /\ events[j].at = events[i].at
      BY <3>1, <3>4 DEF Past
    <3> QED
      BY <3>1, <3>2, <3>3, <3>4 DEF Past
  <2> QED
    BY <2>1, <2>2
<1>5. ASSUME NEW i \in DOMAIN events, applied'[i] > 1 PROVE \E j \in DOMAIN events : j # i /\ events[j].at = events[i].at
  <2>1. CASE i = k
    <3>1. Past(k)
      BY <1>1, <1>2, <1>5, <2>1 DEF Watermark
    <3> QED
      BY <1>1, <2>1, <3>1 DEF Past, Newer
  <2>2. CASE i # k
    BY <1>1, <1>2, <1>5, <2>2 DEF AppliedOnce
  <2> QED
    BY <2>1, <2>2
<1> QED
  BY <1>4, <1>5 DEF Watermark, AppliedOnce

\* The steps that write no event.
Unwritten == UNCHANGED applied /\ org'.eventAt = org.eventAt /\ org'.eventId = org.eventId

LEMMA HandlerWatermark ==
    ASSUME TypeOK, Sane, Watermark, AppliedOnce, NEW h \in Handlers,
           HandlerStep(h) \/ Fail(h) \/ ErrorSwallowed(h) \/ Crash(h) \/ \E i \in Ids : Deliver(h, i)
    PROVE  Watermark' /\ AppliedOnce'
<1>1. UNCHANGED events /\ Unwritten => Watermark' /\ AppliedOnce'
  BY StillPast, SentIsARecord DEF Unwritten
<1>2. handler[h].at # "idle" => handler[h].id \in DOMAIN events /\ handler[h].id \in Ids
  BY SentIsARecord DEF Sane, HandlerSane
<1>3. CASE Sync(h)
  <2>1. CASE Newer(org, handler[h].id)
    <3>1. org' = Synced(org, handler[h].id, handler[h].tier)
      BY <1>3, <2>1 DEF Sync
    <3>2. org'.eventAt = events[handler[h].id].at /\ org'.eventId = handler[h].id
      BY <3>1 DEF Synced, Stamped, TypeOK, OrgRows
    <3> QED
      BY <1>2, <1>3, <2>1, <3>2, WrittenIsPast DEF Sync, stripeVars
  <2>2. CASE ~Newer(org, handler[h].id)
    BY <1>1, <1>3, <2>2 DEF Sync, Unwritten, stripeVars
  <2> QED
    BY <2>1, <2>2
<1>4. CASE StampFailure(h)
  <2> DEFINE row == [Stamped(org, handler[h].id) EXCEPT !.failedAt = IF @ = 0 THEN EventOf(h).at ELSE @]
  <2>1. CASE org' = row /\ Newer(org, handler[h].id) /\ applied' = [applied EXCEPT ![handler[h].id] = @ + 1]
    <3>1. org'.eventAt = events[handler[h].id].at /\ org'.eventId = handler[h].id
      BY <2>1 DEF Stamped, TypeOK, OrgRows
    <3> QED
      BY <1>2, <1>4, <2>1, <3>1, WrittenIsPast DEF StampFailure, stripeVars
  <2>2. CASE UNCHANGED <<org, applied>>
    BY <1>1, <1>4, <2>2 DEF StampFailure, Unwritten, stripeVars
  <2> QED
    BY <1>4, <2>1, <2>2 DEF StampFailure
<1>5. CASE RecordTrial(h)
  BY <1>1, <1>5 DEF RecordTrial, Unwritten, TypeOK, OrgRows, stripeVars, ghosts
<1>6. ASSUME NEW s \in Subs, CancelPriorBriefSubscriptions(h, s) PROVE Watermark' /\ AppliedOnce'
  <2>1. Sends /\ Unwritten
    BY <1>6, CancellationSends DEF Unwritten, ghosts
  <2>2. DOMAIN events' \subseteq Ids
    BY <2>1, BoundAssumption DEF Sends, Ids
  <2> QED
    BY <2>1, <2>2, StillPast DEF Sends, Unwritten
<1>7. CASE Read(h) \/ MarkCyclesRecovered(h) \/ MarkCyclesLapsed(h) \/ CheckoutDone(h)
  BY <1>1, <1>7 DEF Read, MarkCyclesRecovered, MarkCyclesLapsed, CheckoutDone, Unwritten, stripeVars, ghosts
<1>8. CASE OpenDunningCycle(h) \/ ClaimNotice(h) \/ SendNotice(h)
  BY <1>1, <1>8 DEF OpenDunningCycle, ClaimNotice, SendNotice, Unwritten, stripeVars, ghosts
<1>9. CASE Fail(h) \/ ErrorSwallowed(h) \/ Crash(h)
  BY <1>1, <1>9 DEF Fail, ErrorSwallowed, Crash, Unwritten, stripeVars
<1>10. ASSUME NEW i \in Ids, Deliver(h, i) PROVE Watermark' /\ AppliedOnce'
  BY <1>1, <1>10 DEF Deliver, Unwritten, stripeVars, ghosts
<1> QED
  BY <1>3, <1>4, <1>5, <1>6, <1>7, <1>8, <1>9, <1>10 DEF HandlerStep, Follow

LEMMA WatermarkStep ==
    TypeOK /\ Sane /\ Watermark /\ AppliedOnce /\ [Next]_vars => Watermark' /\ AppliedOnce'
<1> SUFFICES ASSUME TypeOK, Sane, Watermark, AppliedOnce, [Next]_vars PROVE Watermark' /\ AppliedOnce'
  OBVIOUS
<1>1. UNCHANGED events /\ Unwritten => Watermark' /\ AppliedOnce'
  BY StillPast, SentIsARecord DEF Unwritten
<1>2. CASE Stripe
  <2>1. Sends /\ Unwritten
    BY <1>2, StripeSends DEF Unwritten, ghosts
  <2>2. DOMAIN events' \subseteq Ids
    BY <2>1, BoundAssumption DEF Sends, Ids
  <2> QED
    BY <2>1, <2>2, StillPast DEF Sends, Unwritten
<1>3. CASE Tick
  BY <1>1, <1>3 DEF Tick, Unwritten, ghosts
<1>4. ASSUME NEW w \in Sweeps, SweepStep(w) \/ SweepItemFails(w) \/ SweepDies(w) PROVE Watermark' /\ AppliedOnce'
  <2>1. CASE \E c \in Times : SweepWithdraw(w, c)
    BY <1>1, <2>1 DEF SweepWithdraw, Unwritten, TypeOK, OrgRows, stripeVars, ghosts
  <2>2. CASE SweepSelect(w) \/ SweepSend(w) \/ MarkCycleLapsed(w) \/ SweepItemFails(w) \/ SweepDies(w)
    BY <1>1, <2>2 DEF SweepSelect, SweepSend, MarkCycleLapsed, SweepItemFails, SweepDies, Unwritten, stripeVars, ghosts
  <2>3. CASE \E c \in Times : SweepOrphan(w, c) \/ SweepClaim(w, c)
    BY <1>1, <2>3 DEF SweepOrphan, SweepClaim, Unwritten, stripeVars, ghosts
  <2> QED
    BY <1>4, <2>1, <2>2, <2>3 DEF SweepStep
<1>5. CASE UNCHANGED vars
  BY <1>1, <1>5 DEF vars, Unwritten
<1> QED
  BY <1>2, <1>3, <1>4, <1>5, HandlerWatermark DEF Next

-----------------------------------------------------------------------------
(***************************************************************************)
(* The notices.                                                            *)
(***************************************************************************)

\* A claim is not taken back, and only the cycle of a delinquency is claimed.
CyclesGrow ==
    \A c \in Times : /\ cycles[c].opened => cycles'[c].opened
                     /\ cycles[c].notified \subseteq cycles'[c].notified
                     /\ cycles'[c].notified # {} => cycles'[c].opened

LEMMA CyclesStay == Opened /\ UNCHANGED cycles => CyclesGrow
BY DEF Opened, CyclesGrow

LEMMA CyclesClosed ==
    ASSUME TypeOK, Opened, NEW c \in Times,
           \/ cycles' = [cycles EXCEPT ![c].recovered = TRUE]
           \/ cycles' = [cycles EXCEPT ![c].lapsed = TRUE]
    PROVE  CyclesGrow
<1>1. cycles \in [Times -> CycleRows]
  BY DEF TypeOK
<1>2. ASSUME NEW d \in Times PROVE cycles'[d].opened = cycles[d].opened /\ cycles'[d].notified = cycles[d].notified
  BY <1>1 DEF CycleRows
<1> QED
  BY <1>2 DEF Opened, CyclesGrow

LEMMA CycleClaimed ==
    ASSUME TypeOK, Opened, NEW c \in Times, NEW stage, cycles[c].opened, ClaimStage(c, stage)
    PROVE  CyclesGrow /\ stage \in cycles'[c].notified
<1>1. cycles \in [Times -> CycleRows]
  BY DEF TypeOK
<1>2. ASSUME NEW d \in Times
      PROVE  cycles'[d].opened = cycles[d].opened
             /\ cycles'[d].notified = (IF d = c THEN cycles[d].notified \cup {stage} ELSE cycles[d].notified)
  BY <1>1 DEF CycleRows, ClaimStage
<1> QED
  BY <1>2 DEF Opened, CyclesGrow

\* Nobody sets out to send a notice.
HandlersQuiet ==
    \A h \in Handlers : handler'[h].at \in {"notify", "send"} =>
        handler'[h].at = handler[h].at /\ handler'[h].cycle = handler[h].cycle

SweepsQuiet ==
    \A w \in Sweeps :
        /\ sweep'[w].rows \subseteq sweep[w].rows
        /\ Sweeping(w)' => Sweeping(w) /\ sweep'[w].cycle = sweep[w].cycle /\ sweep'[w].stage = sweep[w].stage

LEMMA OpenedKept ==
    ASSUME TypeOK, Sane, Opened, CyclesGrow,
           \A h \in Handlers : handler'[h].at \in {"notify", "send"} =>
               \/ cycles'[handler'[h].cycle].opened
               \/ handler[h].at \in {"notify", "send"} /\ handler'[h].cycle = handler[h].cycle,
           \A w \in Sweeps : \A c \in sweep'[w].rows : cycles'[c].opened \/ c \in sweep[w].rows
    PROVE  Opened'
<1>1. \A h \in Handlers : handler[h].at \in {"notify", "send"} => handler[h].cycle \in Times
  BY DEF Sane, HandlerSane
<1>2. \A w \in Sweeps : sweep[w].rows \subseteq Times
  BY DEF TypeOK, SweepRecords
<1>3. ASSUME NEW h \in Handlers, handler'[h].at \in {"notify", "send"} PROVE cycles'[handler'[h].cycle].opened
  BY <1>1, <1>3 DEF Opened, CyclesGrow
<1>4. ASSUME NEW w \in Sweeps, NEW c \in sweep'[w].rows PROVE cycles'[c].opened
  BY <1>2, <1>4 DEF Opened, CyclesGrow
<1> QED
  BY <1>3, <1>4 DEF Opened, CyclesGrow

LEMMA NoticesKept ==
    ASSUME TypeOK, Sane, Notices, CyclesGrow, UNCHANGED mails,
           \A h \in Handlers : Sending(h)' => Sending(h) /\ handler'[h].cycle = handler[h].cycle,
           \A w \in Sweeps : Sweeping(w)' =>
               Sweeping(w) /\ sweep'[w].cycle = sweep[w].cycle /\ sweep'[w].stage = sweep[w].stage
    PROVE  Notices'
<1>1. \A h \in Handlers : Sending(h) => handler[h].cycle \in Times
  BY DEF Sane, HandlerSane, Sending
<1>2. \A w \in Sweeps : Sweeping(w) => sweep[w].cycle \in Times
  BY DEF Sane, SweepSane, Sweeping
<1>3. \A c \in Times, s \in Stages : mails'[c][s] <= 1 /\ (mails'[c][s] # 0 => s \in cycles'[c].notified)
  BY DEF Notices, CyclesGrow
<1>4. ASSUME NEW h \in Handlers, Sending(h)'
      PROVE  /\ 0 \in cycles'[handler'[h].cycle].notified /\ mails'[handler'[h].cycle][0] = 0
             /\ \A g \in Handlers : Sending(g)' /\ handler'[g].cycle = handler'[h].cycle => g = h
  BY <1>1, <1>4 DEF Notices, CyclesGrow
<1>5. ASSUME NEW w \in Sweeps, Sweeping(w)'
      PROVE  /\ sweep'[w].stage \in cycles'[sweep'[w].cycle].notified /\ mails'[sweep'[w].cycle][sweep'[w].stage] = 0
             /\ \A v \in Sweeps : Sweeping(v)' /\ sweep'[v].cycle = sweep'[w].cycle /\ sweep'[v].stage = sweep'[w].stage => v = w
  BY <1>2, <1>5 DEF Notices, CyclesGrow
<1> QED
  BY <1>3, <1>4, <1>5 DEF Notices

LEMMA Quietly ==
    ASSUME TypeOK, Sane, Opened, Notices, CyclesGrow, HandlersQuiet, SweepsQuiet, UNCHANGED mails
    PROVE  Opened' /\ Notices'
<1>1. Opened'
  BY OpenedKept DEF HandlersQuiet, SweepsQuiet
<1>2. Notices'
  <2>1. \A h \in Handlers : Sending(h)' => Sending(h) /\ handler'[h].cycle = handler[h].cycle
    BY DEF HandlersQuiet, Sending
  <2> QED
    BY <2>1, NoticesKept DEF SweepsQuiet
<1> QED
  BY <1>1, <1>2

LEMMA SweepsStay == UNCHANGED sweep => SweepsQuiet
BY DEF SweepsQuiet, Sweeping

LEMMA HandlersStay == UNCHANGED handler => HandlersQuiet
BY DEF HandlersQuiet

LEMMA FreeIsQuiet ==
    ASSUME TypeOK, NEW h \in Handlers, handler' = [handler EXCEPT ![h] = Free]
    PROVE  HandlersQuiet
BY DEF TypeOK, HandlersQuiet, Free

LEMMA FollowIsQuiet ==
    ASSUME TypeOK, NEW h \in Handlers, At(h, "follow")
    PROVE  HandlersQuiet
<1>1. handler \in [Handlers -> HandlerRecords] /\ handler[h] \in HandlerRecords
  BY DEF TypeOK
<1>2. handler'[h].at = "follow" /\ \A g \in Handlers \ {h} : handler'[g] = handler[g]
  BY <1>1 DEF At, HandlerRecords
<1> QED
  BY <1>2 DEF HandlersQuiet

LEMMA NextRowIsQuiet ==
    ASSUME TypeOK, NEW w \in Sweeps, NEW c, RowDone(w, c) \/ sweep' = [sweep EXCEPT ![w] = NoSweep]
    PROVE  SweepsQuiet
<1>1. sweep \in [Sweeps -> SweepRecords] /\ sweep[w] \in SweepRecords
  BY DEF TypeOK
<1>2. CASE sweep' = [sweep EXCEPT ![w] = NoSweep]
  <2>1. sweep'[w].at = "idle" /\ sweep'[w].rows = {} /\ \A v \in Sweeps \ {w} : sweep'[v] = sweep[v]
    BY <1>1, <1>2 DEF NoSweep
  <2> QED
    BY <2>1 DEF SweepsQuiet, Sweeping
<1>3. CASE sweep' = [sweep EXCEPT ![w] = [sweep[w] EXCEPT !.at = "rows", !.rows = sweep[w].rows \ {c}, !.cycle = 0, !.stage = 0]]
  <2>1. sweep'[w].at = "rows" /\ sweep'[w].rows = sweep[w].rows \ {c} /\ \A v \in Sweeps \ {w} : sweep'[v] = sweep[v]
    BY <1>1, <1>3 DEF SweepRecords
  <2> QED
    BY <2>1 DEF SweepsQuiet, Sweeping
<1> QED
  BY <1>2, <1>3 DEF RowDone

\* The notice that is sent was not sent before, and nobody else sends it.
LEMMA MailCounts ==
    ASSUME TypeOK, NEW c \in Times, NEW stage \in Stages, mails' = [mails EXCEPT ![c][stage] = @ + 1]
    PROVE  \A d \in Times, s \in Stages :
               mails'[d][s] = IF d = c /\ s = stage THEN mails[c][stage] + 1 ELSE mails[d][s]
BY DEF TypeOK

LEMMA HandlerSends ==
    ASSUME TypeOK, Sane, Opened, Notices, NEW h \in Handlers, SendNotice(h)
    PROVE  Opened' /\ Notices'
<1> DEFINE c == handler[h].cycle
<1>1. /\ Sending(h) /\ c \in Times /\ 0 \in Stages
      /\ mails[c][0] = 0 /\ 0 \in cycles[c].notified
  BY DEF SendNotice, Sane, HandlerSane, Sending, Notices, Stages
<1>2. UNCHANGED <<cycles, sweep>> /\ handler' = [handler EXCEPT ![h] = Free] /\ mails' = [mails EXCEPT ![c][0] = @ + 1]
  BY DEF SendNotice, Answer
<1>3. HandlersQuiet /\ SweepsQuiet /\ CyclesGrow
  BY <1>2, FreeIsQuiet, SweepsStay, CyclesStay
<1>4. \A d \in Times, s \in Stages : mails'[d][s] = IF d = c /\ s = 0 THEN 1 ELSE mails[d][s]
  <2> HIDE DEF c
  <2>1. \A d \in Times, s \in Stages : mails'[d][s] = IF d = c /\ s = 0 THEN mails[c][0] + 1 ELSE mails[d][s]
    BY <1>1, <1>2, MailCounts
  <2> QED
    BY <1>1, <2>1
<1>5. Opened'
  BY <1>3, OpenedKept DEF HandlersQuiet, SweepsQuiet
<1>6. ~Sending(h)' /\ \A g \in Handlers \ {h} : handler'[g] = handler[g]
  BY <1>2 DEF TypeOK, Sending, Free
<1> HIDE DEF c
<1>7. \A d \in Times, s \in Stages : mails'[d][s] <= 1 /\ (mails'[d][s] # 0 => s \in cycles'[d].notified)
  BY <1>1, <1>2, <1>4 DEF Notices
<1>8. ASSUME NEW g \in Handlers, Sending(g)'
      PROVE  /\ 0 \in cycles'[handler'[g].cycle].notified /\ mails'[handler'[g].cycle][0] = 0
             /\ \A f \in Handlers : Sending(f)' /\ handler'[f].cycle = handler'[g].cycle => f = g
  <2>1. g # h /\ Sending(g) /\ handler'[g].cycle = handler[g].cycle /\ handler[g].cycle \in Times
    BY <1>6, <1>8 DEF Sending, Sane, HandlerSane
  <2>2. handler[g].cycle # c
    BY <1>1, <2>1 DEF Notices, c
  <2>3. mails'[handler[g].cycle][0] = mails[handler[g].cycle][0]
    BY <1>1, <1>4, <2>1, <2>2
  <2>4. \A f \in Handlers : Sending(f)' => Sending(f) /\ handler'[f].cycle = handler[f].cycle
    BY <1>6 DEF Sending
  <2> QED
    BY <1>2, <2>1, <2>3, <2>4 DEF Notices
<1>9. ASSUME NEW w \in Sweeps, Sweeping(w)'
      PROVE  /\ sweep'[w].stage \in cycles'[sweep'[w].cycle].notified /\ mails'[sweep'[w].cycle][sweep'[w].stage] = 0
             /\ \A v \in Sweeps : Sweeping(v)' /\ sweep'[v].cycle = sweep'[w].cycle /\ sweep'[v].stage = sweep'[w].stage => v = w
  <2>1. Sweeping(w) /\ sweep[w].cycle \in Times /\ sweep[w].stage \in {7, 14} /\ sweep[w].stage \in Stages
    BY <1>2, <1>9 DEF Sweeping, Sane, SweepSane, Stages
  <2>2. mails'[sweep[w].cycle][sweep[w].stage] = mails[sweep[w].cycle][sweep[w].stage]
    BY <1>4, <2>1
  <2> QED
    BY <1>2, <2>1, <2>2 DEF Notices, Sweeping
<1> QED
  BY <1>5, <1>7, <1>8, <1>9 DEF Notices

LEMMA SweepSends ==
    ASSUME TypeOK, Sane, Opened, Notices, NEW w \in Sweeps, SweepSend(w)
    PROVE  Opened' /\ Notices'
<1> DEFINE c == sweep[w].cycle  stage == sweep[w].stage
<1>1. /\ Sweeping(w) /\ c \in Times /\ stage \in Stages /\ stage # 0
      /\ mails[c][stage] = 0 /\ stage \in cycles[c].notified
  BY DEF SweepSend, Sane, SweepSane, Sweeping, Notices, Stages
<1>2. UNCHANGED <<cycles, handler>> /\ RowDone(w, c) /\ mails' = [mails EXCEPT ![c][stage] = @ + 1]
  BY DEF SweepSend
<1>3. HandlersQuiet /\ SweepsQuiet /\ CyclesGrow
  BY <1>2, HandlersStay, NextRowIsQuiet, CyclesStay
<1>4. \A d \in Times, s \in Stages : mails'[d][s] = IF d = c /\ s = stage THEN 1 ELSE mails[d][s]
  <2> HIDE DEF c, stage
  <2>1. \A d \in Times, s \in Stages : mails'[d][s] = IF d = c /\ s = stage THEN mails[c][stage] + 1 ELSE mails[d][s]
    BY <1>1, <1>2, MailCounts
  <2> QED
    BY <1>1, <2>1
<1>5. Opened'
  BY <1>3, OpenedKept DEF HandlersQuiet, SweepsQuiet
<1>6. ~Sweeping(w)' /\ \A v \in Sweeps \ {w} : sweep'[v] = sweep[v]
  <2>1. sweep \in [Sweeps -> SweepRecords] /\ sweep[w] \in SweepRecords
    BY DEF TypeOK
  <2>2. CASE sweep' = [sweep EXCEPT ![w] = NoSweep]
    BY <2>1, <2>2 DEF Sweeping, NoSweep
  <2>3. CASE sweep' = [sweep EXCEPT ![w] = [sweep[w] EXCEPT !.at = "rows", !.rows = sweep[w].rows \ {c}, !.cycle = 0, !.stage = 0]]
    BY <2>1, <2>3 DEF Sweeping, SweepRecords
  <2> QED
    BY <1>2, <2>2, <2>3 DEF RowDone
<1> HIDE DEF c, stage
<1>7. \A d \in Times, s \in Stages : mails'[d][s] <= 1 /\ (mails'[d][s] # 0 => s \in cycles'[d].notified)
  BY <1>1, <1>2, <1>4 DEF Notices
<1>8. ASSUME NEW v \in Sweeps, Sweeping(v)'
      PROVE  /\ sweep'[v].stage \in cycles'[sweep'[v].cycle].notified /\ mails'[sweep'[v].cycle][sweep'[v].stage] = 0
             /\ \A u \in Sweeps : Sweeping(u)' /\ sweep'[u].cycle = sweep'[v].cycle /\ sweep'[u].stage = sweep'[v].stage => u = v
  <2>1. v # w /\ Sweeping(v) /\ sweep'[v] = sweep[v] /\ sweep[v].cycle \in Times /\ sweep[v].stage \in Stages
    BY <1>6, <1>8 DEF Sweeping, Sane, SweepSane, Stages
  <2>2. ~(sweep[v].cycle = c /\ sweep[v].stage = stage)
    BY <1>1, <2>1 DEF Notices, c, stage
  <2>3. mails'[sweep[v].cycle][sweep[v].stage] = mails[sweep[v].cycle][sweep[v].stage]
    BY <1>1, <1>4, <2>1, <2>2
  <2>4. \A u \in Sweeps : Sweeping(u)' => Sweeping(u) /\ sweep'[u] = sweep[u]
    BY <1>6 DEF Sweeping
  <2> QED
    BY <1>2, <2>1, <2>3, <2>4 DEF Notices
<1>9. ASSUME NEW h \in Handlers, Sending(h)'
      PROVE  /\ 0 \in cycles'[handler'[h].cycle].notified /\ mails'[handler'[h].cycle][0] = 0
             /\ \A g \in Handlers : Sending(g)' /\ handler'[g].cycle = handler'[h].cycle => g = h
  <2>1. Sending(h) /\ handler[h].cycle \in Times /\ 0 \in Stages
    BY <1>2, <1>9 DEF Sending, Sane, HandlerSane, Stages
  <2>2. mails'[handler[h].cycle][0] = mails[handler[h].cycle][0]
    BY <1>1, <1>4, <2>1
  <2> QED
    BY <1>2, <2>1, <2>2 DEF Notices, Sending
<1> QED
  BY <1>5, <1>7, <1>8, <1>9 DEF Notices

\* Whoever claims a notice finds it neither sent nor on its way.
LEMMA HandlerClaims ==
    ASSUME TypeOK, Sane, Opened, Notices, NEW h \in Handlers, ClaimNotice(h)
    PROVE  Opened' /\ Notices'
<1> DEFINE c == handler[h].cycle
<1>1. /\ c \in Times /\ cycles[c].opened /\ 0 \in Stages /\ UNCHANGED <<sweep, mails>>
      /\ handler \in [Handlers -> HandlerRecords] /\ handler[h] \in HandlerRecords
  BY DEF ClaimNotice, Sane, HandlerSane, Opened, Stages, TypeOK
<1>2. CASE Answer(h) /\ UNCHANGED cycles
  BY <1>1, <1>2, FreeIsQuiet, SweepsStay, CyclesStay, Quietly DEF Answer
<1>3. CASE MayClaim(c, 0) /\ ClaimStage(c, 0) /\ At(h, "send")
  <2>1. /\ handler'[h].at = "send" /\ handler'[h].cycle = c
        /\ \A g \in Handlers \ {h} : handler'[g] = handler[g]
    BY <1>1, <1>3 DEF At, HandlerRecords
  <2> HIDE DEF c
  <2>2. CyclesGrow /\ 0 \in cycles'[c].notified
    BY <1>1, <1>3, CycleClaimed
  <2>3. Opened'
    BY <1>1, <2>1, <2>2, OpenedKept DEF CyclesGrow
  <2>4. mails[c][0] = 0 /\ \A g \in Handlers : Sending(g) => handler[g].cycle # c
    BY <1>1, <1>3 DEF MayClaim, Notices
  <2>5. \A d \in Times, s \in Stages : mails'[d][s] <= 1 /\ (mails'[d][s] # 0 => s \in cycles'[d].notified)
    BY <1>1, <2>2 DEF Notices, CyclesGrow
  <2>6. ASSUME NEW g \in Handlers, Sending(g)'
        PROVE  /\ 0 \in cycles'[handler'[g].cycle].notified /\ mails'[handler'[g].cycle][0] = 0
               /\ \A f \in Handlers : Sending(f)' /\ handler'[f].cycle = handler'[g].cycle => f = g
    <3>1. \A f \in Handlers \ {h} : Sending(f)' => Sending(f) /\ handler'[f].cycle = handler[f].cycle
      BY <2>1 DEF Sending
    <3>2. CASE g = h
      BY <1>1, <2>1, <2>2, <2>4, <3>1, <3>2
    <3>3. CASE g # h
      <4>1. Sending(g) /\ handler[g].cycle \in Times /\ handler'[g].cycle = handler[g].cycle
        BY <2>6, <3>1, <3>3 DEF Sending, Sane, HandlerSane
      <4> QED
        BY <1>1, <2>1, <2>2, <2>4, <3>1, <3>3, <4>1 DEF Notices, CyclesGrow
    <3> QED
      BY <3>2, <3>3
  <2>7. ASSUME NEW w \in Sweeps, Sweeping(w)'
        PROVE  /\ sweep'[w].stage \in cycles'[sweep'[w].cycle].notified /\ mails'[sweep'[w].cycle][sweep'[w].stage] = 0
               /\ \A v \in Sweeps : Sweeping(v)' /\ sweep'[v].cycle = sweep'[w].cycle /\ sweep'[v].stage = sweep'[w].stage => v = w
    <3>1. Sweeping(w) /\ sweep[w].cycle \in Times
      BY <1>1, <2>7 DEF Sweeping, Sane, SweepSane
    <3> QED
      BY <1>1, <2>2, <3>1 DEF Notices, Sweeping, CyclesGrow
  <2> QED
    BY <2>3, <2>5, <2>6, <2>7 DEF Notices
<1> QED
  BY <1>2, <1>3 DEF ClaimNotice

LEMMA SweepClaims ==
    ASSUME TypeOK, Sane, Opened, Notices, NEW w \in Sweeps, NEW c \in Times, SweepClaim(w, c)
    PROVE  Opened' /\ Notices'
<1> DEFINE stage == StageDue(w, c)
<1>1. /\ cycles[c].opened /\ stage \in Stages /\ UNCHANGED <<handler, mails>>
      /\ sweep \in [Sweeps -> SweepRecords] /\ sweep[w] \in SweepRecords
  BY StageIsAStage DEF SweepClaim, AtRow, Opened, TypeOK
<1>2. CASE RowDone(w, c) /\ UNCHANGED cycles
  BY <1>1, <1>2, HandlersStay, NextRowIsQuiet, CyclesStay, Quietly
<1>3. CASE /\ stage # 0 /\ MayClaim(c, stage) /\ ClaimStage(c, stage)
           /\ sweep' = [sweep EXCEPT ![w].at = "send", ![w].cycle = c, ![w].stage = stage]
  <2> HIDE DEF stage
  <2>1. /\ sweep'[w].at = "send" /\ sweep'[w].cycle = c /\ sweep'[w].stage = stage /\ sweep'[w].rows = sweep[w].rows
        /\ \A v \in Sweeps \ {w} : sweep'[v] = sweep[v]
    BY <1>1, <1>3 DEF SweepRecords
  <2>2. CyclesGrow /\ stage \in cycles'[c].notified
    BY <1>1, <1>3, CycleClaimed
  <2>3. Opened'
    BY <1>1, <2>1, <2>2, OpenedKept
  <2>4. mails[c][stage] = 0 /\ \A v \in Sweeps : Sweeping(v) => ~(sweep[v].cycle = c /\ sweep[v].stage = stage)
    BY <1>1, <1>3 DEF MayClaim, Notices
  <2>5. \A d \in Times, s \in Stages : mails'[d][s] <= 1 /\ (mails'[d][s] # 0 => s \in cycles'[d].notified)
    BY <1>1, <2>2 DEF Notices, CyclesGrow
  <2>6. ASSUME NEW v \in Sweeps, Sweeping(v)'
        PROVE  /\ sweep'[v].stage \in cycles'[sweep'[v].cycle].notified /\ mails'[sweep'[v].cycle][sweep'[v].stage] = 0
               /\ \A u \in Sweeps : Sweeping(u)' /\ sweep'[u].cycle = sweep'[v].cycle /\ sweep'[u].stage = sweep'[v].stage => u = v
    <3>1. \A u \in Sweeps \ {w} : Sweeping(u)' => Sweeping(u) /\ sweep'[u] = sweep[u]
      BY <2>1 DEF Sweeping
    <3>2. CASE v = w
      BY <1>1, <2>1, <2>2, <2>4, <3>1, <3>2
    <3>3. CASE v # w
      <4>1. Sweeping(v) /\ sweep[v].cycle \in Times /\ sweep'[v] = sweep[v]
        BY <2>6, <3>1, <3>3 DEF Sweeping, Sane, SweepSane
      <4> QED
        BY <1>1, <2>1, <2>2, <2>4, <3>1, <3>3, <4>1 DEF Notices, CyclesGrow
    <3> QED
      BY <3>2, <3>3
  <2>7. ASSUME NEW h \in Handlers, Sending(h)'
        PROVE  /\ 0 \in cycles'[handler'[h].cycle].notified /\ mails'[handler'[h].cycle][0] = 0
               /\ \A g \in Handlers : Sending(g)' /\ handler'[g].cycle = handler'[h].cycle => g = h
    <3>1. Sending(h) /\ handler[h].cycle \in Times
      BY <1>1, <2>7 DEF Sending, Sane, HandlerSane
    <3> QED
      BY <1>1, <2>2, <3>1 DEF Notices, Sending, CyclesGrow
  <2> QED
    BY <2>3, <2>5, <2>6, <2>7 DEF Notices
<1> QED
  BY <1>2, <1>3 DEF SweepClaim

LEMMA HandlerNoticesStep ==
    ASSUME TypeOK, Sane, Opened, Notices, NEW h \in Handlers,
           HandlerStep(h) \/ Fail(h) \/ ErrorSwallowed(h) \/ Crash(h) \/ \E i \in Ids : Deliver(h, i)
    PROVE  Opened' /\ Notices'
<1>1. handler \in [Handlers -> HandlerRecords] /\ handler[h] \in HandlerRecords
  BY DEF TypeOK
<1>2. UNCHANGED cycles => CyclesGrow
  BY CyclesStay
<1>3. UNCHANGED sweep => SweepsQuiet
  BY SweepsStay
<1>4. Answer(h) => HandlersQuiet
  BY FreeIsQuiet DEF Answer
<1>5. ASSUME NEW i \in Ids, Deliver(h, i) PROVE Opened' /\ Notices'
  <2>1. HandlersQuiet
    <3> DEFINE place == CASE events[i].kind = "failed" -> "stamp"
                          [] events[i].kind \in {"paid", "deleted"} -> "read"
                          [] OTHER -> "sync"
    <3>1. place \in {"stamp", "read", "sync"}
      BY <1>5, SentIsARecord DEF Deliver, EventRecords
    <3>2. UNCHANGED handler \/ handler' = [handler EXCEPT ![h] = [Free EXCEPT !.id = i, !.tier = TierOf[events[i].sub], !.at = place]]
      BY <1>5 DEF Deliver
    <3> HIDE DEF place
    <3>3. UNCHANGED handler \/ (handler'[h].at = place /\ \A g \in Handlers \ {h} : handler'[g] = handler[g])
      BY <1>1, <3>2 DEF Free
    <3> QED
      BY <3>1, <3>3 DEF HandlersQuiet
  <2> QED
    BY <1>2, <1>3, <1>5, <2>1, Quietly DEF Deliver
<1>6. CASE Read(h)
  <2>1. CASE ~Ignored(h)
    <3>1. handler'[h].at = "sync" /\ \A g \in Handlers \ {h} : handler'[g] = handler[g]
      BY <1>1, <1>6, <2>1 DEF Read, HandlerRecords
    <3>2. HandlersQuiet
      BY <3>1 DEF HandlersQuiet
    <3> QED
      BY <1>2, <1>3, <1>6, <3>2, Quietly DEF Read
  <2> QED
    BY <1>2, <1>3, <1>4, <1>6, <2>1, Quietly DEF Read
<1>7. CASE Sync(h)
  BY <1>2, <1>3, <1>4, <1>7, FollowIsQuiet, Quietly DEF Sync
<1>8. CASE MarkCyclesRecovered(h)
  <2>1. \A c \in Times : cycles'[c].opened = cycles[c].opened /\ cycles'[c].notified = cycles[c].notified
    BY <1>8 DEF MarkCyclesRecovered, TypeOK, CycleRows
  <2> QED
    BY <1>3, <1>4, <1>8, <2>1, Quietly DEF MarkCyclesRecovered, CyclesGrow, Opened
<1>9. CASE MarkCyclesLapsed(h)
  <2>1. \A c \in Times : cycles'[c].opened = cycles[c].opened /\ cycles'[c].notified = cycles[c].notified
    BY <1>9 DEF MarkCyclesLapsed, TypeOK, CycleRows
  <2> QED
    BY <1>3, <1>4, <1>9, <2>1, Quietly DEF MarkCyclesLapsed, CyclesGrow, Opened
<1>10. CASE RecordTrial(h) \/ CheckoutDone(h)
  BY <1>2, <1>3, <1>4, <1>10, Quietly DEF RecordTrial, CheckoutDone
<1>11. ASSUME NEW s \in Subs, CancelPriorBriefSubscriptions(h, s) PROVE Opened' /\ Notices'
  BY <1>2, <1>3, <1>11, HandlersStay, Quietly DEF CancelPriorBriefSubscriptions
<1>12. CASE StampFailure(h)
  <2> DEFINE row == [Stamped(org, handler[h].id) EXCEPT !.failedAt = IF @ = 0 THEN EventOf(h).at ELSE @]
  <2>1. CASE handler' = [handler EXCEPT ![h].at = "open", ![h].cycle = row.failedAt]
    <3> HIDE DEF row
    <3>1. handler'[h].at = "open" /\ \A g \in Handlers \ {h} : handler'[g] = handler[g]
      BY <1>1, <2>1 DEF HandlerRecords
    <3>2. HandlersQuiet
      BY <3>1 DEF HandlersQuiet
    <3> QED
      BY <1>2, <1>3, <1>12, <3>2, Quietly DEF StampFailure
  <2>2. CASE Answer(h)
    BY <1>2, <1>3, <1>4, <1>12, <2>2, Quietly DEF StampFailure
  <2> QED
    BY <1>12, <2>1, <2>2 DEF StampFailure
<1>13. CASE OpenDunningCycle(h)
  <2> DEFINE c == handler[h].cycle
  <2>1. c \in Times /\ UNCHANGED <<sweep, mails>>
    BY <1>13 DEF OpenDunningCycle, Sane, HandlerSane
  <2>2. CASE Answer(h) /\ UNCHANGED cycles
    BY <1>2, <1>3, <1>4, <2>1, <2>2, Quietly
  <2>3. CASE /\ ~cycles[c].opened /\ At(h, "notify")
             /\ cycles' = [cycles EXCEPT ![c] = [NoCycle EXCEPT !.opened = TRUE, !.sub = EventOf(h).sub]]
    <3>1. /\ handler'[h].at = "notify" /\ handler'[h].cycle = c
          /\ \A g \in Handlers \ {h} : handler'[g] = handler[g]
      BY <1>1, <2>3 DEF At, HandlerRecords
    <3> HIDE DEF c
    <3>2. cycles'[c].opened /\ cycles'[c].notified = {} /\ \A d \in Times \ {c} : cycles'[d] = cycles[d]
      BY <2>1, <2>3 DEF TypeOK, NoCycle
    <3>3. cycles[c].notified = {}
      BY <2>1, <2>3 DEF Opened
    <3>4. CyclesGrow
      BY <3>2, <3>3 DEF CyclesGrow, Opened
    <3>5. Opened'
      BY <2>1, <3>1, <3>2, <3>4, OpenedKept
    <3>6. Notices'
      BY <2>1, <3>1, <3>4, NoticesKept DEF Sending, Sweeping
    <3> QED
      BY <3>5, <3>6
  <2> QED
    BY <1>13, <2>2, <2>3 DEF OpenDunningCycle
<1>14. CASE ClaimNotice(h)
  BY <1>14, HandlerClaims
<1>15. CASE SendNotice(h)
  BY <1>15, HandlerSends
<1>16. CASE Fail(h) \/ Crash(h)
  BY <1>2, <1>3, <1>16, FreeIsQuiet, Quietly DEF Fail, Crash
<1>17. CASE ErrorSwallowed(h)
  BY <1>2, <1>3, <1>4, <1>17, FollowIsQuiet, Quietly DEF ErrorSwallowed
<1> QED
  BY <1>5, <1>6, <1>7, <1>8, <1>9, <1>10, <1>11, <1>12, <1>13, <1>14, <1>15, <1>16, <1>17 DEF HandlerStep, Follow

LEMMA SweepNoticesStep ==
    ASSUME TypeOK, Sane, Opened, Notices, NEW w \in Sweeps, SweepStep(w) \/ SweepItemFails(w) \/ SweepDies(w)
    PROVE  Opened' /\ Notices'
<1>1. UNCHANGED handler => HandlersQuiet
  BY HandlersStay
<1>2. UNCHANGED cycles => CyclesGrow
  BY CyclesStay
<1>3. CASE SweepSelect(w)
  <2>1. /\ sweep'[w].at = "rows" /\ sweep'[w].rows = {c \in Times : IsOpen(c)}
        /\ \A v \in Sweeps \ {w} : sweep'[v] = sweep[v]
    BY <1>3 DEF SweepSelect, NoSweep, TypeOK
  <2>2. UNCHANGED <<cycles, handler, mails>>
    BY <1>3 DEF SweepSelect
  <2>3. Opened'
    BY <1>2, <2>1, <2>2, OpenedKept DEF IsOpen
  <2>4. Notices'
    BY <1>2, <2>1, <2>2, NoticesKept DEF Sending, Sweeping
  <2> QED
    BY <2>3, <2>4
<1>4. ASSUME NEW c \in Times, SweepOrphan(w, c) PROVE Opened' /\ Notices'
  BY <1>1, <1>4, CyclesClosed, NextRowIsQuiet, Quietly DEF SweepOrphan
<1>5. ASSUME NEW c \in Times, SweepClaim(w, c) PROVE Opened' /\ Notices'
  BY <1>5, SweepClaims
<1>6. CASE SweepSend(w)
  BY <1>6, SweepSends
<1>7. ASSUME NEW c \in Times, SweepWithdraw(w, c) PROVE Opened' /\ Notices'
  <2>1. sweep'[w].at = "lapse" /\ sweep'[w].rows = sweep[w].rows /\ \A v \in Sweeps \ {w} : sweep'[v] = sweep[v]
    BY <1>7 DEF SweepWithdraw, TypeOK, SweepRecords
  <2>2. SweepsQuiet
    BY <2>1 DEF SweepsQuiet, Sweeping
  <2> QED
    BY <1>1, <1>2, <1>7, <2>2, Quietly DEF SweepWithdraw
<1>8. CASE MarkCycleLapsed(w)
  <2>1. CyclesGrow
    <3>1. sweep[w].cycle \in Times
      BY <1>8 DEF MarkCycleLapsed, Sane, SweepSane
    <3> QED
      BY <1>2, <1>8, <3>1, CyclesClosed DEF MarkCycleLapsed
  <2> QED
    BY <1>1, <1>8, <2>1, NextRowIsQuiet, Quietly DEF MarkCycleLapsed
<1>9. CASE SweepDies(w)
  BY <1>1, <1>2, <1>9, NextRowIsQuiet, Quietly DEF SweepDies
<1>10. CASE SweepItemFails(w)
  BY <1>1, <1>2, <1>10, NextRowIsQuiet, Quietly DEF SweepItemFails
<1> QED
  BY <1>3, <1>4, <1>5, <1>6, <1>7, <1>8, <1>9, <1>10 DEF SweepStep

LEMMA NoticesStep == TypeOK /\ Sane /\ Opened /\ Notices /\ [Next]_vars => Opened' /\ Notices'
<1> SUFFICES ASSUME TypeOK, Sane, Opened, Notices, [Next]_vars PROVE Opened' /\ Notices'
  OBVIOUS
<1>1. UNCHANGED <<cycles, handler, sweep, mails>> => Opened' /\ Notices'
  BY CyclesStay, HandlersStay, SweepsStay, Quietly
<1>2. CASE Stripe
  BY <1>1, <1>2, StripeSends
<1>3. CASE Tick \/ UNCHANGED vars
  BY <1>1, <1>3 DEF Tick, vars
<1> QED
  BY <1>2, <1>3, HandlerNoticesStep, SweepNoticesStep DEF Next

-----------------------------------------------------------------------------
(***************************************************************************)
(* The invariant, and what follows from it.                                *)
(***************************************************************************)

LEMMA InitialInvariant == Init => IInv
<1> SUFFICES ASSUME Init PROVE IInv
  OBVIOUS
<1>1. TypeOK /\ Sane
  BY InitialType, InitialSane
<1>2. Watermark /\ AppliedOnce
  BY DEF Init, Watermark, AppliedOnce
<1>3. Opened
  BY DEF Init, Opened, NoCycle, Free, NoSweep
<1>4. Notices
  BY DEF Init, Notices, Sending, Sweeping, Free, NoSweep
<1> QED
  BY <1>1, <1>2, <1>3, <1>4 DEF IInv

\* The invariant: types, what the handlers know of their events, the watermark,
\* and the claims of the notices.
THEOREM BillingInvariant == Spec => []IInv
<1>1. IInv /\ [Next]_vars => IInv'
  BY TypeStep, SaneStep, WatermarkStep, NoticesStep DEF IInv
<1> QED
  BY <1>1, InitialInvariant, PTL DEF Spec

\* Every variable keeps its type: no column of the organization, no claim and
\* no sweep is ever outside what the schema allows.
THEOREM BillingTypeCorrect == Spec => []TypeOK
<1>1. IInv => TypeOK
  BY DEF IInv
<1> QED
  BY <1>1, BillingInvariant, PTL

\* No event writes the organization twice, but for another of its second.
THEOREM AppliedOnceTheorem == Spec => []AppliedOnce
<1>1. IInv => AppliedOnce
  BY DEF IInv
<1> QED
  BY <1>1, BillingInvariant, PTL

\* No notice of a delinquency is sent twice.
THEOREM NoticesOnceTheorem == Spec => []NoticesOnce
<1>1. IInv => NoticesOnce
  BY DEF IInv, Notices, NoticesOnce
<1> QED
  BY <1>1, BillingInvariant, PTL

-----------------------------------------------------------------------------
(***************************************************************************)
(* The bookkeeping implements the ledger.                                  *)
(***************************************************************************)

LEMMA LedgerInit == Init => Ledger!Init
<1> SUFFICES ASSUME Init PROVE Ledger!Init
  OBVIOUS
<1>1. NewOrg.level = "starter" /\ NewOrg.failedAt = 0 /\ NewOrg.eventAt = 0
  BY DEF NewOrg
<1>2. \A s \in Existing : OldOrg(s).level \in {"professional", "premium"} /\ OldOrg(s).failedAt = 0 /\ OldOrg(s).eventAt = 0
  BY DEF OldOrg, NewOrg, Level
<1>3. org.level \in {"starter", "professional", "premium"} /\ org.failedAt = 0 /\ org.eventAt = 0
  BY <1>1, <1>2 DEF Init
<1> QED
  BY <1>3 DEF Init, Ledger!Init, Ledger!Levels, Ledger!PaidLevels

\* What a write of the row amounts to.
LEMMA WriteIsWrite ==
    ASSUME TypeOK, NEW k \in DOMAIN events, Newer(org, k), UNCHANGED <<events, now>>, org'.eventAt = events[k].at,
           \/ /\ Grants(events[k]) \/ events[k].kind = "paid"
              /\ org'.level \in {"professional", "premium"} /\ org'.failedAt = 0
           \/ Revokes(events[k]) /\ org'.level = "starter" /\ org'.failedAt = org.failedAt
           \/ /\ events[k].kind = "failed" /\ org'.level = org.level
              /\ org'.failedAt = IF org.failedAt = 0 THEN events[k].at ELSE org.failedAt
    PROVE  Ledger!Next
<1>1. org.eventAt <= events[k].at
  BY SentIsARecord DEF Newer, TypeOK, OrgRows, EventRecords, Times
<1>2. CASE /\ Grants(events[k]) \/ events[k].kind = "paid"
           /\ org'.level \in {"professional", "premium"} /\ org'.failedAt = 0
  BY <1>1, <1>2 DEF Grants, Ledger!Next, Ledger!Write, Ledger!Granted, Ledger!PaidLevels
<1>3. CASE Revokes(events[k]) /\ org'.level = "starter" /\ org'.failedAt = org.failedAt
  BY <1>1, <1>3, GraceAssumption DEF Revokes, Ended, Ledger!Next, Ledger!Write, Ledger!Revoked
<1>4. CASE /\ events[k].kind = "failed" /\ org'.level = org.level
           /\ org'.failedAt = IF org.failedAt = 0 THEN events[k].at ELSE org.failedAt
  BY <1>1, <1>4 DEF Ledger!Next, Ledger!Write, Ledger!Failed
<1> QED
  BY <1>2, <1>3, <1>4

LEMMA HandlerLedger ==
    ASSUME TypeOK, Sane, NEW h \in Handlers,
           HandlerStep(h) \/ Fail(h) \/ ErrorSwallowed(h) \/ Crash(h) \/ \E i \in Ids : Deliver(h, i)
    PROVE  [Ledger!Next]_(Ledger!vars)
<1>1. UNCHANGED <<events, now, org>> => UNCHANGED Ledger!vars
  BY DEF Ledger!vars
<1>2. HandlerSane(h)
  BY DEF Sane
<1>3. CASE Sync(h)
  <2>1. handler[h].id \in DOMAIN events /\ UNCHANGED <<events, now>>
    BY <1>2, <1>3 DEF Sync, HandlerSane, stripeVars
  <2>2. Grants(EventOf(h)) \/ Revokes(EventOf(h)) \/ EventOf(h).kind = "paid"
    BY <1>2, <1>3 DEF Sync, HandlerSane
  <2>3. CASE Newer(org, handler[h].id)
    <3>1. org' = Synced(org, handler[h].id, handler[h].tier)
      BY <1>3, <2>3 DEF Sync
    <3>2. /\ org'.eventAt = EventOf(h).at
          /\ org'.level = IF Revokes(EventOf(h)) THEN "starter" ELSE Level(handler[h].tier)
          /\ org'.failedAt = IF Revokes(EventOf(h)) THEN org.failedAt ELSE 0
      BY <3>1 DEF Synced, Stamped, EventOf, TypeOK, OrgRows
    <3>3. CASE Revokes(EventOf(h))
      BY <2>1, <2>3, <3>2, <3>3, WriteIsWrite DEF EventOf
    <3>4. CASE ~Revokes(EventOf(h))
      BY <2>1, <2>2, <2>3, <3>2, <3>4, WriteIsWrite DEF EventOf, Level
    <3> QED
      BY <3>3, <3>4
  <2>4. CASE ~Newer(org, handler[h].id)
    BY <1>1, <1>3, <2>1, <2>4 DEF Sync
  <2> QED
    BY <2>3, <2>4
<1>4. CASE StampFailure(h)
  <2>1. handler[h].id \in DOMAIN events /\ UNCHANGED <<events, now>> /\ EventOf(h).kind = "failed"
    BY <1>2, <1>4 DEF StampFailure, HandlerSane, stripeVars
  <2> DEFINE row == [Stamped(org, handler[h].id) EXCEPT !.failedAt = IF @ = 0 THEN EventOf(h).at ELSE @]
  <2>2. CASE org' = row /\ Newer(org, handler[h].id)
    <3>1. /\ org'.eventAt = EventOf(h).at /\ org'.level = org.level
          /\ org'.failedAt = IF org.failedAt = 0 THEN EventOf(h).at ELSE org.failedAt
      BY <2>2 DEF Stamped, EventOf, TypeOK, OrgRows
    <3> QED
      BY <2>1, <2>2, <3>1, WriteIsWrite DEF EventOf
  <2>3. CASE UNCHANGED org
    BY <1>1, <2>1, <2>3
  <2> QED
    BY <1>4, <2>2, <2>3 DEF StampFailure
<1>5. CASE RecordTrial(h)
  <2>1. org'.level = org.level /\ org'.failedAt = org.failedAt /\ org'.eventAt = org.eventAt
    BY <1>5 DEF RecordTrial, TypeOK, OrgRows
  <2> QED
    BY <1>5, <2>1 DEF RecordTrial, stripeVars, Ledger!vars
<1>6. ASSUME NEW s \in Subs, CancelPriorBriefSubscriptions(h, s) PROVE Ledger!Send
  BY <1>6, CancellationSends DEF Sends, Ledger!Send
<1>7. CASE Read(h) \/ MarkCyclesRecovered(h) \/ MarkCyclesLapsed(h) \/ CheckoutDone(h)
  BY <1>1, <1>7 DEF Read, MarkCyclesRecovered, MarkCyclesLapsed, CheckoutDone, stripeVars
<1>8. CASE OpenDunningCycle(h) \/ ClaimNotice(h) \/ SendNotice(h)
  BY <1>1, <1>8 DEF OpenDunningCycle, ClaimNotice, SendNotice, stripeVars
<1>9. CASE Fail(h) \/ ErrorSwallowed(h) \/ Crash(h)
  BY <1>1, <1>9 DEF Fail, ErrorSwallowed, Crash, stripeVars
<1>10. ASSUME NEW i \in Ids, Deliver(h, i) PROVE UNCHANGED Ledger!vars
  BY <1>1, <1>10 DEF Deliver, stripeVars
<1> QED
  BY <1>3, <1>4, <1>5, <1>6, <1>7, <1>8, <1>9, <1>10 DEF HandlerStep, Follow, Ledger!Next

\* Access is withdrawn after a failed payment, of those sent, that is over: the
\* row is as old as the sweep's SELECT, but what it says happened has happened.
LEMMA WithdrawIsWithdraw ==
    ASSUME TypeOK, Sane, NEW w \in Sweeps, NEW c \in Times, SweepWithdraw(w, c)
    PROVE  Ledger!Withdraw
<1> DEFINE row == sweep[w].org  time == sweep[w].now
<1>1. /\ FromEvents(row) /\ time <= now /\ GraceState(row, time) = "lapsed"
      /\ row.failedAt \in Nat /\ time \in Nat /\ now \in Nat /\ GraceDays \in Nat
  BY DaysAssumption DEF Sane, SweepSane, SweepWithdraw, AtRow, TypeOK, SweepRecords, OrgRows, Times
<1>2. UNCHANGED <<events, now>> /\ org'.level = "starter" /\ org'.failedAt = org.failedAt /\ org'.eventAt = org.eventAt
  BY DEF SweepWithdraw, TypeOK, OrgRows, stripeVars
<1> HIDE DEF row, time
<1>3. row.failedAt # 0 /\ (row.status \in Ended \/ row.failedAt + GraceDays <= time)
  BY <1>1 DEF GraceState
<1>4. PICK i \in DOMAIN events : events[i].kind = "failed" /\ events[i].at = row.failedAt
  BY <1>1, <1>3 DEF FromEvents
<1>5. Ledger!Over(events[i])
  <2>1. CASE row.status \in Ended
    BY <1>1, <1>4, <2>1 DEF FromEvents, Ended, Ledger!Over
  <2>2. CASE row.failedAt + GraceDays <= time
    BY <1>1, <1>4, <2>2 DEF Ledger!Over
  <2> QED
    BY <1>3, <2>1, <2>2
<1> QED
  BY <1>2, <1>5 DEF Ledger!Withdraw

LEMMA LedgerStep == IInv /\ [Next]_vars => [Ledger!Next]_(Ledger!vars)
<1> SUFFICES ASSUME TypeOK, Sane, [Next]_vars PROVE [Ledger!Next]_(Ledger!vars)
  BY DEF IInv
<1>1. CASE Stripe
  BY <1>1, StripeSends DEF Sends, Ledger!Next, Ledger!Send
<1>2. CASE Tick
  BY <1>2 DEF Tick, Ledger!Next, Ledger!Send
<1>3. ASSUME NEW w \in Sweeps, SweepStep(w) \/ SweepItemFails(w) \/ SweepDies(w) PROVE [Ledger!Next]_(Ledger!vars)
  <2>1. CASE \E c \in Times : SweepWithdraw(w, c)
    BY <2>1, WithdrawIsWithdraw DEF Ledger!Next
  <2>2. CASE SweepSelect(w) \/ SweepSend(w) \/ MarkCycleLapsed(w) \/ SweepItemFails(w) \/ SweepDies(w)
    BY <2>2 DEF SweepSelect, SweepSend, MarkCycleLapsed, SweepItemFails, SweepDies, stripeVars, Ledger!vars
  <2>3. CASE \E c \in Times : SweepOrphan(w, c) \/ SweepClaim(w, c)
    BY <2>3 DEF SweepOrphan, SweepClaim, stripeVars, Ledger!vars
  <2> QED
    BY <1>3, <2>1, <2>2, <2>3 DEF SweepStep
<1>4. CASE UNCHANGED vars
  BY <1>4 DEF vars, Ledger!vars
<1> QED
  BY <1>1, <1>2, <1>3, <1>4, HandlerLedger DEF Next

\* Whatever the order and the number of the deliveries, the row is written by
\* events that were sent and are not older than those written before, and access
\* is withdrawn only after a delinquency that is over.
THEOREM RefinementTheorem == Spec => FollowsLedger
<1>1. Init => Ledger!Init
  BY LedgerInit
<1>2. IInv /\ [Next]_vars => [Ledger!Next]_(Ledger!vars)
  BY LedgerStep
<1> QED
  BY <1>1, <1>2, BillingInvariant, PTL DEF Spec, FollowsLedger, Ledger!Spec
-----------------------------------------------------------------------------
(***************************************************************************)
(* The settled row.                                                        *)
(***************************************************************************)

\* Without the grace period a sweep finds nothing to do.
SweepsRest == ~Grace => \A w \in Sweeps : sweep[w].at = "idle" /\ sweep[w].rows = {}

\* An event in hand is claimed, and by one handler; what has been answered is
\* still claimed, unless something was lost.
Claimed ==
    /\ processed \subseteq DOMAIN events
    /\ \A h \in Handlers : handler[h].at # "idle" => handler[h].id \in processed
    /\ \A g, h \in Handlers :
            handler[g].at # "idle" /\ handler[h].at # "idle" /\ handler[g].id = handler[h].id => g = h
    /\ \A h \in Handlers :
            handler[h].at \in {"read", "sync"} /\ Known(EventOf(h).sub) => handler[h].tier = TierOf[EventOf(h).sub]
    /\ lost = {} => acked \subseteq processed

\* Nothing newer has been sent than event i, and what it says of its subscription.
Newest(i) == \A j \in DOMAIN events : events[j].at <= events[i].at

Says(e, status) ==
    /\ status \in {"trialing", "active"} =>
            e.kind \in {"created", "checkout", "paid"} \/ (e.kind = "updated" /\ e.status \in {"trialing", "active"})
    /\ status \in Ended      => e.kind = "deleted" \/ (e.kind = "updated" /\ e.status = "unpaid")
    /\ status = "past_due"   => e.kind = "failed" \/ (e.kind = "updated" /\ e.status = "past_due")

\* The events are about subscription s, and the newest of them tell its state.
Told(s) ==
    /\ \A i \in DOMAIN events :
          /\ events[i].sub = s /\ events[i].at < now /\ subscriptions[s] # "none"
          /\ events[i].status = "canceled" => subscriptions[s] = "canceled"
          /\ Newest(i) => Says(events[i], subscriptions[s])
    /\ subscriptions[s] = "past_due" => \E i \in DOMAIN events : Newest(i) /\ events[i].kind = "failed"
    /\ events = <<>> => subscriptions[s] \in {"none", "active"}
    /\ events # <<>> => \E i \in DOMAIN events : Newest(i)

\* The access that goes with the state of the subscription.
Entitled(s) ==
    /\ subscriptions[s] \in {"trialing", "active"} => org.level = Level(TierOf[s]) /\ org.failedAt = 0
    /\ subscriptions[s] \in Ended => org.level = "starter"

\* The row is right as soon as one of the newest events has written it.
RowFollows(s) ==
    /\ org.sub \in {NoSub, s} /\ org.eventAt < now
    /\ events = <<>> => Entitled(s)
    /\ \A i \in DOMAIN events : Newest(i) =>
          /\ org.eventAt <= events[i].at
          /\ org.eventAt = events[i].at =>
                Entitled(s) /\ (org.eventId = i /\ events[i].kind = "failed" => org.failedAt # 0)

\* If i is one of the newest, it has been taken into account.
Done(i) == Newest(i) => org.eventAt = events[i].at /\ (events[i].kind = "failed" => org.failedAt # 0)

\* The handler of an event has its write before it.
Pending(h) == handler[h].at \in {"read", "sync", "stamp"}

Handled == lost = {} => \A i \in processed : Done(i) \/ \E h \in Handlers : handler[h].id = i /\ Pending(h)

Truth(s) == ~Grace /\ Only(s) /\ Known(s) => Told(s) /\ RowFollows(s) /\ Handled

SettledInv == SweepsRest /\ Claimed /\ \A s \in Subs : Truth(s)

\* What was sent is kept; a handler's step keeps the event in hand, or lets it go.
EventsKept == \A i \in DOMAIN events : i \in DOMAIN events' /\ events'[i] = events[i]

Handles(h) ==
    /\ handler[h].at # "idle"
    /\ \A g \in Handlers \ {h} : handler'[g] = handler[g]
    /\ \/ handler'[h].at = "idle"
       \/ /\ handler'[h].at # "idle" /\ handler'[h].id = handler[h].id
          /\ handler'[h].at \in {"read", "sync"} =>
                handler[h].at = "read" /\ (Known(EventOf(h).sub) => handler'[h].tier = handler[h].tier)
    /\ acked' \in {acked, acked \cup {handler[h].id}}
    /\ lost' = {} => lost = {}
    /\ \/ processed' = processed
       \/ /\ processed' = processed \ {handler[h].id} /\ handler'[h].at = "idle" /\ acked' = acked
          /\ lost' = {} => handler[h].id \notin acked

LEMMA HandlersLeave ==
    ASSUME NEW h \in Handlers,
           HandlerStep(h) \/ Fail(h) \/ ErrorSwallowed(h) \/ Crash(h) \/ \E i \in Ids : Deliver(h, i)
    PROVE  UNCHANGED sweep /\ (UNCHANGED stripeVars \/ \E s \in Subs : CancelPriorBriefSubscriptions(h, s))
<1>1. CASE \E i \in Ids : Deliver(h, i)
  BY <1>1 DEF Deliver
<1>2. CASE Read(h) \/ Sync(h) \/ StampFailure(h) \/ OpenDunningCycle(h) \/ ClaimNotice(h) \/ SendNotice(h)
  BY <1>2 DEF Read, Sync, StampFailure, OpenDunningCycle, ClaimNotice, SendNotice
<1>3. CASE Follow(h)
  BY <1>3 DEF Follow, MarkCyclesRecovered, MarkCyclesLapsed, RecordTrial, CheckoutDone, CancelPriorBriefSubscriptions
<1>4. CASE Fail(h) \/ ErrorSwallowed(h) \/ Crash(h)
  BY <1>4 DEF Fail, ErrorSwallowed, Crash
<1> QED
  BY <1>1, <1>2, <1>3, <1>4 DEF HandlerStep

LEMMA SweepsRestStep ==
    ASSUME TypeOK, SweepsRest, [Next]_vars
    PROVE  /\ SweepsRest'
           /\ ~Grace => \A w \in Sweeps : ~(SweepStep(w) \/ SweepItemFails(w) \/ SweepDies(w))
<1>1. ASSUME ~Grace, NEW w \in Sweeps PROVE ~(SweepStep(w) \/ SweepItemFails(w) \/ SweepDies(w))
  BY <1>1 DEF SweepsRest, SweepStep, SweepSelect, SweepSend, MarkCycleLapsed, SweepOrphan, SweepClaim, SweepWithdraw,
              AtRow, SweepItemFails, SweepDies
<1>2. ~Grace => UNCHANGED sweep
  BY <1>1, HandlersLeave, StripeSends DEF Next, Tick, vars
<1> QED
  BY <1>1, <1>2 DEF SweepsRest

\* Everything a handler does but the claim.
LEMMA HandlerHandles ==
    ASSUME TypeOK, NEW h \in Handlers, HandlerStep(h) \/ Fail(h) \/ ErrorSwallowed(h) \/ Crash(h)
    PROVE  Handles(h)
<1>1. handler \in [Handlers -> HandlerRecords] /\ handler[h] \in HandlerRecords
  BY DEF TypeOK
<1>2. ASSUME handler[h].at # "idle", Answer(h), processed' = processed, lost' = {} => lost = {} PROVE Handles(h)
  BY <1>1, <1>2 DEF Answer, Free, Handles
<1>3. ASSUME handler[h].at # "idle", NEW place \in {"follow", "open", "notify", "send"}, At(h, place),
             processed' = processed, lost' = {} => lost = {}
      PROVE  Handles(h)
  BY <1>1, <1>3 DEF At, HandlerRecords, Handles
<1>4. CASE Read(h)
  <2>1. CASE Answer(h)
    BY <1>2, <1>4, <2>1 DEF Read, ghosts
  <2>2. CASE ~Ignored(h)
    <3> DEFINE tier == IF Known(EventOf(h).sub) THEN handler[h].tier ELSE org.tier
    <3>1. handler' = [handler EXCEPT ![h].at = "sync", ![h].tier = tier]
      BY <1>1, <1>4, <2>2 DEF Read
    <3>2. Known(EventOf(h).sub) => tier = handler[h].tier
      OBVIOUS
    <3> HIDE DEF tier
    <3>3. /\ handler'[h].at = "sync" /\ handler'[h].id = handler[h].id /\ handler'[h].tier = tier
          /\ \A g \in Handlers \ {h} : handler'[g] = handler[g]
      BY <1>1, <3>1 DEF HandlerRecords
    <3>4. acked' = acked /\ processed' = processed /\ lost' = lost /\ handler[h].at = "read"
      BY <1>4, <2>2 DEF Read, ghosts
    <3> QED
      BY <3>2, <3>3, <3>4 DEF Handles
  <2> QED
    BY <1>4, <2>1, <2>2 DEF Read
<1>5. CASE Sync(h)
  BY <1>2, <1>3, <1>5 DEF Sync
<1>6. CASE StampFailure(h)
  <2>1. CASE Answer(h)
    BY <1>2, <1>6, <2>1 DEF StampFailure
  <2>2. CASE ~(org.sub \in {NoSub, EventOf(h).sub} /\ Newer(org, handler[h].id))
    BY <1>6, <2>1, <2>2 DEF StampFailure
  <2>3. CASE org.sub \in {NoSub, EventOf(h).sub} /\ Newer(org, handler[h].id)
    <3>1. PICK cycle : handler' = [handler EXCEPT ![h].at = "open", ![h].cycle = cycle]
      BY <1>6, <2>3 DEF StampFailure
    <3>2. /\ handler'[h].at = "open" /\ handler'[h].id = handler[h].id
          /\ \A g \in Handlers \ {h} : handler'[g] = handler[g]
      BY <1>1, <3>1 DEF HandlerRecords
    <3>3. acked' = acked /\ processed' = processed /\ lost' = lost /\ handler[h].at = "stamp"
      BY <1>6, <2>3 DEF StampFailure
    <3> QED
      BY <3>2, <3>3 DEF Handles
  <2> QED
    BY <2>2, <2>3
<1>7. CASE OpenDunningCycle(h) \/ ClaimNotice(h) \/ SendNotice(h)
  BY <1>2, <1>3, <1>7 DEF OpenDunningCycle, ClaimNotice, SendNotice, ghosts
<1>8. CASE MarkCyclesRecovered(h) \/ MarkCyclesLapsed(h) \/ RecordTrial(h) \/ CheckoutDone(h)
  BY <1>2, <1>8 DEF MarkCyclesRecovered, MarkCyclesLapsed, RecordTrial, CheckoutDone, Follows, ghosts
<1>9. CASE \E s \in Subs : CancelPriorBriefSubscriptions(h, s)
  BY <1>9 DEF CancelPriorBriefSubscriptions, Follows, Handles, ghosts
<1>10. CASE Fail(h)
  BY <1>1, <1>10 DEF Fail, Free, Handles
<1>11. CASE ErrorSwallowed(h)
  <2>1. lost' = {} => lost = {}
    BY <1>11 DEF ErrorSwallowed
  <2> QED
    BY <1>2, <1>3, <1>11, <2>1 DEF ErrorSwallowed
<1>12. CASE Crash(h)
  <2>1. lost' = {} => lost = {}
    BY <1>12 DEF Crash
  <2> QED
    BY <1>1, <1>12, <2>1 DEF Crash, Free, Handles
<1> QED
  BY <1>4, <1>5, <1>6, <1>7, <1>8, <1>9, <1>10, <1>11, <1>12 DEF HandlerStep, Follow

LEMMA ClaimedByHandler ==
    ASSUME TypeOK, Claimed, EventsKept, NEW h \in Handlers, Handles(h)
    PROVE  Claimed'
<1>1. handler[h].id \in processed /\ handler[h].id \in DOMAIN events
  BY DEF Claimed, Handles
<1>2. processed' \subseteq processed /\ processed' \subseteq DOMAIN events'
  BY DEF Handles, Claimed, EventsKept
<1>3. ASSUME NEW g \in Handlers, handler'[g].at # "idle"
      PROVE  handler[g].at # "idle" /\ handler'[g].id = handler[g].id
  BY <1>3 DEF Handles
<1>4. ASSUME NEW g \in Handlers, handler'[g].at # "idle" PROVE handler'[g].id \in processed'
  <2>1. handler[g].at # "idle" /\ handler'[g].id = handler[g].id /\ handler[g].id \in processed
    BY <1>3, <1>4 DEF Claimed
  <2>2. CASE processed' = processed
    BY <2>1, <2>2
  <2>3. CASE processed' = processed \ {handler[h].id} /\ handler'[h].at = "idle"
    <3>1. g # h
      BY <1>4, <2>3
    <3>2. handler[g].id # handler[h].id
      BY <2>1, <3>1 DEF Claimed, Handles
    <3> QED
      BY <2>1, <2>3, <3>2
  <2> QED
    BY <2>2, <2>3 DEF Handles
<1>5. ASSUME NEW g \in Handlers, NEW k \in Handlers, handler'[g].at # "idle", handler'[k].at # "idle",
             handler'[g].id = handler'[k].id
      PROVE  g = k
  BY <1>3, <1>5 DEF Claimed
<1>6. ASSUME NEW g \in Handlers, handler'[g].at \in {"read", "sync"}, Known((EventOf(g)').sub)
      PROVE  handler'[g].tier = TierOf[(EventOf(g)').sub]
  <2>1. handler[g].at # "idle" /\ handler'[g].id = handler[g].id
    BY <1>3, <1>6
  <2>2. handler[g].id \in DOMAIN events
    BY <2>1 DEF Claimed
  <2>3. EventOf(g)' = EventOf(g)
    BY <2>1, <2>2 DEF EventOf, EventsKept
  <2>4. handler[g].at \in {"read", "sync"} /\ handler'[g].tier = handler[g].tier
    BY <1>6, <2>3 DEF Handles
  <2> QED
    BY <1>6, <2>3, <2>4 DEF Claimed
<1>7. lost' = {} => acked' \subseteq processed'
  BY <1>1 DEF Handles, Claimed
<1> QED
  BY <1>2, <1>4, <1>5, <1>6, <1>7 DEF Claimed

\* The claim: the event was not claimed, so nobody has it in hand.
LEMMA ClaimedByDelivery ==
    ASSUME TypeOK, Claimed, NEW h \in Handlers, NEW i \in Ids, Deliver(h, i)
    PROVE  /\ Claimed'
           /\ handler[h].at = "idle" /\ \A g \in Handlers \ {h} : handler'[g] = handler[g]
           /\ i \in DOMAIN events /\ processed' = processed \cup {i} /\ UNCHANGED <<org, stripeVars, lost>>
           /\ \/ i \in processed /\ UNCHANGED handler
              \/ /\ events[i].kind \in {"checkout", "created", "updated"} /\ ~Grants(events[i]) /\ ~Revokes(events[i])
                 /\ UNCHANGED handler
              \/ handler'[h].id = i /\ Pending(h)'
<1>1. handler \in [Handlers -> HandlerRecords] /\ handler[h] \in HandlerRecords
  BY DEF TypeOK
<1>2. handler[h].at = "idle" /\ i \in DOMAIN events /\ processed' = processed \cup {i} /\ UNCHANGED <<org, stripeVars, lost>>
  BY DEF Deliver, ghosts
<1>3. CASE UNCHANGED handler /\ acked' = acked \cup {i}
  <2>1. Claimed'
    BY <1>2, <1>3 DEF Claimed, EventOf, stripeVars
  <2>2. handler[h].at = "idle"
    BY <1>2
  <2>3. ~(i \in processed \/ (events[i].kind \in {"checkout", "created", "updated"} /\ ~Grants(events[i]) /\ ~Revokes(events[i])))
            => handler'[h].at # "idle"
    <3> DEFINE place == CASE events[i].kind = "failed" -> "stamp"
                          [] events[i].kind \in {"paid", "deleted"} -> "read"
                          [] OTHER -> "sync"
    <3>1. place # "idle"
      OBVIOUS
    <3>2. ~(i \in processed \/ (events[i].kind \in {"checkout", "created", "updated"} /\ ~Grants(events[i]) /\ ~Revokes(events[i])))
            => handler' = [handler EXCEPT ![h] = [Free EXCEPT !.id = i, !.tier = TierOf[events[i].sub], !.at = place]]
      BY DEF Deliver
    <3> HIDE DEF place
    <3> QED
      BY <1>1, <3>1, <3>2 DEF Free
  <2> QED
    BY <1>2, <1>3, <2>1, <2>3
<1>4. CASE /\ i \notin processed /\ UNCHANGED acked
           /\ handler' = [handler EXCEPT ![h] =
                    [Free EXCEPT !.id = i, !.tier = TierOf[events[i].sub],
                                 !.at = CASE events[i].kind = "failed"            -> "stamp"
                                          [] events[i].kind \in {"paid", "deleted"} -> "read"
                                          [] OTHER                                -> "sync"]]
  <2> DEFINE place == CASE events[i].kind = "failed" -> "stamp"
                        [] events[i].kind \in {"paid", "deleted"} -> "read"
                        [] OTHER -> "sync"
  <2>1. place \in {"read", "sync", "stamp"}
    OBVIOUS
  <2>2. handler' = [handler EXCEPT ![h] = [Free EXCEPT !.id = i, !.tier = TierOf[events[i].sub], !.at = place]]
    BY <1>4
  <2> HIDE DEF place
  <2>3. /\ handler'[h].at = place /\ handler'[h].id = i /\ handler'[h].tier = TierOf[events[i].sub]
        /\ \A g \in Handlers \ {h} : handler'[g] = handler[g]
    BY <1>1, <2>2 DEF Free
  <2>4. \A g \in Handlers \ {h} : handler[g].at # "idle" => handler[g].id # i /\ handler[g].id \in processed
    BY <1>4 DEF Claimed
  <2>5. EventOf(h)' = events[i] /\ \A g \in Handlers \ {h} : EventOf(g)' = EventOf(g)
    BY <1>2, <2>3 DEF EventOf, stripeVars
  <2>6. Claimed'
    <3>1. \A g \in Handlers : handler'[g].at \in {"read", "sync"} /\ Known((EventOf(g)').sub)
                                 => handler'[g].tier = TierOf[(EventOf(g)').sub]
      BY <2>3, <2>5 DEF Claimed
    <3>2. processed' \subseteq DOMAIN events'
      BY <1>2 DEF Claimed, stripeVars
    <3>3. /\ \A g \in Handlers : handler'[g].at # "idle" => handler'[g].id \in processed'
          /\ \A g, k \in Handlers : handler'[g].at # "idle" /\ handler'[k].at # "idle" /\ handler'[g].id = handler'[k].id => g = k
      BY <1>2, <2>3, <2>4 DEF Claimed
    <3>4. lost' = {} => acked' \subseteq processed'
      BY <1>2, <1>4 DEF Claimed
    <3> QED
      BY <3>1, <3>2, <3>3, <3>4 DEF Claimed
  <2> QED
    BY <1>2, <2>1, <2>3, <2>6 DEF Pending
<1> QED
  BY <1>3, <1>4 DEF Deliver

LEMMA ClaimedStep ==
    ASSUME TypeOK, Claimed, [Next]_vars
    PROVE  Claimed'
<1>1. ASSUME EventsKept, UNCHANGED <<processed, handler, acked, lost>> PROVE Claimed'
  <2>1. \A h \in Handlers : handler[h].at # "idle" => EventOf(h)' = EventOf(h)
    BY <1>1 DEF Claimed, EventOf, EventsKept
  <2> QED
    BY <1>1, <2>1 DEF Claimed, EventsKept
<1>2. CASE Stripe
  BY <1>1, <1>2, StripeSends DEF Sends, EventsKept, ghosts
<1>3. CASE Tick \/ UNCHANGED vars
  BY <1>1, <1>3 DEF Tick, vars, EventsKept, ghosts
<1>4. ASSUME NEW h \in Handlers, HandlerStep(h) \/ Fail(h) \/ ErrorSwallowed(h) \/ Crash(h) PROVE Claimed'
  <2>1. EventsKept
    BY <1>4, HandlersLeave, CancellationSends DEF Sends, EventsKept, stripeVars
  <2> QED
    BY <1>4, <2>1, HandlerHandles, ClaimedByHandler
<1>5. ASSUME NEW h \in Handlers, NEW i \in Ids, Deliver(h, i) PROVE Claimed'
  BY <1>5, ClaimedByDelivery
<1>6. ASSUME NEW w \in Sweeps, SweepStep(w) \/ SweepItemFails(w) \/ SweepDies(w) PROVE Claimed'
  <2>1. UNCHANGED <<events, processed, handler, acked, lost>>
    BY <1>6 DEF SweepStep, SweepSelect, SweepSend, MarkCycleLapsed, SweepOrphan, SweepClaim, SweepWithdraw,
                SweepItemFails, SweepDies, stripeVars, ghosts
  <2> QED
    BY <1>1, <2>1 DEF EventsKept
<1> QED
  BY <1>2, <1>3, <1>4, <1>5, <1>6 DEF Next

\* A subscription that has begun never returns to "none".
LEMMA OnlyBefore ==
    ASSUME TypeOK, [Next]_vars, NEW s \in Subs, Only(s)'
    PROVE  Only(s)
<1>1. UNCHANGED subscriptions \/ \E r \in Subs, status \in Statuses \ {"none"} : subscriptions' = [subscriptions EXCEPT ![r] = status]
  <2>1. CASE Stripe
    BY <2>1 DEF Stripe, Subscribe, PaymentFails, PaymentSucceeds, RetriesEnd, Cancel, Send, Statuses, Ended
  <2>2. CASE Tick \/ UNCHANGED vars
    BY <2>2 DEF Tick, vars
  <2>3. ASSUME NEW h \in Handlers, NEW r \in Subs, CancelPriorBriefSubscriptions(h, r)
        PROVE  subscriptions' = [subscriptions EXCEPT ![r] = "canceled"] /\ "canceled" \in Statuses \ {"none"}
    BY <2>3 DEF CancelPriorBriefSubscriptions, Statuses, Ended
  <2>4. ASSUME NEW w \in Sweeps, SweepStep(w) \/ SweepItemFails(w) \/ SweepDies(w) PROVE UNCHANGED subscriptions
    BY <2>4 DEF SweepStep, SweepSelect, SweepSend, MarkCycleLapsed, SweepOrphan, SweepClaim, SweepWithdraw,
                SweepItemFails, SweepDies, stripeVars
  <2> QED
    BY <2>1, <2>2, <2>3, <2>4, HandlersLeave DEF Next, stripeVars
<1> QED
  BY <1>1 DEF Only, TypeOK

\* Events that tell of the state that subscription s has from now on.
Sent(s, status, sent) ==
    /\ sent \in Seq(EventRecords) /\ Len(sent) > 0
    /\ \A k \in DOMAIN sent :
          /\ sent[k].sub = s /\ sent[k].at = now /\ Says(sent[k], status)
          /\ sent[k].status = "canceled" => status = "canceled"
    /\ status = "past_due" => \E k \in DOMAIN sent : sent[k].kind = "failed"

\* What the provider sends next is newer than all before.
LEMMA SendTells ==
    ASSUME TypeOK, Claimed, NEW s \in Subs, Told(s), RowFollows(s), Handled,
           NEW status \in Statuses \ {"none"}, NEW sent, Sent(s, status, sent), Send(s, status, sent),
           subscriptions[s] # "canceled"
    PROVE  Told(s)' /\ RowFollows(s)' /\ Handled'
<1> USE DEF Sent
<1>0. PICK n \in Nat : n = Len(events)
  BY DEF TypeOK
<1>1. /\ events \in Seq(EventRecords) /\ now \in Nat /\ now' = now + 1
      /\ events' = events \o sent /\ subscriptions'[s] = status
      /\ UNCHANGED <<org, handler, processed, lost>>
  BY DEF TypeOK, Send, Times, ghosts
<1>2. \A i \in DOMAIN events : i \in DOMAIN events' /\ events'[i] = events[i]
  BY <1>1
<1>3. \A i \in DOMAIN events' \ DOMAIN events : i - n \in DOMAIN sent /\ events'[i] = sent[i - n]
  BY <1>0, <1>1
<1>4. \A k \in DOMAIN sent : n + k \in DOMAIN events' \ DOMAIN events /\ events'[n + k] = sent[k]
  BY <1>0, <1>1
<1>5. 1 \in DOMAIN sent
  OBVIOUS
<1>6. \A i \in DOMAIN events : events[i].at \in Nat /\ events[i].at < now /\ events[i].sub = s /\ events[i].status # "canceled"
  BY SentIsARecord DEF Told, EventRecords, Times
<1>7. \A i \in DOMAIN events' \ DOMAIN events :
          /\ events'[i].at = now /\ events'[i].sub = s /\ Says(events'[i], status)
          /\ events'[i].status = "canceled" => status = "canceled"
  BY <1>3
<1>8. \A i \in DOMAIN events' : Newest(i)' <=> i \notin DOMAIN events
  <2>1. ASSUME NEW i \in DOMAIN events PROVE ~Newest(i)'
    <3>1. n + 1 \in DOMAIN events' /\ events'[n + 1].at = now
      BY <1>4, <1>5, <1>7
    <3>2. ~(events'[n + 1].at <= events'[i].at)
      BY <1>1, <1>2, <1>6, <3>1
    <3> QED
      BY <3>1, <3>2 DEF Newest
  <2>2. ASSUME NEW i \in DOMAIN events' \ DOMAIN events PROVE Newest(i)'
    <3>1. ASSUME NEW j \in DOMAIN events' PROVE events'[j].at <= events'[i].at
      BY <1>1, <1>2, <1>6, <1>7, <3>1
    <3> QED
      BY <3>1 DEF Newest
  <2> QED
    BY <2>1, <2>2
<1>9. Told(s)'
  <2>1. ASSUME NEW i \in DOMAIN events'
        PROVE  /\ events'[i].sub = s /\ events'[i].at < now' /\ status # "none"
               /\ events'[i].status = "canceled" => status = "canceled"
               /\ Newest(i)' => Says(events'[i], status)
    BY <1>1, <1>2, <1>6, <1>7, <1>8, <2>1
  <2>2. status = "past_due" => \E i \in DOMAIN events' : Newest(i)' /\ events'[i].kind = "failed"
    BY <1>4, <1>8
  <2>3. \E i \in DOMAIN events' : Newest(i)'
    BY <1>4, <1>5, <1>8
  <2>4. events' # <<>>
    BY <2>3
  <2> QED
    BY <1>1, <2>1, <2>2, <2>3, <2>4 DEF Told
<1>10. RowFollows(s)'
  <2>1. org.eventAt \in Nat /\ org.eventAt < now /\ org.sub \in {NoSub, s}
    BY DEF RowFollows, TypeOK, OrgRows
  <2>2. ASSUME NEW i \in DOMAIN events', Newest(i)' PROVE org.eventAt < events'[i].at
    BY <1>7, <1>8, <2>1, <2>2
  <2>3. events' # <<>>
    BY <1>4, <1>5
  <2>4. \A i \in DOMAIN events' : events'[i].at \in Nat
    BY <1>1, <1>2, <1>6, <1>7
  <2> QED
    BY <1>1, <2>1, <2>2, <2>3, <2>4 DEF RowFollows
<1>11. Handled'
  <2>1. \A i \in processed : i \in DOMAIN events /\ ~Newest(i)'
    BY <1>2, <1>8 DEF Claimed
  <2> QED
    BY <1>1, <2>1 DEF Handled, Done
<1> QED
  BY <1>9, <1>10, <1>11

LEMMA StripeTells ==
    ASSUME TypeOK, Claimed, NEW s \in Subs, ~Grace, Known(s), Told(s), RowFollows(s), Handled, Only(s), Only(s)', Stripe
    PROVE  Told(s)' /\ RowFollows(s)' /\ Handled'
<1> USE DEF Statuses, Ended
<1>1. now <= LastTime
  BY BoundAssumption, DaysAssumption DEF Stripe, Subscribe, PaymentFails, PaymentSucceeds, RetriesEnd, Cancel, Send, TypeOK, Times
<1>2. PICK r \in Subs : (\E status \in {"trialing", "active"} : Subscribe(r, status))
                        \/ PaymentFails(r) \/ PaymentSucceeds(r) \/ RetriesEnd(r) \/ Cancel(r)
  BY DEF Stripe
<1>3. r = s
  <2>1. subscriptions' # subscriptions => subscriptions'[r] # "none"
    BY <1>2 DEF Subscribe, PaymentFails, PaymentSucceeds, RetriesEnd, Cancel, Send, TypeOK
  <2>2. subscriptions'[r] # "none"
    BY <1>2 DEF Subscribe, PaymentFails, PaymentSucceeds, RetriesEnd, Cancel, Send, TypeOK
  <2> QED
    BY <2>2 DEF Only
<1>4. ASSUME NEW kind \in {"checkout", "created", "updated", "deleted", "failed", "paid"}, NEW status \in Statuses
      PROVE  /\ Event(kind, s, status) \in EventRecords
             /\ Event(kind, s, status).kind = kind /\ Event(kind, s, status).status = status
             /\ Event(kind, s, status).sub = s /\ Event(kind, s, status).at = now
  BY <1>1, EventsAreRecords DEF Event
<1> HIDE DEF Statuses, Ended
<1>5. {"none", "trialing", "active", "past_due", "unpaid", "canceled"} = Statuses /\ Ended = {"unpaid", "canceled"}
  BY DEF Statuses, Ended
<1>6. CASE \E status \in {"trialing", "active"} : Subscribe(r, status)
  <2>1. PICK status \in {"trialing", "active"} : Subscribe(s, status)
    BY <1>3, <1>6
  <2> DEFINE e == Event("created", s, status)  f == Event("checkout", s, "none")
  <2>2. e \in EventRecords /\ e.kind = "created" /\ e.status = status /\ e.sub = s /\ e.at = now
    BY <1>4, <1>5
  <2>3. f \in EventRecords /\ f.kind = "checkout" /\ f.status = "none" /\ f.sub = s /\ f.at = now
    BY <1>4, <1>5
  <2>4. Send(s, status, <<e, f>>) /\ subscriptions[s] = "none"
    BY <2>1 DEF Subscribe
  <2> HIDE DEF e, f
  <2>5. Says(e, status) /\ Says(f, status)
    BY <1>5, <2>2, <2>3 DEF Says
  <2>6. Sent(s, status, <<e, f>>)
    BY <1>5, <2>2, <2>3, <2>5 DEF Sent
  <2> QED
    BY <1>5, <2>4, <2>6, SendTells
<1>7. CASE PaymentFails(r)
  <2> DEFINE e == Event("failed", s, "none")  f == Event("updated", s, "past_due")
  <2>1. e \in EventRecords /\ e.kind = "failed" /\ e.status = "none" /\ e.sub = s /\ e.at = now
    BY <1>4, <1>5
  <2>2. f \in EventRecords /\ f.kind = "updated" /\ f.status = "past_due" /\ f.sub = s /\ f.at = now
    BY <1>4, <1>5
  <2>3. subscriptions[s] # "canceled" /\ (Send(s, "past_due", <<e>>) \/ Send(s, "past_due", <<e, f>>))
    BY <1>3, <1>7 DEF PaymentFails
  <2> HIDE DEF e, f
  <2>4. Says(e, "past_due") /\ Says(f, "past_due")
    BY <1>5, <2>1, <2>2 DEF Says
  <2>5. Sent(s, "past_due", <<e>>)
    BY <1>5, <2>1, <2>4 DEF Sent
  <2>6. Sent(s, "past_due", <<e, f>>)
    BY <1>5, <2>1, <2>2, <2>4 DEF Sent
  <2> QED
    BY <1>5, <2>3, <2>5, <2>6, SendTells
<1>8. CASE PaymentSucceeds(r)
  <2> DEFINE e == Event("paid", s, "none")  f == Event("updated", s, "active")
  <2>1. e \in EventRecords /\ e.kind = "paid" /\ e.status = "none" /\ e.sub = s /\ e.at = now
    BY <1>4, <1>5
  <2>2. f \in EventRecords /\ f.kind = "updated" /\ f.status = "active" /\ f.sub = s /\ f.at = now
    BY <1>4, <1>5
  <2>3. subscriptions[s] # "canceled" /\ Send(s, "active", <<e, f>>)
    BY <1>3, <1>8 DEF PaymentSucceeds
  <2> HIDE DEF e, f
  <2>4. Says(e, "active") /\ Says(f, "active")
    BY <1>5, <2>1, <2>2 DEF Says
  <2>5. Sent(s, "active", <<e, f>>)
    BY <1>5, <2>1, <2>2, <2>4 DEF Sent
  <2> QED
    BY <1>5, <2>3, <2>5, SendTells
<1>9. CASE RetriesEnd(r)
  <2> DEFINE e == Event("updated", s, "unpaid")
  <2>1. e \in EventRecords /\ e.kind = "updated" /\ e.status = "unpaid" /\ e.sub = s /\ e.at = now
    BY <1>4, <1>5
  <2>2. subscriptions[s] # "canceled" /\ Send(s, "unpaid", <<e>>)
    BY <1>3, <1>9 DEF RetriesEnd
  <2> HIDE DEF e
  <2>3. Says(e, "unpaid")
    BY <1>5, <2>1 DEF Says
  <2>4. Sent(s, "unpaid", <<e>>)
    BY <1>5, <2>1, <2>3 DEF Sent
  <2> QED
    BY <1>5, <2>2, <2>4, SendTells
<1>10. CASE Cancel(r)
  <2> DEFINE e == Event("deleted", s, "canceled")
  <2>1. e \in EventRecords /\ e.kind = "deleted" /\ e.status = "canceled" /\ e.sub = s /\ e.at = now
    BY <1>4, <1>5
  <2>2. subscriptions[s] # "canceled" /\ Send(s, "canceled", <<e>>)
    BY <1>3, <1>10 DEF Cancel
  <2> HIDE DEF e
  <2>3. Says(e, "canceled")
    BY <1>5, <2>1 DEF Says
  <2>4. Sent(s, "canceled", <<e>>)
    BY <1>5, <2>1, <2>3 DEF Sent
  <2> QED
    BY <1>5, <2>2, <2>4, SendTells
<1> QED
  BY <1>2, <1>6, <1>7, <1>8, <1>9, <1>10

\* A write of one event: it is right for the state that the newest events tell,
\* and takes nothing back that another of the newest has written.
LEMMA WriteTells ==
    ASSUME TypeOK, TypeOK', NEW s \in Subs, ~Grace, Known(s), Told(s), RowFollows(s),
           NEW j \in DOMAIN events, org.eventAt <= events[j].at, UNCHANGED stripeVars,
           org'.sub \in {NoSub, s}, org'.eventAt = events[j].at, org'.eventId = j,
           \/ events[j].kind = "failed" /\ org'.failedAt # 0
           \/ /\ events[j].kind # "failed" /\ Revokes(events[j])
              /\ org'.level = "starter" /\ org'.failedAt = org.failedAt
           \/ /\ ~Revokes(events[j]) /\ (Grants(events[j]) \/ events[j].kind = "paid")
              /\ org'.level = Level(TierOf[s]) /\ org'.failedAt = 0
    PROVE  /\ Told(s)' /\ RowFollows(s)' /\ Done(j)'
           /\ \A i \in DOMAIN events : Done(i) => Done(i)'
<1>1. UNCHANGED <<events, subscriptions, now>> /\ \A i : Newest(i)' <=> Newest(i)
  BY DEF stripeVars, Newest
<1>2. Told(s)'
  BY <1>1 DEF Told, Says
<1>3. /\ subscriptions[s] \in {"trialing", "active", "past_due"} \cup Ended
      /\ \A i \in DOMAIN events : Newest(i) => Says(events[i], subscriptions[s])
  BY DEF Told, TypeOK, Statuses
<1>4. org.eventAt \in Nat /\ \A i \in DOMAIN events : events[i].at \in Nat
  <2>1. org.eventAt \in Nat
    BY DEF TypeOK, OrgRows, Times
  <2>2. ASSUME NEW i \in DOMAIN events PROVE events[i].at \in Nat
    BY <2>2, SentIsARecord DEF EventRecords, Times
  <2> QED
    BY <2>1, <2>2
<1>5. ASSUME Newest(j) PROVE Entitled(s)'
  <2>1. Says(events[j], subscriptions[s])
    BY <1>3, <1>5
  <2>2. subscriptions[s] \in {"trialing", "active"} => ~Revokes(events[j]) /\ events[j].kind # "failed"
    BY <2>1 DEF Says, Revokes, Ended
  <2>3. subscriptions[s] \in Ended => Revokes(events[j]) /\ events[j].kind # "failed"
    BY <2>1 DEF Says, Revokes, Ended
  <2> QED
    BY <1>1, <2>2, <2>3 DEF Entitled
<1>6. \A i \in DOMAIN events : Newest(i) /\ events[j].at = events[i].at => Newest(j)
  BY DEF Newest
<1>7. RowFollows(s)'
  <2>1. ASSUME NEW i \in DOMAIN events, Newest(i)
        PROVE  /\ org'.eventAt <= events[i].at
               /\ org'.eventAt = events[i].at =>
                     Entitled(s)' /\ (org'.eventId = i /\ events[i].kind = "failed" => org'.failedAt # 0)
    <3>1. events[j].at <= events[i].at
      BY <2>1 DEF Newest
    <3>2. events[j].at = events[i].at => Entitled(s)'
      BY <1>5, <1>6, <2>1
    <3>3. events[j].kind = "failed" => org'.failedAt # 0
      BY DEF Grants
    <3> QED
      BY <3>1, <3>2, <3>3
  <2>2. org'.eventAt < now'
    BY <1>1 DEF Told
  <2>3. events # <<>>
    OBVIOUS
  <2> QED
    BY <1>1, <2>1, <2>2, <2>3 DEF RowFollows
<1>8. Done(j)'
  <2>1. events[j].kind = "failed" => org'.failedAt # 0
    BY DEF Grants
  <2> QED
    BY <1>1, <2>1 DEF Done
<1>9. ASSUME NEW i \in DOMAIN events, Done(i), Newest(i)
      PROVE  org'.eventAt = events[i].at /\ (events[i].kind = "failed" => org'.failedAt # 0)
  <2>1. org.eventAt = events[i].at /\ (events[i].kind = "failed" => org.failedAt # 0)
    BY <1>9 DEF Done
  <2>2. events[j].at <= events[i].at
    BY <1>9 DEF Newest
  <2>3. events[j].at = events[i].at
    BY <1>4, <2>1, <2>2
  <2>4. Says(events[i], subscriptions[s]) /\ Says(events[j], subscriptions[s])
    BY <1>3, <1>6, <1>9, <2>3
  <2>5. events[i].kind = "failed" => subscriptions[s] = "past_due"
    BY <1>3, <2>4 DEF Says
  <2>6. subscriptions[s] = "past_due" => events[j].kind = "failed" \/ Revokes(events[j])
    BY <2>4 DEF Says, Revokes
  <2>7. events[i].kind = "failed" => org'.failedAt # 0
    BY <2>1, <2>5, <2>6 DEF Grants
  <2> QED
    BY <2>3, <2>7
<1> QED
  BY <1>1, <1>2, <1>7, <1>8, <1>9 DEF Done

\* A step that leaves the provider and the row, but for the trial, alone.
LEMMA StillTells ==
    ASSUME TypeOK, NEW s \in Subs, Told(s), RowFollows(s), UNCHANGED stripeVars,
           org'.sub = org.sub, org'.level = org.level, org'.failedAt = org.failedAt,
           org'.eventAt = org.eventAt, org'.eventId = org.eventId
    PROVE  Told(s)' /\ RowFollows(s)' /\ \A i \in DOMAIN events : Done(i) => Done(i)'
<1>1. UNCHANGED <<events, subscriptions, now>> /\ \A i : Newest(i)' <=> Newest(i)
  BY DEF stripeVars, Newest
<1>2. Told(s)'
  BY <1>1 DEF Told, Says
<1>3. RowFollows(s)'
  BY <1>1 DEF RowFollows, Entitled
<1>4. \A i \in DOMAIN events : Done(i) => Done(i)'
  BY <1>1 DEF Done
<1> QED
  BY <1>2, <1>3, <1>4

\* The event in hand is still to be written, or has been, or is let go.
LEMMA HandledByHandler ==
    ASSUME Claimed, Handled, NEW h \in Handlers, Handles(h), \A i \in DOMAIN events : Done(i) => Done(i)',
           NEW e, e = handler[h].id,
           \/ ~Pending(h)
           \/ Pending(h)'
           \/ lost' # {}
           \/ e \notin processed'
           \/ Done(e)'
    PROVE  Handled'
<1> SUFFICES ASSUME lost' = {}, NEW i \in processed'
             PROVE  Done(i)' \/ \E g \in Handlers : handler'[g].id = i /\ Pending(g)'
  BY DEF Handled
<1>1. lost = {} /\ i \in processed /\ i \in DOMAIN events
  BY DEF Handles, Claimed
<1>2. CASE Done(i)
  BY <1>1, <1>2
<1>3. ASSUME NEW g \in Handlers, handler[g].id = i, Pending(g)
      PROVE  Done(i)' \/ \E k \in Handlers : handler'[k].id = i /\ Pending(k)'
  <2>1. CASE g # h
    <3>1. handler'[g] = handler[g]
      BY <2>1 DEF Handles
    <3> QED
      BY <1>3, <3>1 DEF Pending
  <2>2. CASE g = h
    <3>1. CASE Pending(h)'
      <4>1. handler'[h].id = handler[h].id
        BY <3>1 DEF Pending, Handles
      <4> QED
        BY <1>3, <2>2, <3>1, <4>1
    <3> QED
      BY <1>3, <2>2, <3>1
  <2> QED
    BY <2>1, <2>2
<1> QED
  BY <1>1, <1>2, <1>3 DEF Handled

LEMMA HandlerTells ==
    ASSUME TypeOK, TypeOK', Sane, Claimed, NEW s \in Subs, ~Grace, Known(s), Only(s),
           Told(s), RowFollows(s), Handled, NEW h \in Handlers,
           HandlerStep(h) \/ Fail(h) \/ ErrorSwallowed(h) \/ Crash(h)
    PROVE  Told(s)' /\ RowFollows(s)' /\ Handled'
<1>0. PICK i : i = handler[h].id
  OBVIOUS
<1>1. Handles(h) /\ handler[h].at # "idle"
  BY HandlerHandles DEF Handles
<1>2. i \in DOMAIN events /\ EventOf(h) = events[i] /\ events[i].sub = s /\ events[i] \in EventRecords
  BY <1>0, <1>1, SentIsARecord DEF Claimed, Told, EventOf
<1>3. HandlerSane(h) /\ FromEvents(org)
  BY DEF Sane
<1>4. ASSUME NEW r \in Subs PROVE ~CancelPriorBriefSubscriptions(h, r)
  BY <1>2 DEF CancelPriorBriefSubscriptions, Only
<1>5. UNCHANGED stripeVars
  BY <1>4, HandlersLeave
<1>6. org.eventAt \in Nat /\ events[i].at \in Nat \ {0}
  BY <1>2 DEF TypeOK, OrgRows, EventRecords, Times
<1>7. Newest(i) => org.eventAt <= events[i].at
  BY <1>2 DEF RowFollows
\* The row stays, but for the trial.
<1>8. ASSUME org'.sub = org.sub, org'.level = org.level, org'.failedAt = org.failedAt,
             org'.eventAt = org.eventAt, org'.eventId = org.eventId,
             \/ ~Pending(h) \/ Pending(h)' \/ lost' # {} \/ i \notin processed' \/ Done(i)
      PROVE  Told(s)' /\ RowFollows(s)' /\ Handled'
  <2>1. Told(s)' /\ RowFollows(s)' /\ \A j \in DOMAIN events : Done(j) => Done(j)'
    BY <1>5, <1>8, StillTells
  <2> QED
    BY <1>0, <1>1, <1>2, <1>8, <2>1, HandledByHandler
<1>9. CASE Read(h)
  <2>1. CASE Ignored(h)
    <3>1. EventOf(h).kind = "paid" /\ org.status = "canceled"
      BY <1>2, <2>1 DEF Ignored, RowFollows
    <3>2. PICK k \in DOMAIN events : events[k].status = "canceled"
      BY <1>3, <3>1 DEF FromEvents, Ended
    <3>3. subscriptions[s] = "canceled"
      BY <3>2 DEF Told
    <3>4. Newest(i) => Says(events[i], "canceled")
      BY <1>2, <3>3 DEF Told
    <3>5. Done(i)
      BY <1>2, <3>1, <3>4 DEF Done, Says, Ended
    <3> QED
      BY <1>8, <1>9, <3>5 DEF Read
  <2>2. CASE ~Ignored(h)
    <3>1. handler'[h].at = "sync"
      BY <1>9, <2>2 DEF Read, TypeOK, HandlerRecords
    <3> QED
      BY <1>8, <1>9, <3>1 DEF Read, Pending
  <2> QED
    BY <2>1, <2>2
<1>10. CASE Sync(h)
  <2> DEFINE e == events[i]
  <2>1. /\ handler[h].at = "sync" /\ handler[h].tier = TierOf[s]
        /\ Grants(e) \/ Revokes(e) \/ e.kind = "paid"
    BY <1>2, <1>3, <1>10 DEF Sync, Claimed, HandlerSane
  <2>2. e.kind # "failed"
    BY <2>1 DEF Grants, Revokes
  <2>3. CASE Newer(org, i)
    <3>1. org' = Synced(org, i, TierOf[s])
      BY <1>0, <1>10, <2>1, <2>3 DEF Sync
    <3> DEFINE level    == IF Revokes(e) THEN "starter" ELSE Level(TierOf[s])
               failedAt == IF Revokes(e) THEN org.failedAt ELSE 0
               sub      == IF e.kind = "checkout" THEN org.sub ELSE e.sub
               tier     == IF Known(e.sub) THEN TierOf[e.sub] ELSE org.tier
               status   == IF e.status = "none" THEN org.status ELSE e.status
               at       == e.at
    <3>2. org' = [org EXCEPT !.eventAt = at, !.eventId = i, !.level = level, !.failedAt = failedAt, !.sub = sub,
                             !.tier = tier, !.status = status]
      BY <3>1 DEF Synced, Stamped, TypeOK, OrgRows
    <3>3. /\ sub \in {NoSub, s} /\ at = events[i].at
          /\ Revokes(events[i]) => level = "starter" /\ failedAt = org.failedAt
          /\ ~Revokes(events[i]) => level = Level(TierOf[s]) /\ failedAt = 0
      BY <1>2 DEF RowFollows
    <3> HIDE DEF level, failedAt, sub, tier, status, at
    <3>4. /\ org'.eventAt = at /\ org'.eventId = i /\ org'.level = level /\ org'.failedAt = failedAt /\ org'.sub = sub
      BY <3>2 DEF TypeOK, OrgRows
    <3>5. org.eventAt <= events[i].at
      BY <1>6, <2>3 DEF Newer
    <3>6. Told(s)' /\ RowFollows(s)' /\ Done(i)' /\ \A j \in DOMAIN events : Done(j) => Done(j)'
      BY <1>2, <1>5, <2>1, <2>2, <3>3, <3>4, <3>5, WriteTells
    <3> QED
      BY <1>0, <1>1, <3>6, HandledByHandler
  <2>4. CASE ~Newer(org, i)
    <3>1. Done(i)
      BY <1>6, <1>7, <2>2, <2>4 DEF Newer, Done
    <3> QED
      BY <1>0, <1>8, <1>10, <2>4, <3>1 DEF Sync
  <2> QED
    BY <2>3, <2>4
<1>11. CASE StampFailure(h)
  <2>1. handler[h].at = "stamp" /\ events[i].kind = "failed"
    BY <1>2, <1>3, <1>11 DEF StampFailure, HandlerSane
  <2>2. org.sub \in {NoSub, EventOf(h).sub}
    BY <1>2 DEF RowFollows
  <2>3. CASE Newer(org, i)
    <3> DEFINE failedAt == IF org.failedAt = 0 THEN events[i].at ELSE org.failedAt
               at       == events[i].at
    <3>1. org' = [org EXCEPT !.eventAt = at, !.eventId = i, !.failedAt = failedAt]
      BY <1>0, <1>2, <1>11, <2>2, <2>3 DEF StampFailure, Stamped, TypeOK, OrgRows
    <3>2. failedAt # 0 /\ at = events[i].at
      BY <1>6
    <3> HIDE DEF failedAt, at
    <3>3. org'.eventAt = at /\ org'.eventId = i /\ org'.failedAt = failedAt /\ org'.sub = org.sub
      BY <3>1 DEF TypeOK, OrgRows
    <3>4. org.eventAt <= events[i].at
      BY <1>6, <2>3 DEF Newer
    <3>5. Told(s)' /\ RowFollows(s)' /\ Done(i)' /\ \A j \in DOMAIN events : Done(j) => Done(j)'
      BY <1>2, <1>5, <2>1, <2>2, <3>2, <3>3, <3>4, WriteTells
    <3> QED
      BY <1>0, <1>1, <3>5, HandledByHandler
  <2>4. CASE ~Newer(org, i)
    <3>1. Done(i)
      BY <1>2, <1>6, <1>7, <2>4 DEF Newer, Done, RowFollows
    <3> QED
      BY <1>0, <1>8, <1>11, <2>4, <3>1 DEF StampFailure
  <2> QED
    BY <2>3, <2>4
<1>12. CASE OpenDunningCycle(h) \/ ClaimNotice(h) \/ SendNotice(h)
  BY <1>8, <1>12 DEF OpenDunningCycle, ClaimNotice, SendNotice, Pending
<1>13. CASE MarkCyclesRecovered(h) \/ MarkCyclesLapsed(h) \/ CheckoutDone(h)
  BY <1>8, <1>13 DEF MarkCyclesRecovered, MarkCyclesLapsed, CheckoutDone, Follows, Pending
<1>14. CASE RecordTrial(h)
  <2>1. PICK trial : org' = [org EXCEPT !.trial = trial]
    BY <1>14 DEF RecordTrial, TypeOK, OrgRows
  <2>2. /\ org'.sub = org.sub /\ org'.level = org.level /\ org'.failedAt = org.failedAt
        /\ org'.eventAt = org.eventAt /\ org'.eventId = org.eventId
    BY <2>1 DEF TypeOK, OrgRows
  <2> QED
    BY <1>8, <1>14, <2>2 DEF RecordTrial, Follows, Pending
<1>15. CASE Fail(h)
  BY <1>0, <1>8, <1>15 DEF Fail
<1>16. CASE ErrorSwallowed(h)
  BY <1>8, <1>16 DEF ErrorSwallowed
<1>17. CASE Crash(h)
  BY <1>8, <1>17 DEF Crash
<1> QED
  BY <1>4, <1>9, <1>10, <1>11, <1>12, <1>13, <1>14, <1>15, <1>16, <1>17 DEF HandlerStep, Follow

\* A claim: of an event that will be written, or is written, or says nothing new.
LEMMA DeliveryTells ==
    ASSUME TypeOK, Claimed, NEW s \in Subs, ~Grace, Known(s), Told(s), RowFollows(s), Handled,
           NEW h \in Handlers, NEW i \in Ids, Deliver(h, i)
    PROVE  Told(s)' /\ RowFollows(s)' /\ Handled'
<1>1. /\ handler[h].at = "idle" /\ \A g \in Handlers \ {h} : handler'[g] = handler[g]
      /\ i \in DOMAIN events /\ processed' = processed \cup {i} /\ UNCHANGED <<org, stripeVars, lost>>
      /\ \/ i \in processed /\ UNCHANGED handler
         \/ /\ events[i].kind \in {"checkout", "created", "updated"} /\ ~Grants(events[i]) /\ ~Revokes(events[i])
            /\ UNCHANGED handler
         \/ handler'[h].id = i /\ Pending(h)'
  BY ClaimedByDelivery
<1>2. Told(s)' /\ RowFollows(s)' /\ \A j \in DOMAIN events : Done(j) => Done(j)'
  BY <1>1, StillTells
<1>3. events[i].sub = s /\ (Newest(i) => Says(events[i], subscriptions[s]))
      /\ subscriptions[s] \in {"trialing", "active", "past_due", "unpaid", "canceled"}
  BY <1>1 DEF Told, TypeOK, Statuses, Ended
<1>4. events[i].kind \in {"checkout", "created", "updated"} /\ ~Grants(events[i]) /\ ~Revokes(events[i]) => Done(i)
  BY <1>3 DEF Says, Grants, Revokes, Done, Ended
<1>5. ASSUME lost' = {}, NEW j \in processed'
      PROVE  Done(j)' \/ \E g \in Handlers : handler'[g].id = j /\ Pending(g)'
  <2>1. ASSUME j \in processed PROVE Done(j)' \/ \E g \in Handlers : handler'[g].id = j /\ Pending(g)'
    <3>1. Done(j) \/ \E g \in Handlers : handler[g].id = j /\ Pending(g)
      BY <1>1, <1>5, <2>1 DEF Handled
    <3>2. j \in DOMAIN events
      BY <2>1 DEF Claimed
    <3>3. ASSUME NEW g \in Handlers, handler[g].id = j, Pending(g) PROVE handler'[g].id = j /\ Pending(g)'
      BY <1>1, <3>3 DEF Pending
    <3> QED
      BY <1>2, <3>1, <3>2, <3>3
  <2> QED
    BY <1>1, <1>2, <1>4, <1>5, <2>1
<1> QED
  BY <1>2, <1>5 DEF Handled

LEMMA SettledStep == IInv /\ IInv' /\ SettledInv /\ [Next]_vars => SettledInv'
<1> SUFFICES ASSUME IInv, IInv', SettledInv, [Next]_vars PROVE SettledInv'
  OBVIOUS
<1>1. TypeOK /\ TypeOK' /\ Sane /\ SweepsRest /\ Claimed
  BY DEF IInv, SettledInv
<1>2. SweepsRest' /\ Claimed'
  BY <1>1, SweepsRestStep, ClaimedStep
<1>3. ASSUME NEW s \in Subs, ~Grace, Only(s)', Known(s) PROVE Told(s)' /\ RowFollows(s)' /\ Handled'
  <2>1. Only(s)
    BY <1>1, <1>3, OnlyBefore
  <2>2. Told(s) /\ RowFollows(s) /\ Handled
    BY <1>3, <2>1 DEF SettledInv, Truth
  <2>3. CASE Stripe
    BY <1>1, <1>3, <2>1, <2>2, <2>3, StripeTells
  <2>4. CASE UNCHANGED vars
    <3>1. /\ UNCHANGED <<org, stripeVars, processed, handler, lost>>
      BY <2>4 DEF vars, stripeVars
    <3>2. Told(s)' /\ RowFollows(s)' /\ \A j \in DOMAIN events : Done(j) => Done(j)'
      BY <1>1, <2>2, <3>1, StillTells
    <3>3. Handled'
      BY <1>1, <2>2, <3>1, <3>2 DEF Handled, Pending, Claimed
    <3> QED
      BY <3>2, <3>3
  <2>5. ASSUME NEW h \in Handlers, HandlerStep(h) \/ Fail(h) \/ ErrorSwallowed(h) \/ Crash(h)
        PROVE  Told(s)' /\ RowFollows(s)' /\ Handled'
    BY <1>1, <1>3, <2>1, <2>2, <2>5, HandlerTells
  <2>6. ASSUME NEW h \in Handlers, NEW i \in Ids, Deliver(h, i) PROVE Told(s)' /\ RowFollows(s)' /\ Handled'
    BY <1>1, <1>3, <2>2, <2>6, DeliveryTells
  <2>7. ~Tick /\ \A w \in Sweeps : ~(SweepStep(w) \/ SweepItemFails(w) \/ SweepDies(w))
    BY <1>1, <1>3, SweepsRestStep DEF Tick
  <2> QED
    BY <2>3, <2>4, <2>5, <2>6, <2>7 DEF Next
<1> QED
  BY <1>2, <1>3 DEF SettledInv, Truth

LEMMA InitialSettled == Init => SettledInv
<1> SUFFICES ASSUME Init PROVE SettledInv
  OBVIOUS
<1>1. SweepsRest /\ Claimed
  BY DEF Init, SweepsRest, Claimed, NoSweep, Free
<1>2. DOMAIN events = {} /\ events = <<>> /\ Handled
  BY DEF Init, Handled
<1>3. NewOrg.sub = NoSub /\ NewOrg.eventAt = 0
  BY DEF NewOrg
<1>4. \A r : /\ OldOrg(r).sub = r /\ OldOrg(r).level = Level(TierOf[r])
             /\ OldOrg(r).failedAt = 0 /\ OldOrg(r).eventAt = 0
  BY DEF OldOrg, NewOrg
<1>5. ASSUME NEW s \in Subs, Only(s) PROVE Told(s) /\ RowFollows(s)
  <2>1. now = 1 /\ org.eventAt = 0 /\ subscriptions = [r \in Subs |-> IF r = org.sub THEN "active" ELSE "none"]
    BY <1>3, <1>4 DEF Init
  <2>2. subscriptions[s] \in {"none", "active"}
    BY <2>1
  <2>3. Told(s)
    BY <1>2, <2>2 DEF Told
  <2>4. CASE org = NewOrg
    <3>1. subscriptions[s] = "none" /\ org.sub = NoSub
      BY <1>3, <2>1, <2>4, SubsAssumption
    <3> QED
      BY <1>2, <2>1, <2>3, <3>1 DEF RowFollows, Entitled, Ended
  <2>5. ASSUME NEW r \in Existing, org = OldOrg(r) PROVE Told(s) /\ RowFollows(s)
    <3>1. r \in Subs /\ org.sub = r /\ subscriptions[r] = "active"
      BY <1>4, <2>1, <2>5, SubsAssumption
    <3>2. r = s
      BY <1>5, <3>1 DEF Only
    <3>3. org.sub = s /\ org.level = Level(TierOf[s]) /\ org.failedAt = 0
      BY <1>4, <2>5, <3>2
    <3> QED
      BY <1>2, <2>1, <2>2, <2>3, <3>3 DEF RowFollows, Entitled, Ended
  <2> QED
    BY <2>4, <2>5 DEF Init
<1> QED
  BY <1>1, <1>2, <1>5 DEF SettledInv, Truth

LEMMA SettledFollows == IInv /\ SettledInv => SettledIsTrue
<1> SUFFICES ASSUME IInv, SettledInv, NEW s \in Subs, Quiet, lost = {}, ~Grace, Only(s), Known(s)
             PROVE  /\ subscriptions[s] \in {"trialing", "active"} => org.level = Level(TierOf[s]) /\ org.failedAt = 0
                    /\ subscriptions[s] \in Ended => org.level = "starter"
                    /\ subscriptions[s] = "past_due" => org.failedAt # 0
  BY DEF SettledIsTrue
<1>1. Told(s) /\ RowFollows(s) /\ Handled /\ acked \subseteq processed
  BY DEF SettledInv, Truth, Claimed
<1>2. ASSUME NEW i \in DOMAIN events PROVE Done(i)
  BY <1>1, <1>2 DEF Quiet, Handled, Pending
<1>3. CASE events = <<>>
  BY <1>1, <1>3 DEF Told, RowFollows, Entitled
<1>4. CASE events # <<>>
  <2>1. PICK i \in DOMAIN events : Newest(i)
    BY <1>1, <1>4 DEF Told
  <2>2. Entitled(s)
    BY <1>1, <1>2, <2>1 DEF Done, RowFollows
  <2>3. subscriptions[s] = "past_due" => org.failedAt # 0
    BY <1>1, <1>2 DEF Told, Done
  <2> QED
    BY <2>2, <2>3 DEF Entitled
<1> QED
  BY <1>3, <1>4

\* What was sent about one subscription is written, in whatever order it came.
THEOREM SettledInvariant == Spec => []SettledInv
<1>1. Spec => []IInv
  BY BillingInvariant
<1> QED
  BY <1>1, InitialSettled, SettledStep, PTL DEF Spec

\* A customer with one subscription has, once everything that was sent has been
\* answered and nothing was lost, the access it pays for, and no other.
THEOREM SettledIsTrueTheorem == Spec => []SettledIsTrue
BY BillingInvariant, SettledInvariant, SettledFollows, PTL
=============================================================================
