--------------------------- MODULE ConnectorWriteback ---------------------------
(***************************************************************************)
(* The write-back of one enterprise connector.  An operator states the     *)
(* value a field of an external record should have; a worker reads what    *)
(* the field holds, decides (optimistic concurrency on the value last      *)
(* pushed), writes, and records the outcome.  Nothing is locked and        *)
(* nothing is claimed while the worker talks to the external system, so    *)
(* the operator, the external system's own users, the other instances'     *)
(* workers and a crash all come between any two of its steps.  A push      *)
(* whose attempts are used up leaves a dead letter, which an operator      *)
(* re-drives or dismisses.                                                 *)
(***************************************************************************)
EXTENDS Naturals, Sequences

CONSTANTS
    Intents,        \* rows of connector_writeback_intents: one per record and field
    Writable,       \* those whose field is in the adapter's whitelist
    RecordOf,       \* the external record each one is about
    Values,         \* values a field may hold
    Absent,         \* the NULL of a field, and of last_pushed_value
    Workers,        \* the workers of the instances; one tick at a time in each
    Operators,      \* requests that re-drive a dead letter
    MaxAttempts,    \* max_attempts: 5 by default
    MaxEnqueues,    \* bound on write-back requests
    MaxEdits,       \* bound on the edits made in the external system
    MaxRedrives,    \* bound on re-drives
    MaxCrashes      \* bound on crashes

ASSUME AbsentAssumption   == Absent \notin Values
ASSUME WritableAssumption == Writable \subseteq Intents
ASSUME AttemptsAssumption == MaxAttempts \in Nat \ {0}
ASSUME BoundsAssumption   == {MaxEnqueues, MaxEdits, MaxRedrives, MaxCrashes} \subseteq Nat

VARIABLES
    connector,  \* the row of enterprise_connectors
    intent,     \* the rows of connector_writeback_intents
    letters,    \* the statuses of each intent's dead letters, oldest first
    external,   \* what each field holds in the external system
    outside,    \* fields someone else has set since the last push, and nothing has adopted
    worker,     \* the workers' local state
    reading,    \* the letter each re-drive has read: a set of at most one <<intent, number>>
    used        \* the bounded events so far

vars == <<connector, intent, letters, external, outside, worker, reading, used>>

Fields  == Values \cup {Absent}
Records == {RecordOf[i] : i \in Intents}

\* due: next_attempt_at is NULL or past.
IntentRows ==
    [status : {"none", "pending", "applied", "conflict", "failed"}, desired : Fields,
     lastPushed : Fields, attempts : Nat, due : BOOLEAN]

\* due:    the rows the tick has loaded.      read: those rows, as they were then.
\* seen:   what readCurrent returned.         todo: the pushes not made yet.
\* failed: the pushes answered by an error.
WorkerRecords ==
    [at : {"idle", "loaded", "unread", "writing"}, due : SUBSET Intents, read : [Intents -> IntentRows],
     seen : [Intents -> Fields], todo : SUBSET Intents, failed : SUBSET Intents]

Counts == [enqueues : Nat, edits : Nat, redrives : Nat, crashes : Nat]

TypeOK ==
    /\ connector \in {"missing", "disabled", "enabled"}
    /\ intent \in [Intents -> IntentRows]
    /\ letters \in [Intents -> Seq({"open", "redriven", "ignored"})]
    /\ external \in [Intents -> Fields]
    /\ outside \subseteq Intents
    /\ worker \in [Workers -> WorkerRecords]
    /\ reading \in [Operators -> SUBSET (Intents \X Nat)]
    /\ used \in Counts

NoRow == [status |-> "none", desired |-> Absent, lastPushed |-> Absent, attempts |-> 0, due |-> FALSE]

Idle ==
    [at |-> "idle", due |-> {}, read |-> [i \in Intents |-> NoRow], seen |-> [i \in Intents |-> Absent],
     todo |-> {}, failed |-> {}]

-----------------------------------------------------------------------------
\* A row whose field is not in the whitelist is left from an earlier release.
Init ==
    /\ connector = "enabled"
    /\ \E v \in Values :
        intent = [i \in Intents |-> IF i \in Writable THEN NoRow
                                    ELSE [NoRow EXCEPT !.status = "pending", !.desired = v, !.due = TRUE]]
    /\ letters = [i \in Intents |-> <<>>]
    /\ external = [i \in Intents |-> Absent]
    /\ outside = {}
    /\ worker = [w \in Workers |-> Idle]
    /\ reading = [o \in Operators |-> {}]
    /\ used = [enqueues |-> 0, edits |-> 0, redrives |-> 0, crashes |-> 0]

-----------------------------------------------------------------------------
\* The customer's requests.

\* PUT and DELETE /api/connectors/:id.
Configure(state) ==
    /\ state # connector
    /\ connector' = state
    /\ UNCHANGED <<intent, letters, external, outside, worker, reading, used>>

\* Mutant: the baseline is forgotten with the rest.
RequeuedAfresh(row) == [row EXCEPT !.status = "pending", !.attempts = 0, !.due = TRUE, !.lastPushed = Absent]

Requeued(row) == [row EXCEPT !.status = "pending", !.attempts = 0, !.due = TRUE]

\* POST /api/connectors/:id/writeback, for one field.  The connector must be
\* configured; it need not be enabled.  last_pushed_value stays.
Enqueue(i, v) ==
    /\ used.enqueues < MaxEnqueues
    /\ connector # "missing"
    /\ i \in Writable
    /\ intent' = [intent EXCEPT ![i] = [Requeued(@) EXCEPT !.desired = v]]
    /\ used' = [used EXCEPT !.enqueues = @ + 1]
    /\ UNCHANGED <<connector, letters, external, outside, worker, reading>>

\* A re-drive reads the letter first ...
ReadLetter(o, i, n) ==
    /\ used.redrives < MaxRedrives
    /\ reading[o] = {}
    /\ n \in DOMAIN letters[i]
    /\ letters[i][n] = "open"
    /\ reading' = [reading EXCEPT ![o] = {<<i, n>>}]
    /\ used' = [used EXCEPT !.redrives = @ + 1]
    /\ UNCHANGED <<connector, intent, letters, external, outside, worker>>

\* ... and then resets the intent, whatever has become of it and whether or
\* not the letter is still open: only the letter's own UPDATE looks.
Redrive(o, i, n) ==
    /\ reading[o] = {<<i, n>>}
    /\ intent' = [intent EXCEPT ![i] = Requeued(@)]
    /\ letters' = [letters EXCEPT ![i][n] = IF @ = "open" THEN "redriven" ELSE @]
    /\ reading' = [reading EXCEPT ![o] = {}]
    /\ UNCHANGED <<connector, external, outside, worker, used>>

Ignore(i, n) ==
    /\ n \in DOMAIN letters[i]
    /\ letters[i][n] = "open"
    /\ letters' = [letters EXCEPT ![i][n] = "ignored"]
    /\ UNCHANGED <<connector, intent, external, outside, worker, reading, used>>

-----------------------------------------------------------------------------
\* The external system and the clock.

Loaded(i) == {w \in Workers : i \in worker[w].due}

\* Someone else sets the field.
Edit(i, v) ==
    /\ used.edits < MaxEdits
    /\ v # external[i]
    /\ external' = [external EXCEPT ![i] = v]
    /\ outside' = IF Loaded(i) = {} /\ intent[i].lastPushed \notin {Absent, v}
                    THEN outside \cup {i} ELSE outside \ {i}
    /\ used' = [used EXCEPT !.edits = @ + 1]
    /\ UNCHANGED <<connector, intent, letters, worker, reading>>

BackoffEnds(i) ==
    /\ intent[i].status # "none" /\ ~intent[i].due
    /\ intent' = [intent EXCEPT ![i].due = TRUE]
    /\ UNCHANGED <<connector, letters, external, outside, worker, reading, used>>

-----------------------------------------------------------------------------
\* The worker.  Its reads and writes of the external system lie outside any
\* transaction, and it holds no row meanwhile.

DueIntents == {i \in Intents : intent[i].status = "pending" /\ intent[i].due}

Load(w) ==
    /\ worker[w].at = "idle"
    /\ connector = "enabled"
    /\ DueIntents # {}
    /\ worker' = [worker EXCEPT ![w] =
                    [Idle EXCEPT !.at = "loaded", !.due = DueIntents,
                                 !.read = [i \in Intents |-> IF i \in DueIntents THEN intent[i] ELSE NoRow]]]
    /\ UNCHANGED <<connector, intent, letters, external, outside, reading, used>>

Decision(desired, current, lastPushed) ==
    CASE current = desired                                        -> "noop"
      [] current # desired /\ lastPushed \in {Absent, current}    -> "apply"
      [] current # desired /\ lastPushed \notin {Absent, current} -> "conflict"

Decided(due, read, current, decision) ==
    {i \in due \cap Writable : Decision(read[i].desired, current[i], read[i].lastPushed) = decision}

ReadCurrent(w) ==
    /\ worker[w].at = "loaded"
    /\ worker' = [worker EXCEPT
                    ![w].at = "writing",
                    ![w].seen = [i \in Intents |-> IF i \in worker[w].due \cap Writable THEN external[i] ELSE Absent],
                    ![w].todo = Decided(worker[w].due, worker[w].read, external, "apply")]
    /\ UNCHANGED <<connector, intent, letters, external, outside, reading, used>>

ReadFails(w) ==
    /\ worker[w].at = "loaded"
    /\ worker' = [worker EXCEPT ![w].at = "unread"]
    /\ UNCHANGED <<connector, intent, letters, external, outside, reading, used>>

\* One request for each record.  A push that is answered by an error may have
\* been carried out.
Push(w, r, done, answered) ==
    LET sent == {i \in worker[w].todo : RecordOf[i] = r} IN
    /\ worker[w].at = "writing" /\ sent # {}
    /\ answered => done
    /\ external' = IF done THEN [i \in Intents |-> IF i \in sent THEN worker[w].read[i].desired ELSE external[i]]
                   ELSE external
    /\ worker' = [worker EXCEPT ![w].todo = @ \ sent, ![w].failed = IF answered THEN @ ELSE @ \cup sent]
    /\ UNCHANGED <<connector, intent, letters, outside, reading, used>>

\* Mutant: a failed attempt is not counted.
AttemptUncounted(w, i) == worker[w].read[i].attempts

\* The outcome of each row, by its id alone.
NextAttempt(w, i) == worker[w].read[i].attempts + 1
Errors(w)    == IF worker[w].at = "unread" THEN worker[w].due \cap Writable ELSE worker[w].failed
GivenUp(w)   == {i \in Errors(w) : NextAttempt(w, i) >= MaxAttempts}
Conflicts(w) == IF worker[w].at = "unread" THEN {}
                ELSE Decided(worker[w].due, worker[w].read, worker[w].seen, "conflict")
Applied(w)   == (worker[w].due \cap Writable) \ (Errors(w) \cup Conflicts(w))

Retried(w)   == Errors(w) \ GivenUp(w)

RecordApplied(row, pushed) == [row EXCEPT !.status = "applied", !.lastPushed = pushed, !.attempts = @ + 1, !.due = TRUE]
RecordConflict(row)            == [row EXCEPT !.status = "conflict"]
RecordTransientFailure(row, n) == [row EXCEPT !.attempts = n, !.due = FALSE]
RecordTerminalFailure(row, n)  == [row EXCEPT !.status = "failed", !.attempts = n, !.due = TRUE]

Recorded(w, i) ==
    CASE i \in Applied(w)   -> RecordApplied(intent[i], worker[w].read[i].desired)
      [] i \in Conflicts(w) -> RecordConflict(intent[i])
      [] i \in GivenUp(w)   -> RecordTerminalFailure(intent[i], NextAttempt(w, i))
      [] i \in Retried(w)   -> RecordTransientFailure(intent[i], NextAttempt(w, i))
      [] i \in worker[w].due \ Writable -> RecordTerminalFailure(intent[i], worker[w].read[i].attempts)
      [] OTHER              -> intent[i]

\* Mutant: an intent has one dead letter at most.
CaptureOnce(rows) ==
    letters' = [i \in Intents |-> IF i \in rows /\ letters[i] = <<>> THEN Append(letters[i], "open") ELSE letters[i]]

\* captureDeadLetter, for the pushes that are given up.
Capture(rows) == letters' = [i \in Intents |-> IF i \in rows THEN Append(letters[i], "open") ELSE letters[i]]

Persist(w) ==
    /\ worker[w].at = "unread" \/ (worker[w].at = "writing" /\ worker[w].todo = {})
    /\ intent' = [i \in Intents |-> Recorded(w, i)]
    /\ Capture(GivenUp(w))
    /\ outside' = outside \ Applied(w)
    /\ worker' = [worker EXCEPT ![w] = Idle]
    /\ UNCHANGED <<connector, external, reading, used>>

\* The process dies, or a transaction fails: what is in flight is forgotten.
Crash(w) ==
    /\ used.crashes < MaxCrashes
    /\ worker[w].at # "idle"
    /\ worker' = [worker EXCEPT ![w] = Idle]
    /\ used' = [used EXCEPT !.crashes = @ + 1]
    /\ UNCHANGED <<connector, intent, letters, external, outside, reading>>

-----------------------------------------------------------------------------
Pushes(w) == \E r \in Records, done, answered \in BOOLEAN : Push(w, r, done, answered)

WorkerStep(w) == Load(w) \/ ReadCurrent(w) \/ ReadFails(w) \/ Pushes(w) \/ Persist(w)

Customer ==
    \/ \E state \in {"missing", "disabled", "enabled"} : Configure(state)
    \/ \E i \in Intents, v \in Values : Enqueue(i, v)
    \/ \E i \in Intents : \E n \in DOMAIN letters[i] :
            Ignore(i, n) \/ \E o \in Operators : ReadLetter(o, i, n) \/ Redrive(o, i, n)

Next ==
    \/ Customer
    \/ \E i \in Intents : BackoffEnds(i) \/ \E v \in Fields : Edit(i, v)
    \/ \E w \in Workers : WorkerStep(w) \/ Crash(w)

\* A worker ticks every minute and every call it makes ends, by a timeout if
\* need be; a backoff runs out.  Nobody has to request, edit or re-drive.
Fairness ==
    /\ \A w \in Workers : WF_vars(WorkerStep(w))
    /\ \A i \in Intents : WF_vars(BackoffEnds(i))

Spec == Init /\ [][Next]_vars /\ Fairness

-----------------------------------------------------------------------------
(***************************************************************************)
(* Properties.                                                             *)
(***************************************************************************)

\* "Never silently overwrite" (connectorWritebackCore.ts, line 15): a value
\* that someone else has set, after the last recorded push and while no tick
\* had the row in hand, is changed by nobody but them until an operator has
\* asked for that very value.  Whatever is requested, re-driven or retried in
\* between, in whatever instance and after whatever crash.
OthersValuesStay ==
    [][\A i \in outside : external'[i] # external[i] => used'.edits > used.edits]_vars

\* A write-back that has failed for good can be recovered: it has a dead
\* letter that nobody has re-driven (ERIP-AD-14), even when two instances
\* gave it up, or two operators re-drove the same letter.
FailureHasItsLetter ==
    \A i \in Writable : intent[i].status = "failed" =>
        \E n \in DOMAIN letters[i] : letters[i][n] \in {"open", "ignored"}

\* A pending intent of an enabled connector is applied, held or failed in the
\* end: overlapping ticks, which write the attempts they read, cannot keep
\* setting each other's count back.
IntentSettles ==
    \A i \in Intents : []<>(connector # "enabled" \/ intent[i].status # "pending")
=============================================================================
