------------------------ MODULE ConnectorWritebackProofs ------------------------
(***************************************************************************)
(* What holds of ConnectorWriteback for every set of intents, workers,     *)
(* values and operators and every bound.                                   *)
(*                                                                         *)
(* The argument for OthersValuesStay: a value that somebody else set while *)
(* no tick had the row in hand differs from last_pushed_value, and stays   *)
(* so, because only an adoption writes last_pushed_value without a push.   *)
(* Every tick that loads the row afterwards reads that baseline, finds the *)
(* value unequal to it, and so plans no push: it adopts or holds.          *)
(***************************************************************************)
EXTENDS ConnectorWriteback, SequenceTheorems, TLAPS

\* A worker that has the row in hand knows it drifted, and plans no push.
KnowsDrift(w, i) ==
    i \in worker[w].due =>
        /\ worker[w].read[i].lastPushed \notin {Absent, external[i]}
        /\ worker[w].at = "writing" /\ i \in Writable => worker[w].seen[i] = external[i]
        /\ i \notin worker[w].todo

Drift ==
    \A i \in outside :
        /\ intent[i].lastPushed \notin {Absent, external[i]}
        /\ \A w \in Workers : KnowsDrift(w, i)

\* What is still to be pushed was loaded.
PlansWhatItRead == \A w \in Workers : worker[w].todo \subseteq worker[w].due

IInv == TypeOK /\ PlansWhatItRead /\ Drift

-----------------------------------------------------------------------------
\* The outcome of a row keeps it a row, only recordApplied changes the
\* baseline, and only recordTerminalFailure makes it failed.
LEMMA OutcomeRow ==
    ASSUME NEW row \in IntentRows, NEW v \in Fields, NEW n \in Nat
    PROVE  /\ RecordApplied(row, v) \in IntentRows /\ RecordApplied(row, v).status # "failed"
           /\ RecordConflict(row) \in IntentRows /\ RecordConflict(row).status # "failed"
           /\ RecordConflict(row).lastPushed = row.lastPushed
           /\ RecordTransientFailure(row, n) \in IntentRows /\ RecordTransientFailure(row, n).status = row.status
           /\ RecordTransientFailure(row, n).lastPushed = row.lastPushed
           /\ RecordTerminalFailure(row, n) \in IntentRows
           /\ RecordTerminalFailure(row, n).lastPushed = row.lastPushed
<1>1. RecordApplied(row, v) \in IntentRows /\ RecordApplied(row, v).status # "failed"
  <2>1. row.attempts + 1 \in Nat
    BY DEF IntentRows
  <2> QED BY <2>1 DEF IntentRows, RecordApplied
<1>2. RecordConflict(row) \in IntentRows /\ RecordConflict(row).status # "failed"
      /\ RecordConflict(row).lastPushed = row.lastPushed
  BY DEF IntentRows, RecordConflict
<1>3. RecordTransientFailure(row, n) \in IntentRows /\ RecordTransientFailure(row, n).status = row.status
      /\ RecordTransientFailure(row, n).lastPushed = row.lastPushed
  BY DEF IntentRows, RecordTransientFailure
<1>4. RecordTerminalFailure(row, n) \in IntentRows /\ RecordTerminalFailure(row, n).lastPushed = row.lastPushed
  BY DEF IntentRows, RecordTerminalFailure
<1> QED
  BY <1>1, <1>2, <1>3, <1>4

LEMMA RecordedRow ==
    ASSUME TypeOK, NEW w \in Workers, NEW i \in Intents
    PROVE  /\ Recorded(w, i) \in IntentRows
           /\ i \notin Applied(w) => Recorded(w, i).lastPushed = intent[i].lastPushed
           /\ i \in Writable /\ i \notin GivenUp(w) /\ Recorded(w, i).status = "failed" => intent[i].status = "failed"
<1>1. intent[i] \in IntentRows /\ worker[w].read[i] \in IntentRows
  BY DEF TypeOK, WorkerRecords
<1>2. NextAttempt(w, i) \in Nat /\ worker[w].read[i].attempts \in Nat /\ worker[w].read[i].desired \in Fields
  BY <1>1 DEF NextAttempt, IntentRows
<1>3. i \in worker[w].due \ Writable => i \notin Writable
  OBVIOUS
<1> QED
  BY <1>1, <1>2, <1>3, OutcomeRow DEF Recorded

LEMMA RequeuedRow ==
    ASSUME NEW row \in IntentRows
    PROVE  /\ Requeued(row) \in IntentRows
           /\ Requeued(row).lastPushed = row.lastPushed
           /\ Requeued(row).status = "pending"
           /\ \A v \in Fields : [Requeued(row) EXCEPT !.desired = v] \in IntentRows
           /\ \A v : /\ [Requeued(row) EXCEPT !.desired = v].lastPushed = row.lastPushed
                     /\ [Requeued(row) EXCEPT !.desired = v].status = "pending"
<1>1. /\ Requeued(row) \in IntentRows
      /\ Requeued(row).lastPushed = row.lastPushed
      /\ Requeued(row).status = "pending"
  BY DEF IntentRows, Requeued
<1>2. ASSUME NEW new \in IntentRows, NEW v
      PROVE  /\ v \in Fields => [new EXCEPT !.desired = v] \in IntentRows
             /\ [new EXCEPT !.desired = v].lastPushed = new.lastPushed
             /\ [new EXCEPT !.desired = v].status = new.status
  BY DEF IntentRows
<1> QED
  BY <1>1, <1>2

LEMMA IdleType == Idle \in WorkerRecords
<1>1. NoRow \in IntentRows
  BY DEF NoRow, IntentRows, Fields
<1>2. [i \in Intents |-> NoRow] \in [Intents -> IntentRows] /\ [i \in Intents |-> Absent] \in [Intents -> Fields]
  BY <1>1 DEF Fields
<1> HIDE DEF NoRow
<1> QED BY <1>2 DEF Idle, WorkerRecords

\* A worker's next state, field by field.
LEMMA WorkerUpdate ==
    ASSUME NEW row \in WorkerRecords, NEW at \in {"idle", "loaded", "unread", "writing"},
           NEW seen \in [Intents -> Fields], NEW todo \in SUBSET Intents, NEW failed \in SUBSET Intents
    PROVE  /\ [row EXCEPT !.at = at] \in WorkerRecords
           /\ [row EXCEPT !.at = at, !.seen = seen, !.todo = todo] \in WorkerRecords
           /\ [row EXCEPT !.todo = todo, !.failed = failed] \in WorkerRecords
<1> DEFINE Reads == [Intents -> IntentRows]
           Sees  == [Intents -> Fields]
           Sets  == SUBSET Intents
<1>1. WorkerRecords = [at : {"idle", "loaded", "unread", "writing"}, due : Sets, read : Reads,
                       seen : Sees, todo : Sets, failed : Sets]
  BY DEF WorkerRecords
<1>2. seen \in Sees /\ todo \in Sets /\ failed \in Sets
  OBVIOUS
<1> HIDE DEF Reads, Sees, Sets
<1>3. [row EXCEPT !.at = at] \in WorkerRecords
  BY <1>1
<1>4. [row EXCEPT !.at = at, !.seen = seen, !.todo = todo] \in WorkerRecords
  BY <1>1, <1>2
<1>5. [row EXCEPT !.todo = todo, !.failed = failed] \in WorkerRecords
  BY <1>1, <1>2
<1> QED
  BY <1>3, <1>4, <1>5

\* One more of a bounded event.
LEMMA CountsUp ==
    ASSUME NEW u \in Counts
    PROVE  /\ [u EXCEPT !.enqueues = u.enqueues + 1] \in Counts
           /\ [u EXCEPT !.redrives = u.redrives + 1] \in Counts
           /\ [u EXCEPT !.edits = u.edits + 1] \in Counts /\ [u EXCEPT !.edits = u.edits + 1].edits > u.edits
           /\ [u EXCEPT !.crashes = u.crashes + 1] \in Counts
<1>1. u.enqueues + 1 \in Nat /\ u.redrives + 1 \in Nat /\ u.edits + 1 \in Nat /\ u.edits + 1 > u.edits /\ u.crashes + 1 \in Nat
  BY DEF Counts
<1> DEFINE a == u.enqueues + 1
           b == u.redrives + 1
           c == u.edits + 1
           d == u.crashes + 1
<1>2. a \in Nat /\ b \in Nat /\ c \in Nat /\ d \in Nat
  BY <1>1
<1>3. c > u.edits
  BY <1>1
<1> HIDE DEF a, b, c, d
<1>4. [u EXCEPT !.enqueues = a] \in Counts
  BY <1>2 DEF Counts
<1>5. [u EXCEPT !.redrives = b] \in Counts
  BY <1>2 DEF Counts
<1>6. [u EXCEPT !.edits = c] \in Counts /\ [u EXCEPT !.edits = c].edits > u.edits
  BY <1>2, <1>3 DEF Counts
<1>7. [u EXCEPT !.crashes = d] \in Counts
  BY <1>2 DEF Counts
<1> QED BY <1>4, <1>5, <1>6, <1>7 DEF a, b, c, d

LEMMA NewLetter ==
    ASSUME NEW s \in Seq({"open", "redriven", "ignored"})
    PROVE  /\ Append(s, "open") \in Seq({"open", "redriven", "ignored"})
           /\ \A n \in DOMAIN s : n \in DOMAIN Append(s, "open") /\ Append(s, "open")[n] = s[n]
           /\ \E n \in DOMAIN Append(s, "open") : Append(s, "open")[n] = "open"
<1>1. Len(s) \in Nat /\ DOMAIN s = 1..Len(s) /\ DOMAIN Append(s, "open") = 1..(Len(s) + 1)
  OBVIOUS
<1>2. Append(s, "open")[Len(s) + 1] = "open" /\ Len(s) + 1 \in 1..(Len(s) + 1)
  BY <1>1
<1> QED
  BY <1>1, <1>2

LEMMA ResolvedLetter ==
    ASSUME NEW s \in Seq({"open", "redriven", "ignored"}), NEW n \in DOMAIN s,
           NEW to \in {"open", "redriven", "ignored"}
    PROVE  /\ [s EXCEPT ![n] = to] \in Seq({"open", "redriven", "ignored"})
           /\ DOMAIN [s EXCEPT ![n] = to] = DOMAIN s
OBVIOUS

-----------------------------------------------------------------------------
\* The rows, letters and local states stay what they are.
LEMMA InitIInv == Init => IInv
<1> SUFFICES ASSUME Init PROVE IInv
  OBVIOUS
<1>1. TypeOK
  <2>1. intent \in [Intents -> IntentRows]
    <3>1. NoRow \in IntentRows /\ \A v \in Values : [NoRow EXCEPT !.status = "pending", !.desired = v, !.due = TRUE] \in IntentRows
      BY DEF NoRow, IntentRows, Fields
    <3> HIDE DEF NoRow
    <3> QED BY <3>1 DEF Init
  <2>2. letters \in [Intents -> Seq({"open", "redriven", "ignored"})]
    BY DEF Init
  <2>3. worker \in [Workers -> WorkerRecords]
    BY IdleType DEF Init
  <2> QED BY <2>1, <2>2, <2>3 DEF Init, TypeOK, Fields, Counts
<1>2. PlansWhatItRead /\ Drift
  BY DEF Init, PlansWhatItRead, Drift, Idle
<1> QED BY <1>1, <1>2 DEF IInv

LEMMA TypeStep == TypeOK /\ [Next]_vars => TypeOK'
<1> SUFFICES ASSUME TypeOK, [Next]_vars PROVE TypeOK'
  OBVIOUS
<1>1. ASSUME NEW state \in {"missing", "disabled", "enabled"}, Configure(state) PROVE TypeOK'
  BY <1>1 DEF TypeOK, Configure
<1>2. ASSUME NEW i \in Intents, NEW v \in Values, Enqueue(i, v) PROVE TypeOK'
  <2>1. [Requeued(intent[i]) EXCEPT !.desired = v] \in IntentRows
    BY RequeuedRow DEF TypeOK, Fields
  <2>2. intent' \in [Intents -> IntentRows]
    BY <1>2, <2>1 DEF TypeOK, Enqueue
  <2>3. used' \in Counts
    BY <1>2, CountsUp DEF TypeOK, Enqueue
  <2> QED BY <1>2, <2>2, <2>3 DEF TypeOK, Enqueue
<1>3. ASSUME NEW i \in Intents, NEW n \in DOMAIN letters[i], Ignore(i, n) PROVE TypeOK'
  <2>1. [letters[i] EXCEPT ![n] = "ignored"] \in Seq({"open", "redriven", "ignored"})
    BY ResolvedLetter DEF TypeOK
  <2> QED BY <1>3, <2>1 DEF TypeOK, Ignore
<1>4. ASSUME NEW o \in Operators, NEW i \in Intents, NEW n \in DOMAIN letters[i], ReadLetter(o, i, n) PROVE TypeOK'
  <2>1. n \in Nat
    BY DEF TypeOK
  <2>2. reading' \in [Operators -> SUBSET (Intents \X Nat)]
    BY <1>4, <2>1 DEF TypeOK, ReadLetter
  <2>3. used' \in Counts
    BY <1>4, CountsUp DEF TypeOK, ReadLetter
  <2> QED BY <1>4, <2>2, <2>3 DEF TypeOK, ReadLetter
<1>5. ASSUME NEW o \in Operators, NEW i \in Intents, NEW n \in DOMAIN letters[i], Redrive(o, i, n) PROVE TypeOK'
  <2>1. letters[i][n] \in {"open", "redriven", "ignored"}
    BY DEF TypeOK
  <2>2. [letters[i] EXCEPT ![n] = IF letters[i][n] = "open" THEN "redriven" ELSE letters[i][n]]
          \in Seq({"open", "redriven", "ignored"})
    BY <2>1, ResolvedLetter DEF TypeOK
  <2>3. letters' \in [Intents -> Seq({"open", "redriven", "ignored"})]
    BY <1>5, <2>2 DEF TypeOK, Redrive
  <2>4. intent' \in [Intents -> IntentRows]
    BY <1>5, RequeuedRow DEF TypeOK, Redrive
  <2>5. reading' \in [Operators -> SUBSET (Intents \X Nat)]
    BY <1>5 DEF TypeOK, Redrive
  <2> QED BY <1>5, <2>3, <2>4, <2>5 DEF TypeOK, Redrive
<1>6. ASSUME NEW i \in Intents, BackoffEnds(i) PROVE TypeOK'
  BY <1>6 DEF TypeOK, BackoffEnds, IntentRows
<1>7. ASSUME NEW i \in Intents, NEW v \in Fields, Edit(i, v) PROVE TypeOK'
  <2>1. used' \in Counts
    BY <1>7, CountsUp DEF TypeOK, Edit
  <2>2. external' \in [Intents -> Fields] /\ outside' \subseteq Intents
    BY <1>7 DEF TypeOK, Edit
  <2> QED BY <1>7, <2>1, <2>2 DEF TypeOK, Edit
<1>8. ASSUME NEW w \in Workers, Load(w) PROVE TypeOK'
  <2>1. [i \in Intents |-> IF i \in DueIntents THEN intent[i] ELSE NoRow] \in [Intents -> IntentRows]
    <3>1. NoRow \in IntentRows
      BY DEF NoRow, IntentRows, Fields
    <3> HIDE DEF NoRow
    <3> QED BY <3>1 DEF TypeOK
  <2>2. DueIntents \subseteq Intents
    BY DEF DueIntents
  <2> DEFINE read == [i \in Intents |-> IF i \in DueIntents THEN intent[i] ELSE NoRow]
  <2>3. [Idle EXCEPT !.at = "loaded", !.due = DueIntents, !.read = read] \in WorkerRecords
    <3> HIDE DEF read, Idle
    <3> QED BY <2>1, <2>2, IdleType DEF WorkerRecords, read
  <2> QED BY <1>8, <2>3 DEF TypeOK, Load
<1>9. ASSUME NEW w \in Workers, ReadCurrent(w) PROVE TypeOK'
  <2>1. Decided(worker[w].due, worker[w].read, external, "apply") \in SUBSET Intents
    BY DEF Decided, TypeOK, WorkerRecords
  <2>2. [i \in Intents |-> IF i \in worker[w].due \cap Writable THEN external[i] ELSE Absent] \in [Intents -> Fields]
    BY DEF TypeOK, Fields
  <2>3. worker' \in [Workers -> WorkerRecords]
    <3> DEFINE seen == [i \in Intents |-> IF i \in worker[w].due \cap Writable THEN external[i] ELSE Absent]
               todo == Decided(worker[w].due, worker[w].read, external, "apply")
    <3>1. worker' = [worker EXCEPT ![w] = [worker[w] EXCEPT !.at = "writing", !.seen = seen, !.todo = todo]]
      BY <1>9 DEF ReadCurrent
    <3>2. seen \in [Intents -> Fields] /\ todo \in SUBSET Intents
      BY <2>1, <2>2
    <3> HIDE DEF seen, todo
    <3>3. [worker[w] EXCEPT !.at = "writing", !.seen = seen, !.todo = todo] \in WorkerRecords
      <4>1. worker[w] \in WorkerRecords
        BY DEF TypeOK
      <4> QED BY <3>2, <4>1, WorkerUpdate
    <3> QED BY <3>1, <3>3 DEF TypeOK
  <2> QED BY <1>9, <2>3 DEF TypeOK, ReadCurrent
<1>10. ASSUME NEW w \in Workers, ReadFails(w) PROVE TypeOK'
  <2>1. [worker[w] EXCEPT !.at = "unread"] \in WorkerRecords
    <3>1. worker[w] \in WorkerRecords
      BY DEF TypeOK
    <3>2. [i \in Intents |-> Absent] \in [Intents -> Fields]
      BY DEF Fields
    <3> QED BY <3>1, <3>2, WorkerUpdate
  <2>2. worker' = [worker EXCEPT ![w] = [worker[w] EXCEPT !.at = "unread"]]
    BY <1>10 DEF ReadFails
  <2> QED BY <1>10, <2>1, <2>2 DEF TypeOK, ReadFails
<1>11. ASSUME NEW w \in Workers, NEW r \in Records, NEW done \in BOOLEAN, NEW answered \in BOOLEAN,
              Push(w, r, done, answered)
       PROVE  TypeOK'
  <2>1. external' \in [Intents -> Fields]
    BY <1>11 DEF TypeOK, Push, WorkerRecords, IntentRows
  <2>2. worker' \in [Workers -> WorkerRecords]
    <3> DEFINE sent   == {i \in worker[w].todo : RecordOf[i] = r}
               failed == IF answered THEN worker[w].failed ELSE worker[w].failed \cup sent
    <3>1. worker' = [worker EXCEPT ![w] = [worker[w] EXCEPT !.todo = worker[w].todo \ sent, !.failed = failed]]
      BY <1>11 DEF Push
    <3>2. worker[w].todo \ sent \in SUBSET Intents /\ failed \in SUBSET Intents
      BY DEF TypeOK, WorkerRecords
    <3> HIDE DEF sent, failed
    <3>3. [worker[w] EXCEPT !.todo = worker[w].todo \ sent, !.failed = failed] \in WorkerRecords
      <4>1. worker[w] \in WorkerRecords
        BY DEF TypeOK
      <4>2. [i \in Intents |-> Absent] \in [Intents -> Fields]
        BY DEF Fields
      <4> QED BY <3>2, <4>1, <4>2, WorkerUpdate
    <3> QED BY <3>1, <3>3 DEF TypeOK
  <2> QED BY <1>11, <2>1, <2>2 DEF TypeOK, Push
<1>12. ASSUME NEW w \in Workers, Persist(w) PROVE TypeOK'
  <2>1. intent' \in [Intents -> IntentRows]
    BY <1>12, RecordedRow DEF Persist
  <2>2. letters' \in [Intents -> Seq({"open", "redriven", "ignored"})]
    BY <1>12, NewLetter DEF Persist, Capture, TypeOK
  <2>3. worker' \in [Workers -> WorkerRecords]
    BY <1>12, IdleType DEF Persist, TypeOK
  <2> QED BY <1>12, <2>1, <2>2, <2>3 DEF TypeOK, Persist
<1>13. ASSUME NEW w \in Workers, Crash(w) PROVE TypeOK'
  <2>1. worker' \in [Workers -> WorkerRecords]
    BY <1>13, IdleType DEF Crash, TypeOK
  <2>2. used' \in Counts
    BY <1>13, CountsUp DEF TypeOK, Crash
  <2> QED BY <1>13, <2>1, <2>2 DEF TypeOK, Crash
<1>14. CASE UNCHANGED vars
  BY <1>14 DEF vars, TypeOK
<1> QED
  BY <1>1, <1>2, <1>3, <1>4, <1>5, <1>6, <1>7, <1>8, <1>9, <1>10, <1>11, <1>12, <1>13, <1>14
     DEF Next, Customer, WorkerStep, Pushes

-----------------------------------------------------------------------------
\* What is known of the values other people set.

\* A value that differs from the baseline the worker read is not pushed over.
LEMMA DriftedIsNotPlanned ==
    ASSUME NEW due \in SUBSET Intents, NEW read, NEW current, NEW i \in Intents,
           read[i].lastPushed \notin {Absent, current[i]}
    PROVE  i \notin Decided(due, read, current, "apply")
BY DEF Decided, Decision

LEMMA PlansStep == TypeOK /\ PlansWhatItRead /\ [Next]_vars => PlansWhatItRead'
<1> SUFFICES ASSUME TypeOK, PlansWhatItRead, [Next]_vars, NEW w \in Workers
             PROVE  worker'[w].todo \subseteq worker'[w].due
  BY DEF PlansWhatItRead
<1>1. worker \in [Workers -> WorkerRecords] /\ worker[w].todo \subseteq worker[w].due
  BY DEF TypeOK, PlansWhatItRead
<1>2. CASE worker' = worker
  BY <1>1, <1>2
<1>3. ASSUME NEW x \in Workers, Load(x) PROVE worker'[w].todo \subseteq worker'[w].due
  BY <1>1, <1>3 DEF Load, Idle
<1>4. ASSUME NEW x \in Workers, ReadCurrent(x) PROVE worker'[w].todo \subseteq worker'[w].due
  BY <1>1, <1>4 DEF ReadCurrent, Decided, WorkerRecords
<1>5. ASSUME NEW x \in Workers, ReadFails(x) PROVE worker'[w].todo \subseteq worker'[w].due
  BY <1>1, <1>5 DEF ReadFails, WorkerRecords
<1>6. ASSUME NEW x \in Workers, NEW r \in Records, NEW done \in BOOLEAN, NEW answered \in BOOLEAN,
             Push(x, r, done, answered)
      PROVE  worker'[w].todo \subseteq worker'[w].due
  BY <1>1, <1>6 DEF Push, WorkerRecords
<1>7. ASSUME NEW x \in Workers, Persist(x) \/ Crash(x) PROVE worker'[w].todo \subseteq worker'[w].due
  BY <1>1, <1>7 DEF Persist, Crash, Idle
<1> QED
  BY <1>2, <1>3, <1>4, <1>5, <1>6, <1>7
     DEF Next, Customer, WorkerStep, Pushes, Configure, Enqueue, Ignore, ReadLetter, Redrive, BackoffEnds, Edit, vars

\* The baseline of a row changes only where a tick records it as applied, and
\* such a row is not a drifted one afterwards.
LEMMA BaselineStays ==
    ASSUME TypeOK, [Next]_vars, NEW i \in Intents, intent'[i].lastPushed # intent[i].lastPushed
    PROVE  i \notin outside'
<1>1. intent \in [Intents -> IntentRows]
  BY DEF TypeOK
<1>2. CASE intent' = intent
  BY <1>2
<1>3. ASSUME NEW j \in Intents, NEW v \in Values, Enqueue(j, v) PROVE FALSE
  <2>1. [Requeued(intent[j]) EXCEPT !.desired = v].lastPushed = intent[j].lastPushed
    BY <1>1, RequeuedRow DEF IntentRows
  <2> QED BY <1>1, <1>3, <2>1 DEF Enqueue
<1>4. ASSUME NEW o \in Operators, NEW j \in Intents, NEW n \in DOMAIN letters[j], Redrive(o, j, n) PROVE FALSE
  BY <1>1, <1>4, RequeuedRow DEF Redrive
<1>5. ASSUME NEW j \in Intents, BackoffEnds(j) PROVE FALSE
  BY <1>1, <1>5 DEF BackoffEnds, IntentRows
<1>6. ASSUME NEW w \in Workers, Persist(w) PROVE i \notin outside'
  BY <1>6, RecordedRow DEF Persist
<1> QED
  BY <1>2, <1>3, <1>4, <1>5, <1>6
     DEF Next, Customer, WorkerStep, Pushes, Configure, Ignore, ReadLetter, Edit, Load, ReadCurrent, ReadFails,
         Push, Crash, vars

\* A drifted field is changed by an edit and by nothing else.
LEMMA OnlyEditsChange ==
    ASSUME TypeOK, PlansWhatItRead, Drift, [Next]_vars, NEW i \in outside, external'[i] # external[i]
    PROVE  used'.edits > used.edits /\ \E v \in Fields : Edit(i, v)
<1>1. external \in [Intents -> Fields] /\ i \in Intents /\ used \in Counts
  BY DEF TypeOK
<1>2. ASSUME NEW j \in Intents, NEW v \in Fields, Edit(j, v) PROVE used'.edits > used.edits /\ j = i
  BY <1>1, <1>2, CountsUp DEF Edit
<1>3. ASSUME NEW w \in Workers, NEW r \in Records, NEW done \in BOOLEAN, NEW answered \in BOOLEAN,
             Push(w, r, done, answered)
      PROVE  FALSE
  <2>1. i \notin worker[w].todo
    BY DEF Drift, KnowsDrift, PlansWhatItRead
  <2> QED BY <1>1, <1>3, <2>1 DEF Push
<1> QED
  BY <1>2, <1>3
     DEF Next, Customer, WorkerStep, Pushes, Configure, Enqueue, Ignore, ReadLetter, Redrive, BackoffEnds, Load,
         ReadCurrent, ReadFails, Persist, Crash, vars

LEMMA DriftStep == IInv /\ [Next]_vars => Drift'
<1> SUFFICES ASSUME IInv, [Next]_vars, NEW i \in outside'
             PROVE  /\ intent'[i].lastPushed \notin {Absent, external'[i]}
                    /\ \A w \in Workers : KnowsDrift(w, i)'
  BY DEF Drift
<1>1. TypeOK /\ PlansWhatItRead /\ Drift /\ TypeOK'
  BY TypeStep DEF IInv
<1>2. i \in Intents /\ worker \in [Workers -> WorkerRecords] /\ external \in [Intents -> Fields]
      /\ intent \in [Intents -> IntentRows]
  BY <1>1 DEF TypeOK
<1>3. CASE \E v \in Fields : Edit(i, v)
  <2>1. PICK v \in Fields : Edit(i, v)
    BY <1>3
  <2>2. Loaded(i) = {} /\ intent[i].lastPushed \notin {Absent, v}
    BY <2>1 DEF Edit
  <2>3. external'[i] = v /\ intent' = intent /\ worker' = worker
    BY <1>2, <2>1 DEF Edit
  <2>4. \A w \in Workers : i \notin worker'[w].due
    BY <2>2, <2>3 DEF Loaded
  <2> QED BY <2>2, <2>3, <2>4 DEF KnowsDrift
<1>4. CASE ~ \E v \in Fields : Edit(i, v)
  <2>1. i \in outside
    <3>1. ASSUME NEW j \in Intents, NEW v \in Fields, Edit(j, v) PROVE i \in outside
      BY <1>4, <3>1 DEF Edit
    <3>2. CASE Customer
      BY <3>2 DEF Customer, Configure, Enqueue, Ignore, ReadLetter, Redrive
    <3>3. ASSUME NEW w \in Workers, WorkerStep(w) \/ Crash(w) PROVE i \in outside
      BY <3>3 DEF WorkerStep, Pushes, Load, ReadCurrent, ReadFails, Push, Persist, Crash
    <3>4. ASSUME NEW j \in Intents, BackoffEnds(j) PROVE i \in outside
      BY <3>4 DEF BackoffEnds
    <3>5. CASE UNCHANGED vars
      BY <3>5 DEF vars
    <3> QED
      BY <3>1, <3>2, <3>3, <3>4, <3>5 DEF Next
  <2>2. external'[i] = external[i] /\ intent'[i].lastPushed = intent[i].lastPushed
    BY <1>1, <1>2, <1>4, <2>1, OnlyEditsChange, BaselineStays
  <2>3. intent[i].lastPushed \notin {Absent, external[i]} /\ \A w \in Workers : KnowsDrift(w, i)
    BY <1>1, <2>1 DEF Drift
  <2> SUFFICES ASSUME NEW w \in Workers PROVE KnowsDrift(w, i)'
    BY <2>2, <2>3
  <2>4. CASE worker'[w] = worker[w]
    BY <2>2, <2>3, <2>4 DEF KnowsDrift
  <2>5. CASE Load(w)
    <3>1. worker'[w].due = DueIntents /\ worker'[w].at = "loaded" /\ worker'[w].todo = {}
          /\ (i \in DueIntents => worker'[w].read[i] = intent[i])
      BY <1>2, <2>5 DEF Load, Idle
    <3> QED BY <2>2, <2>3, <3>1 DEF KnowsDrift
  <2>6. CASE ReadCurrent(w)
    <3>1. /\ worker'[w].due = worker[w].due /\ worker'[w].read = worker[w].read
          /\ worker'[w].todo = Decided(worker[w].due, worker[w].read, external, "apply")
          /\ worker'[w].seen = [j \in Intents |-> IF j \in worker[w].due \cap Writable THEN external[j] ELSE Absent]
      BY <1>2, <2>6 DEF ReadCurrent, WorkerRecords
    <3>2. i \in worker[w].due => i \notin worker'[w].todo
      BY <1>2, <2>3, <3>1, DriftedIsNotPlanned DEF KnowsDrift, WorkerRecords
    <3> QED BY <1>2, <2>2, <2>3, <3>1, <3>2 DEF KnowsDrift
  <2>7. CASE ReadFails(w)
    <3>1. /\ worker'[w].due = worker[w].due /\ worker'[w].read = worker[w].read
          /\ worker'[w].todo = worker[w].todo /\ worker'[w].at = "unread"
      BY <1>2, <2>7 DEF ReadFails, WorkerRecords
    <3> QED BY <2>2, <2>3, <3>1 DEF KnowsDrift
  <2>8. ASSUME NEW r \in Records, NEW done \in BOOLEAN, NEW answered \in BOOLEAN, Push(w, r, done, answered)
        PROVE  KnowsDrift(w, i)'
    <3>1. /\ worker'[w].due = worker[w].due /\ worker'[w].read = worker[w].read
          /\ worker'[w].todo \subseteq worker[w].todo /\ worker'[w].at = worker[w].at
          /\ worker'[w].seen = worker[w].seen
      BY <1>2, <2>8 DEF Push, WorkerRecords
    <3> QED BY <2>2, <2>3, <3>1 DEF KnowsDrift
  <2>9. CASE Persist(w) \/ Crash(w)
    <3>1. worker'[w].due = {}
      BY <1>2, <2>9 DEF Persist, Crash, Idle
    <3> QED BY <3>1 DEF KnowsDrift
  <2>10. ASSUME NEW x \in Workers, WorkerStep(x) \/ Crash(x), x # w PROVE worker'[w] = worker[w]
    BY <1>2, <2>10 DEF WorkerStep, Pushes, Load, ReadCurrent, ReadFails, Push, Persist, Crash
  <2>11. CASE \E x \in Workers : WorkerStep(x) \/ Crash(x)
    BY <2>4, <2>5, <2>6, <2>7, <2>8, <2>9, <2>10, <2>11 DEF WorkerStep, Pushes
  <2>12. CASE ~ \E x \in Workers : WorkerStep(x) \/ Crash(x)
    <3>1. worker' = worker
      BY <2>12 DEF Next, Customer, Configure, Enqueue, Ignore, ReadLetter, Redrive, BackoffEnds, Edit, vars
    <3> QED BY <2>4, <3>1
  <2> QED
    BY <2>11, <2>12
<1> QED
  BY <1>3, <1>4

\* The invariant of every run.
THEOREM WritebackInvariant == Spec => []IInv
<1>1. IInv /\ [Next]_vars => IInv'
  BY TypeStep, PlansStep, DriftStep DEF IInv
<1> QED
  BY InitIInv, <1>1, PTL DEF Spec

\* Rows, letters and local states are what the table and the code allow.
THEOREM WritebackTypeCorrect == Spec => []TypeOK
<1>1. IInv => TypeOK
  BY DEF IInv
<1> QED
  BY WritebackInvariant, <1>1, PTL

\* "Never silently overwrite" (connectorWritebackCore.ts:15), for any number of
\* intents, instances, requests, edits, re-drives and crashes.
THEOREM OthersValuesStayTheorem == Spec => OthersValuesStay
<1>1. IInv /\ [Next]_vars => [\A i \in outside : external'[i] # external[i] => used'.edits > used.edits]_vars
  BY OnlyEditsChange DEF IInv
<1> QED
  BY WritebackInvariant, <1>1, PTL DEF Spec, OthersValuesStay

-----------------------------------------------------------------------------
\* An unresolved letter among those of a row.
HasLetter(i) == \E n \in DOMAIN letters[i] : letters[i][n] \in {"open", "ignored"}

LEMMA LetterStep == TypeOK /\ FailureHasItsLetter /\ [Next]_vars => FailureHasItsLetter'
<1> SUFFICES ASSUME TypeOK, FailureHasItsLetter, [Next]_vars, NEW i \in Writable, intent'[i].status = "failed"
             PROVE  \E n \in DOMAIN letters'[i] : letters'[i][n] \in {"open", "ignored"}
  BY DEF FailureHasItsLetter
<1>1. /\ i \in Intents /\ intent \in [Intents -> IntentRows]
      /\ letters \in [Intents -> Seq({"open", "redriven", "ignored"})]
  BY WritableAssumption DEF TypeOK
<1>2. intent[i].status = "failed" => HasLetter(i)
  BY DEF FailureHasItsLetter, HasLetter
<1>3. CASE intent' = intent /\ letters' = letters
  BY <1>2, <1>3 DEF HasLetter
<1>4. ASSUME NEW j \in Intents, NEW v \in Values, Enqueue(j, v)
      PROVE  \E n \in DOMAIN letters'[i] : letters'[i][n] \in {"open", "ignored"}
  <2>1. j # i /\ intent'[i] = intent[i] /\ letters' = letters
    BY <1>1, <1>4, RequeuedRow DEF Enqueue
  <2> QED BY <1>2, <2>1 DEF HasLetter
<1>5. ASSUME NEW j \in Intents, NEW n \in DOMAIN letters[j], Ignore(j, n)
      PROVE  \E m \in DOMAIN letters'[i] : letters'[i][m] \in {"open", "ignored"}
  <2>1. HasLetter(i)
    BY <1>2, <1>5 DEF Ignore
  <2>2. CASE j # i
    BY <1>1, <1>5, <2>1, <2>2 DEF Ignore, HasLetter
  <2>3. CASE j = i
    <3>1. letters'[i] = [letters[i] EXCEPT ![n] = "ignored"]
      BY <1>1, <1>5, <2>3 DEF Ignore
    <3>2. DOMAIN letters'[i] = DOMAIN letters[i] /\ letters'[i][n] = "ignored"
      BY <1>1, <2>3, <3>1
    <3> QED BY <2>3, <3>2
  <2> QED BY <2>2, <2>3
<1>6. ASSUME NEW o \in Operators, NEW j \in Intents, NEW n \in DOMAIN letters[j], Redrive(o, j, n)
      PROVE  \E m \in DOMAIN letters'[i] : letters'[i][m] \in {"open", "ignored"}
  <2>1. j # i
    BY <1>1, <1>6, RequeuedRow DEF Redrive
  <2>2. intent'[i] = intent[i] /\ letters'[i] = letters[i]
    BY <1>1, <1>6, <2>1 DEF Redrive
  <2> QED BY <1>2, <2>2 DEF HasLetter
<1>7. ASSUME NEW j \in Intents, BackoffEnds(j)
      PROVE  \E n \in DOMAIN letters'[i] : letters'[i][n] \in {"open", "ignored"}
  <2>1. intent'[i].status = intent[i].status /\ letters' = letters
    BY <1>1, <1>7 DEF BackoffEnds, IntentRows
  <2> QED BY <1>2, <2>1 DEF HasLetter
<1>8. ASSUME NEW w \in Workers, Persist(w)
      PROVE  \E n \in DOMAIN letters'[i] : letters'[i][n] \in {"open", "ignored"}
  <2>1. intent'[i] = Recorded(w, i)
        /\ letters'[i] = IF i \in GivenUp(w) THEN Append(letters[i], "open") ELSE letters[i]
    BY <1>1, <1>8 DEF Persist, Capture
  <2>2. CASE i \in GivenUp(w)
    BY <1>1, <2>1, <2>2, NewLetter
  <2>3. CASE i \notin GivenUp(w)
    BY <1>1, <1>2, <2>1, <2>3, RecordedRow DEF HasLetter
  <2> QED BY <2>2, <2>3
<1> QED
  BY <1>3, <1>4, <1>5, <1>6, <1>7, <1>8
     DEF Next, Customer, WorkerStep, Pushes, Configure, ReadLetter, Edit, Load, ReadCurrent, ReadFails, Push, Crash, vars

\* Every failed write-back of a writable field has a letter to re-drive it by.
THEOREM FailureHasItsLetterTheorem == Spec => []FailureHasItsLetter
<1>1. Init => FailureHasItsLetter
  BY WritableAssumption DEF Init, FailureHasItsLetter, NoRow
<1> QED
  BY WritebackTypeCorrect, <1>1, LetterStep, PTL DEF Spec
=============================================================================
