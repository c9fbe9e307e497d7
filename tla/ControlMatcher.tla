---------------------------- MODULE ControlMatcher ----------------------------
(***************************************************************************)
(* The control suggestions of one signal for one organization: the jobs    *)
(* that ask for them, the workers that run the jobs, and the cached        *)
(* verdict of the provider.                                                *)
(*                                                                         *)
(* A job is claimed in one transaction, the verdict looked up and reserved *)
(* in a second, the provider called with no transaction open, the verdict  *)
(* settled in a third and the job in a fourth.  Both the job's lock and    *)
(* the reservation expire after fifteen minutes, and nothing that is       *)
(* written after the call asks whether they still hold.                    *)
(***************************************************************************)
EXTENDS Naturals, FiniteSets

CONSTANTS
    Jobs,               \* ids of control_matcher_suggest jobs for the signal
    Workers,            \* instances of the intelligence worker
    JobAttempts,        \* jobs.max_attempts: 5
    VerdictAttempts,    \* VERDICT_MAX_ATTEMPTS: 3
    MaxFaults,          \* bound on crashes and failed statements
    NoJob,              \* the job of an idle worker
    MaxOverruns         \* bound on locks and reservations that expire under a live worker

ASSUME AttemptsAssumption == {JobAttempts, VerdictAttempts} \subseteq Nat \ {0}
ASSUME BoundsAssumption   == {MaxFaults, MaxOverruns} \subseteq Nat
ASSUME NoJobAssumption    == NoJob \notin Jobs

VARIABLES
    job,        \* the rows of jobs
    verdict,    \* the row of llm_control_matcher_verdicts
    inputs,     \* what the matcher finds to work on
    worker,     \* what each worker is doing
    faults, overruns

vars == <<job, verdict, inputs, worker, faults, overruns>>

Settled == {"succeeded", "failed", "dead_lettered"}

\* waiting: scheduled_for is still to come.  expired: locked_at is too old.
JobRows ==
    [status : {"none", "queued", "processing"} \cup Settled, attempts : Nat,
     waiting : BOOLEAN, expired : BOOLEAN]

\* waiting: next_attempt_at is still to come.  expired: reserved_at is too old.
VerdictRows ==
    [state : {"none", "pending", "answered", "unparseable", "failed", "dead_lettered"}, attempts : Nat,
     waiting : BOOLEAN, expired : BOOLEAN]

\* attempts, claims: those of the job and of the verdict, as this worker claimed
\* them.  result: how the job is to end.
WorkerRecords ==
    [at : {"idle", "claimed", "loaded", "missed", "calling", "hit", "finishing"}, job : Jobs \cup {NoJob},
     attempts : Nat, claims : Nat, result : {"none", "success", "retryable", "permanent"}]

TypeOK ==
    /\ job \in [Jobs -> JobRows]
    /\ verdict \in VerdictRows
    /\ inputs \in {"complete", "no_controls", "no_signal"}
    /\ worker \in [Workers -> WorkerRecords]
    /\ faults \in 0..MaxFaults /\ overruns \in 0..MaxOverruns

Idle == [at |-> "idle", job |-> NoJob, attempts |-> 0, claims |-> 0, result |-> "none"]

Init ==
    /\ job = [j \in Jobs |-> [status |-> "none", attempts |-> 0, waiting |-> FALSE, expired |-> FALSE]]
    /\ verdict = [state |-> "none", attempts |-> 0, waiting |-> FALSE, expired |-> FALSE]
    /\ inputs = "complete"
    /\ worker = [w \in Workers |-> Idle]
    /\ faults = 0 /\ overruns = 0

-----------------------------------------------------------------------------
\* enqueueControlMatcherJob, in the transaction that processes the signal.

Queued == [status |-> "queued", attempts |-> 0, waiting |-> FALSE, expired |-> FALSE]

\* Only a queued job is looked for, and two producers may both find none.
Enqueue(js) ==
    /\ \A j \in Jobs : job[j].status # "queued"
    /\ js # {} /\ \A j \in js : job[j].status = "none"
    /\ job' = [j \in Jobs |-> IF j \in js THEN Queued ELSE job[j]]
    /\ UNCHANGED <<verdict, inputs, worker, faults, overruns>>

\* The last control, or the signal, is deleted.
LoseInputs(gone) ==
    /\ inputs = "complete" /\ inputs' = gone
    /\ UNCHANGED <<job, verdict, worker, faults, overruns>>

-----------------------------------------------------------------------------
\* claimNextJob.

\* Variant: a job whose worker died is not claimed again.
ClaimableOnce(j) == job[j].status = "queued" /\ ~job[j].waiting

Claimable(j) ==
    \/ job[j].status = "queued" /\ ~job[j].waiting
    \/ job[j].status = "processing" /\ job[j].expired

ClaimNextJob(w, j) ==
    /\ worker[w].at = "idle" /\ Claimable(j)
    /\ job' = [job EXCEPT ![j] = [status |-> "processing", attempts |-> @.attempts + 1,
                                  waiting |-> FALSE, expired |-> FALSE]]
    /\ worker' = [worker EXCEPT ![w] = [Idle EXCEPT !.at = "claimed", !.job = j,
                                                   !.attempts = job[j].attempts + 1]]
    /\ UNCHANGED <<verdict, inputs, faults, overruns>>

-----------------------------------------------------------------------------
\* runControlMatcherWithOutcome.

Conclude(w, result) ==
    worker' = [worker EXCEPT ![w].at = "finishing", ![w].claims = 0, ![w].result = result]

\* isRetryableNow, and the WHERE of reserveVerdict's upsert.
Retryable ==
    \/ verdict.state = "none"
    \/ verdict.state = "pending" /\ verdict.expired
    \/ verdict.state \in {"failed", "unparseable"} /\ ~verdict.waiting

LoadSignal(w) ==
    /\ worker[w].at = "claimed"
    /\ IF inputs = "no_signal" THEN Conclude(w, "permanent") ELSE worker' = [worker EXCEPT ![w].at = "loaded"]
    /\ UNCHANGED <<job, verdict, inputs, faults, overruns>>

\* Without controls, or once dead-lettered, there is nothing to do; an answer is
\* replayed; somebody else's reservation or a backoff defers the job.
LookupVerdict(w) ==
    /\ worker[w].at = "loaded"
    /\ CASE inputs # "complete" \/ verdict.state = "dead_lettered"  -> Conclude(w, "success")
         [] inputs = "complete" /\ verdict.state = "answered"       -> worker' = [worker EXCEPT ![w].at = "hit"]
         [] inputs = "complete" /\ Retryable                        -> worker' = [worker EXCEPT ![w].at = "missed"]
         [] OTHER                                                   -> Conclude(w, "retryable")
    /\ UNCHANGED <<job, verdict, inputs, faults, overruns>>

\* Variant: the upsert has no WHERE and believes the lookup.
ReserveUnconditionally(w) ==
    /\ worker[w].at = "missed"
    /\ verdict' = [state |-> "pending", attempts |-> verdict.attempts + 1, waiting |-> FALSE, expired |-> FALSE]
    /\ worker' = [worker EXCEPT ![w].at = "calling", ![w].claims = verdict.attempts + 1]
    /\ UNCHANGED <<job, inputs, faults, overruns>>

\* The winner's reservation is committed and its call goes out.
ReserveVerdict(w) ==
    /\ worker[w].at = "missed"
    /\ IF Retryable
       THEN /\ verdict' = [state |-> "pending", attempts |-> verdict.attempts + 1,
                           waiting |-> FALSE, expired |-> FALSE]
            /\ worker' = [worker EXCEPT ![w].at = "calling", ![w].claims = verdict.attempts + 1]
       ELSE Conclude(w, "retryable") /\ UNCHANGED verdict
    /\ UNCHANGED <<job, inputs, faults, overruns>>

StateAfter(kind) == IF kind = "transport" THEN "failed" ELSE "unparseable"

\* Variant: a failure is never final.
RetryForEver(kind, claims) == [state |-> StateAfter(kind), waiting |-> TRUE]

DecideVerdictFailureState(kind, claims) ==
    IF claims >= VerdictAttempts THEN [state |-> "dead_lettered", waiting |-> FALSE]
    ELSE [state |-> StateAfter(kind), waiting |-> TRUE]

\* The provider fails, or answers what cannot be parsed.  The UPDATE names the
\* key only.
RecordFailedVerdict(w) ==
    /\ worker[w].at = "calling"
    /\ \E kind \in {"transport", "unparseable"} :
          LET decision == DecideVerdictFailureState(kind, worker[w].claims)
          IN  /\ verdict' = [state |-> decision.state, attempts |-> verdict.attempts,
                             waiting |-> decision.waiting, expired |-> FALSE]
              /\ Conclude(w, IF decision.state = "dead_lettered" THEN "success" ELSE "retryable")
    /\ UNCHANGED <<job, inputs, faults, overruns>>

RecordAnsweredVerdict(w) ==
    /\ worker[w].at = "calling"
    /\ verdict' = [state |-> "answered", attempts |-> verdict.attempts, waiting |-> FALSE, expired |-> FALSE]
    /\ Conclude(w, "success")
    /\ UNCHANGED <<job, inputs, faults, overruns>>

ReplayVerdict(w) ==
    /\ worker[w].at = "hit"
    /\ Conclude(w, "success")
    /\ UNCHANGED <<job, verdict, inputs, faults, overruns>>

-----------------------------------------------------------------------------
\* processClaimedJob.

\* decideFailureState.
AfterFailure(result, attempts) ==
    CASE result = "permanent"                             -> [status |-> "failed", waiting |-> FALSE]
      [] result = "retryable" /\ attempts >= JobAttempts -> [status |-> "dead_lettered", waiting |-> FALSE]
      [] result = "retryable" /\ attempts < JobAttempts  -> [status |-> "queued", waiting |-> TRUE]

Succeed(w) ==
    /\ worker[w].at = "finishing" /\ worker[w].result = "success"
    /\ job' = [job EXCEPT ![worker[w].job].status = "succeeded", ![worker[w].job].expired = FALSE]
    /\ worker' = [worker EXCEPT ![w] = Idle]
    /\ UNCHANGED <<verdict, inputs, faults, overruns>>

RecordFailure(w) ==
    LET after == AfterFailure(worker[w].result, worker[w].attempts)
    IN  /\ worker[w].at = "finishing" /\ worker[w].result # "success"
        /\ job' = [job EXCEPT ![worker[w].job] = [status |-> after.status, attempts |-> @.attempts,
                                                  waiting |-> after.waiting, expired |-> FALSE]]
        /\ worker' = [worker EXCEPT ![w] = Idle]
        /\ UNCHANGED <<verdict, inputs, faults, overruns>>

-----------------------------------------------------------------------------
\* Time, and what goes wrong.

\* The backoff of a job or of the verdict has passed.
JobComesDue(j) ==
    /\ job[j].waiting
    /\ job' = [job EXCEPT ![j].waiting = FALSE]
    /\ UNCHANGED <<verdict, inputs, worker, faults, overruns>>

VerdictComesDue ==
    /\ verdict.waiting
    /\ verdict' = [verdict EXCEPT !.waiting = FALSE]
    /\ UNCHANGED <<job, inputs, worker, faults, overruns>>

Runs(j) == \E w \in Workers : worker[w].at # "idle" /\ worker[w].job = j

Calling == {w \in Workers : worker[w].at = "calling"}

\* Fifteen minutes have passed.  The call has no deadline of its own.
Overrun(live) == overruns' = IF live THEN overruns + 1 ELSE overruns

LockExpires(j) ==
    /\ job[j].status = "processing" /\ ~job[j].expired
    /\ Runs(j) => overruns < MaxOverruns
    /\ Overrun(Runs(j))
    /\ job' = [job EXCEPT ![j].expired = TRUE]
    /\ UNCHANGED <<verdict, inputs, worker, faults>>

ReservationExpires ==
    /\ verdict.state = "pending" /\ ~verdict.expired
    /\ Calling # {} => overruns < MaxOverruns
    /\ Overrun(Calling # {})
    /\ verdict' = [verdict EXCEPT !.expired = TRUE]
    /\ UNCHANGED <<job, inputs, worker, faults>>

Crash(w) ==
    /\ faults < MaxFaults /\ worker[w].at # "idle"
    /\ worker' = [worker EXCEPT ![w] = Idle]
    /\ faults' = faults + 1
    /\ UNCHANGED <<job, verdict, inputs, overruns>>

\* A transaction before the terminal UPDATE throws: the job may be retried.
MatcherThrows(w) ==
    /\ faults < MaxFaults /\ worker[w].at \in {"claimed", "loaded", "missed", "calling", "hit"}
    /\ Conclude(w, "retryable")
    /\ faults' = faults + 1
    /\ UNCHANGED <<job, verdict, inputs, overruns>>

\* The terminal UPDATE of the job throws and is recorded as a failure.
SuccessThrows(w) ==
    /\ faults < MaxFaults /\ worker[w].at = "finishing" /\ worker[w].result = "success"
    /\ Conclude(w, "retryable")
    /\ faults' = faults + 1
    /\ UNCHANGED <<job, verdict, inputs, overruns>>

Match(w) ==
    \/ LoadSignal(w) \/ LookupVerdict(w) \/ ReserveVerdict(w)
    \/ RecordFailedVerdict(w) \/ RecordAnsweredVerdict(w) \/ ReplayVerdict(w)

Tick(w) == (\E j \in Jobs : ClaimNextJob(w, j)) \/ Match(w) \/ Succeed(w) \/ RecordFailure(w)

Clock == (\E j \in Jobs : JobComesDue(j) \/ LockExpires(j)) \/ VerdictComesDue \/ ReservationExpires

Next ==
    \/ \E js \in SUBSET Jobs : Enqueue(js)
    \/ \E gone \in {"no_controls", "no_signal"} : LoseInputs(gone)
    \/ \E w \in Workers : Tick(w) \/ Crash(w) \/ MatcherThrows(w) \/ SuccessThrows(w)
    \/ Clock

\* The tick drains the queue every minute and the clock runs.
Spec ==
    /\ Init /\ [][Next]_vars
    /\ \A w \in Workers : WF_vars(Tick(w))
    /\ \A j \in Jobs : WF_vars(JobComesDue(j)) /\ WF_vars(LockExpires(j))
    /\ WF_vars(VerdictComesDue) /\ WF_vars(ReservationExpires)

-----------------------------------------------------------------------------
(***************************************************************************)
(* Properties.                                                             *)
(***************************************************************************)

\* Stampede control: unless a call outlives its reservation, the provider is
\* not asked twice at the same time, whatever jobs are duplicated and whoever
\* dies.
OneCallAtATime == overruns = 0 => Cardinality(Calling) <= 1

\* The verdict that was paid for is kept: without an overrun no later failure
\* overwrites an answer.
AnswerIsKept == [][overruns' = 0 /\ verdict.state = "answered" => verdict'.state = "answered"]_vars

\* The retry budget bounds what is spent; every further call is paid for by a
\* crash, a failed statement or an overrun.
CallsAreBounded == verdict.attempts <= VerdictAttempts + faults + overruns

\* Every job is settled, though its worker dies and its lock expires, and
\* though a worker that lost the job settles it late.
EveryJobSettles ==
    \A j \in Jobs : job[j].status \in {"queued", "processing"} ~> job[j].status \in Settled

=============================================================================
