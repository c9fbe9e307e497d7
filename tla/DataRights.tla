------------------------------ MODULE DataRights ------------------------------
(***************************************************************************)
(* One member of an organization and the two rights that run as jobs: the  *)
(* export of the member's data to a bundle in object storage, and the      *)
(* erasure of the account after a period of grace.                         *)
(*                                                                         *)
(* The queue is that of the control matcher: a lock that expires after     *)
(* fifteen minutes, and a settlement that names the job only.  A bundle is *)
(* stored under the id of its job; its row in data_export_files is written *)
(* afterwards.  A reap erases the account in one transaction, which locks  *)
(* the member's row, and deletes the bundles in a second one; a sweep      *)
(* deletes the bundles whose download link has expired.                    *)
(***************************************************************************)
EXTENDS Naturals, FiniteSets

CONSTANTS
    Exports,        \* ids of data_export_self jobs
    Reaps,          \* ids of account_deletion_reap jobs
    Workers,        \* instances of the data-rights worker
    Sweeps,         \* instances of the export-file purge worker
    JobAttempts,    \* jobs.max_attempts: 5
    MaxFaults,      \* bound on crashes and failed calls
    NoJob,          \* the job of an idle worker
    MaxOverruns     \* bound on locks that expire under a live worker

Jobs == Exports \cup Reaps

ASSUME AttemptsAssumption == JobAttempts \in Nat \ {0}
ASSUME BoundsAssumption   == {MaxFaults, MaxOverruns} \subseteq Nat
ASSUME JobsAssumption     == Exports \cap Reaps = {} /\ NoJob \notin Jobs

VARIABLES
    account,        \* the member's row of users
    held,           \* an active legal hold covers the member
    cancelling,     \* a request to cancel has passed the session check
    job,            \* the rows of jobs
    file,           \* the rows of data_export_files
    stored,         \* the exports whose bundle is in object storage
    worker, sweep,  \* what each process is doing
    faults, overruns

vars == <<account, held, cancelling, job, file, stored, worker, sweep, faults, overruns>>

Open    == {"queued", "processing"}
Settled == {"succeeded", "dead_lettered"}

\* grace: what deletion_scheduled_at says.  scrubbed: the personal data is gone.
AccountRows ==
    [status : {"active", "inactive", "pending_deletion", "deleted"}, grace : {"none", "running", "over"},
     scrubbed : BOOLEAN]

\* waiting: scheduled_for is still to come.  expired: locked_at is too old.
JobRows == [status : {"none"} \cup Open \cup Settled, attempts : Nat, waiting : BOOLEAN, expired : BOOLEAN]

\* The rows, each named by its job and the attempt that wrote it: those whose
\* link has expired, those purged, and those written after the erasure.
Rows      == Exports \X Nat
FileSets  == [all : SUBSET Rows, expired : SUBSET Rows, purged : SUBSET Rows, late : SUBSET Rows]
Unpurged  == file.all \ file.purged
Kept(j)   == \E f \in Unpurged : f[1] = j

\* todo, done: the rows whose bundles are still to be deleted, and are deleted.
WorkerRecords ==
    [at : {"idle", "exporting", "uploaded", "reaping", "erasing", "bundles", "purging", "finishing", "failing"},
     job : Jobs \cup {NoJob}, attempts : Nat, todo : SUBSET Rows, done : SUBSET Rows]

SweepRecords == [todo : SUBSET Rows, done : SUBSET Rows]

TypeOK ==
    /\ account \in AccountRows
    /\ {held, cancelling} \subseteq BOOLEAN
    /\ job \in [Jobs -> JobRows]
    /\ file \in FileSets
    /\ stored \in SUBSET Exports
    /\ worker \in [Workers -> WorkerRecords]
    /\ sweep \in [Sweeps -> SweepRecords]
    /\ faults \in 0..MaxFaults /\ overruns \in 0..MaxOverruns

Idle  == [at |-> "idle", job |-> NoJob, attempts |-> 0, todo |-> {}, done |-> {}]
Rests == [todo |-> {}, done |-> {}]

Init ==
    /\ account = [status |-> "active", grace |-> "none", scrubbed |-> FALSE]
    /\ held = FALSE /\ cancelling = FALSE
    /\ job = [j \in Jobs |-> [status |-> "none", attempts |-> 0, waiting |-> FALSE, expired |-> FALSE]]
    /\ file = [all |-> {}, expired |-> {}, purged |-> {}, late |-> {}]
    /\ stored = {}
    /\ worker = [w \in Workers |-> Idle]
    /\ sweep = [s \in Sweeps |-> Rests]
    /\ faults = 0 /\ overruns = 0

queue     == <<job, worker>>
bundles   == <<file, stored>>
processes == <<worker, sweep, faults, overruns>>

-----------------------------------------------------------------------------
\* The member, the administrators and the clock.

\* SELECT ... FOR UPDATE of the reap's first transaction.
RowLocked == \E w \in Workers : worker[w].at = "erasing"

WriteAccount(status, grace) ==
    /\ ~RowLocked
    /\ account' = [account EXCEPT !.status = status, !.grace = grace]
    /\ UNCHANGED <<held, job, file, stored, processes>>

RequestDeletion == account.status = "active" /\ WriteAccount("pending_deletion", "running") /\ UNCHANGED cancelling

\* A session ends with the request, so only a cancellation that was admitted
\* before it gets to its UPDATE.
AdmitCancel ==
    /\ account.status = "active" /\ ~cancelling
    /\ cancelling' = TRUE
    /\ UNCHANGED <<account, held, job, file, stored, processes>>

CancelDeletion ==
    /\ cancelling /\ cancelling' = FALSE
    /\ IF account.status = "pending_deletion" THEN WriteAccount("active", "none")
       ELSE UNCHANGED <<account, held, job, file, stored, processes>>

\* DELETE /team/members/:userId does not look at the status.
RemoveMember == account.status # "inactive" /\ WriteAccount("inactive", account.grace) /\ UNCHANGED cancelling

\* The invitation is matched by its e-mail address, which the erasure scrubs.
AcceptInvite ==
    /\ account.status = "inactive" /\ ~account.scrubbed
    /\ WriteAccount("active", account.grace) /\ UNCHANGED cancelling

PlaceHold   == ~held /\ held' = TRUE  /\ UNCHANGED <<account, cancelling, job, file, stored, processes>>
ReleaseHold == held  /\ held' = FALSE /\ UNCHANGED <<account, cancelling, job, file, stored, processes>>

GraceEnds ==
    /\ account.grace = "running" /\ account' = [account EXCEPT !.grace = "over"]
    /\ UNCHANGED <<held, cancelling, job, file, stored, processes>>

-----------------------------------------------------------------------------
\* The queue.

Queued == [status |-> "queued", attempts |-> 0, waiting |-> FALSE, expired |-> FALSE]

Enqueue(js) ==
    /\ js # {} /\ job' = [j \in Jobs |-> IF j \in js THEN Queued ELSE job[j]]
    /\ UNCHANGED <<account, held, cancelling, file, stored, processes>>

\* Two requests may both find no open export.
RequestExport(js) ==
    /\ account.status = "active"
    /\ \A j \in Exports : job[j].status \notin Open
    /\ js \subseteq {j \in Exports : job[j].status = "none"}
    /\ Enqueue(js)

\* No reap job of the account was ever written.
Never == \A r \in Reaps : job[r].status = "none"

\* No reap job of the account is open.
NoneOpen == \A r \in Reaps : job[r].status \notin Open

\* The row of a reap that has ended is never read again, so its id serves the
\* next one.
FreeReaps == {r \in Reaps : job[r].status \in {"none"} \cup Settled /\ \A w \in Workers : worker[w].job # r}

\* Two ticks may both find none.
EnqueueDueDeletions(js) ==
    /\ account.status = "pending_deletion" /\ account.grace = "over" /\ NoneOpen
    /\ js \subseteq FreeReaps
    /\ Enqueue(js)

Claimable(j) ==
    \/ job[j].status = "queued" /\ ~job[j].waiting
    \/ job[j].status = "processing" /\ job[j].expired

ClaimNextJob(w, j) ==
    /\ worker[w].at = "idle" /\ Claimable(j)
    /\ job' = [job EXCEPT ![j] = [status |-> "processing", attempts |-> @.attempts + 1,
                                  waiting |-> FALSE, expired |-> FALSE]]
    /\ worker' = [worker EXCEPT ![w] = [Idle EXCEPT !.at = IF j \in Exports THEN "exporting" ELSE "reaping",
                                                   !.job = j, !.attempts = job[j].attempts + 1]]
    /\ UNCHANGED <<account, held, cancelling, bundles, sweep, faults, overruns>>

Goto(w, stage) == worker' = [worker EXCEPT ![w].at = stage]

\* The terminal UPDATE of a job names its id only.
Succeed(w) ==
    /\ job' = [job EXCEPT ![worker[w].job].status = "succeeded", ![worker[w].job].expired = FALSE]
    /\ worker' = [worker EXCEPT ![w] = Idle]

\* decideFailureState.
AfterFailure(attempts) ==
    IF attempts >= JobAttempts THEN [status |-> "dead_lettered", waiting |-> FALSE]
    ELSE [status |-> "queued", waiting |-> TRUE]

RecordFailure(w) ==
    LET after == AfterFailure(worker[w].attempts)
    IN  /\ worker[w].at = "failing"
        /\ job' = [job EXCEPT ![worker[w].job] = [status |-> after.status, attempts |-> @.attempts,
                                                  waiting |-> after.waiting, expired |-> FALSE]]
        /\ worker' = [worker EXCEPT ![w] = Idle]
        /\ UNCHANGED <<account, held, cancelling, bundles, sweep, faults, overruns>>

-----------------------------------------------------------------------------
\* The export.

\* The multipart upload completes: the bundle is in storage, with no row yet.
UploadBundle(w) ==
    /\ worker[w].at = "exporting"
    /\ stored' = stored \cup {worker[w].job}
    /\ Goto(w, "uploaded")
    /\ UNCHANGED <<account, held, cancelling, job, file, sweep, faults, overruns>>

\* The job and the row, in one transaction.
RecordSuccess(w) ==
    LET f == <<worker[w].job, worker[w].attempts>>
    IN  /\ worker[w].at = "uploaded"
        /\ file' = [file EXCEPT !.all = @ \cup {f}, !.late = IF account.scrubbed THEN @ \cup {f} ELSE @]
        /\ Succeed(w)
        /\ UNCHANGED <<account, held, cancelling, stored, sweep, faults, overruns>>

-----------------------------------------------------------------------------
\* The reap.

\* Variant: a reap that finds nothing to erase is over.
GateEndsSkipped(w) ==
    /\ worker[w].at = "reaping" /\ ~RowLocked
    /\ Goto(w, IF account.status = "pending_deletion" /\ ~held THEN "erasing" ELSE "finishing")
    /\ UNCHANGED <<account, held, cancelling, job, bundles, sweep, faults, overruns>>

\* The gate locks the row and then looks for a hold.  A reap that finds nothing
\* to erase goes on to the bundles.
GateAccount(w) ==
    /\ worker[w].at = "reaping" /\ ~RowLocked
    /\ Goto(w, CASE account.status # "pending_deletion" -> "bundles"
                 [] account.status = "pending_deletion" /\ held -> "finishing"
                 [] account.status = "pending_deletion" /\ ~held -> "erasing")
    /\ UNCHANGED <<account, held, cancelling, job, bundles, sweep, faults, overruns>>

\* The commit of the first transaction.
EraseAccount(w) ==
    /\ worker[w].at = "erasing"
    /\ account' = [status |-> "deleted", grace |-> account.grace, scrubbed |-> TRUE]
    /\ Goto(w, "bundles")
    /\ UNCHANGED <<held, cancelling, job, bundles, sweep, faults, overruns>>

ReadBundles(w) ==
    /\ worker[w].at = "bundles"
    /\ worker' = [worker EXCEPT ![w].at = "purging", ![w].todo = Unpurged]
    /\ UNCHANGED <<account, held, cancelling, job, bundles, sweep, faults, overruns>>

DeleteBundle(w) ==
    /\ worker[w].at = "purging"
    /\ \E f \in worker[w].todo :
          /\ stored' = stored \ {f[1]}
          /\ worker' = [worker EXCEPT ![w].todo = @ \ {f}, ![w].done = @ \cup {f}]
    /\ UNCHANGED <<account, held, cancelling, job, file, sweep, faults, overruns>>

\* The marks become visible when the second transaction commits.
CommitPurge(w) ==
    /\ worker[w].at = "purging" /\ worker[w].todo = {}
    /\ file' = [file EXCEPT !.purged = @ \cup worker[w].done]
    /\ worker' = [worker EXCEPT ![w].at = "finishing", ![w].done = {}]
    /\ UNCHANGED <<account, held, cancelling, job, stored, sweep, faults, overruns>>

RecordReapSuccess(w) ==
    /\ worker[w].at = "finishing"
    /\ Succeed(w)
    /\ UNCHANGED <<account, held, cancelling, bundles, sweep, faults, overruns>>

-----------------------------------------------------------------------------
\* runExportFilePurgeSweep.

\* Variant: a bundle is purged once it has been there.
DueAtOnce == Unpurged

\* Variant: the bundles of an account that is being deleted are the reaper's.
DueOfTheLiving == IF account.status = "active" THEN file.expired \ file.purged ELSE {}

Due == file.expired \ file.purged

StartSweep(s) ==
    /\ sweep[s] = Rests /\ Due # {}
    /\ sweep' = [sweep EXCEPT ![s].todo = Due]
    /\ UNCHANGED <<account, held, cancelling, queue, bundles, faults, overruns>>

SweepDelete(s) ==
    /\ sweep[s].done = {}
    /\ \E f \in sweep[s].todo :
          /\ stored' = stored \ {f[1]}
          /\ sweep' = [sweep EXCEPT ![s] = [todo |-> @.todo \ {f}, done |-> {f}]]
    /\ UNCHANGED <<account, held, cancelling, queue, file, faults, overruns>>

SweepMark(s) ==
    /\ sweep[s].done # {}
    /\ file' = [file EXCEPT !.purged = @ \cup sweep[s].done]
    /\ sweep' = [sweep EXCEPT ![s].done = {}]
    /\ UNCHANGED <<account, held, cancelling, queue, stored, faults, overruns>>

-----------------------------------------------------------------------------
\* Time, and what goes wrong.

\* The seven days of a download link are over.
LinkExpires ==
    /\ \E f \in file.all \ file.expired : file' = [file EXCEPT !.expired = @ \cup {f}]
    /\ UNCHANGED <<account, held, cancelling, stored, queue, sweep, faults, overruns>>

JobComesDue(j) ==
    /\ job[j].waiting
    /\ job' = [job EXCEPT ![j].waiting = FALSE]
    /\ UNCHANGED <<account, held, cancelling, bundles, processes>>

Runs(j) == \E w \in Workers : worker[w].job = j

LockExpires(j) ==
    /\ job[j].status = "processing" /\ ~job[j].expired
    /\ Runs(j) => overruns < MaxOverruns
    /\ overruns' = IF Runs(j) THEN overruns + 1 ELSE overruns
    /\ job' = [job EXCEPT ![j].expired = TRUE]
    /\ UNCHANGED <<account, held, cancelling, bundles, worker, sweep, faults>>

Fault == faults < MaxFaults /\ faults' = faults + 1

Crash(w) ==
    /\ Fault /\ worker[w].at # "idle"
    /\ worker' = [worker EXCEPT ![w] = Idle]
    /\ UNCHANGED <<account, held, cancelling, job, bundles, sweep, overruns>>

\* A statement, the upload or a deletion throws: the transaction is rolled back.
\* What has left the storage has left it.
Throw(w) ==
    /\ Fault /\ worker[w].at \notin {"idle", "failing"}
    /\ worker' = [worker EXCEPT ![w].at = "failing", ![w].todo = {}, ![w].done = {}]
    /\ UNCHANGED <<account, held, cancelling, job, bundles, sweep, overruns>>

\* Variant: a bundle that could not be deleted is marked all the same.
MarkUndeleted(s) ==
    /\ Fault /\ sweep[s].done = {}
    /\ \E f \in sweep[s].todo : sweep' = [sweep EXCEPT ![s] = [todo |-> @.todo \ {f}, done |-> {f}]]
    /\ UNCHANGED <<account, held, cancelling, queue, bundles, overruns>>

\* One bundle's failure does not stop the sweep.
SweepDeleteFails(s) ==
    /\ Fault /\ sweep[s].done = {}
    /\ \E f \in sweep[s].todo : sweep' = [sweep EXCEPT ![s].todo = @ \ {f}]
    /\ UNCHANGED <<account, held, cancelling, queue, bundles, overruns>>

\* A mark that throws ends the sweep, as a crash does.
SweepCrash(s) ==
    /\ Fault /\ sweep[s] # Rests
    /\ sweep' = [sweep EXCEPT ![s] = Rests]
    /\ UNCHANGED <<account, held, cancelling, queue, bundles, overruns>>

Export(w) == UploadBundle(w) \/ RecordSuccess(w)

Reap(w) ==
    \/ GateAccount(w) \/ EraseAccount(w)
    \/ ReadBundles(w) \/ DeleteBundle(w) \/ CommitPurge(w) \/ RecordReapSuccess(w)

Tick(w) == (\E j \in Jobs : ClaimNextJob(w, j)) \/ Export(w) \/ Reap(w) \/ RecordFailure(w)

Sweep(s) == StartSweep(s) \/ SweepDelete(s) \/ SweepMark(s)

EnqueueTick == \E js \in SUBSET Reaps : EnqueueDueDeletions(js)

People ==
    \/ RequestDeletion \/ AdmitCancel \/ CancelDeletion \/ RemoveMember \/ AcceptInvite
    \/ PlaceHold \/ ReleaseHold
    \/ \E js \in SUBSET Exports : RequestExport(js)

Clock == GraceEnds \/ LinkExpires \/ \E j \in Jobs : JobComesDue(j) \/ LockExpires(j)

Next ==
    \/ People \/ EnqueueTick \/ Clock
    \/ \E w \in Workers : Tick(w) \/ Crash(w) \/ Throw(w)
    \/ \E s \in Sweeps : Sweep(s) \/ SweepDeleteFails(s) \/ SweepCrash(s)

\* The worker polls every fifteen seconds, the enqueuer and the sweep run every
\* hour, and the clock runs.
Spec ==
    /\ Init /\ [][Next]_vars
    /\ \A w \in Workers : WF_vars(Tick(w))
    /\ \A s \in Sweeps : WF_vars(Sweep(s))
    /\ WF_vars(EnqueueTick)
    /\ WF_vars(GraceEnds) /\ WF_vars(LinkExpires)
    /\ \A j \in Jobs : WF_vars(JobComesDue(j)) /\ WF_vars(LockExpires(j))

-----------------------------------------------------------------------------
(***************************************************************************)
(* Properties.                                                             *)
(***************************************************************************)

ReapUnfinished == \E r \in Reaps : job[r].status \in Open \cup {"dead_lettered"}

\* A link that still works leads to a bundle: unless a worker outlives its lock,
\* whatever has failed, a row that is neither purged nor expired has its object
\* in storage, as long as no reap of the account has come due.
LinksLeadToBundles ==
    overruns = 0 /\ Never => \A f \in Unpurged \ file.expired : f[1] \in stored

\* No bundle is forgotten: unless a worker outlives its lock, what a finished
\* export has in storage has a row by which a sweep or a reap will find it.
NoBundleIsForgotten ==
    overruns = 0 => \A j \in stored : job[j].status = "succeeded" => Kept(j)

\* The erasure is whole: unless a worker outlives its lock, once the reaps of an
\* erased account have ended, the bundles exported before the erasure are gone,
\* though the two halves of a reap are committed apart.
ErasureIsWhole ==
    overruns = 0 /\ account.scrubbed /\ ~ReapUnfinished => Unpurged \subseteq file.late

\* The seven days: the row of every bundle, a late one's too, is purged in the end.
BundlesExpire == \A j \in Exports : Kept(j) ~> ~Kept(j)

\* A request is honoured though a reap dies, fails to the last attempt or is
\* suppressed by a hold that is released later, unless it is withdrawn.
ErasureHappens == account.status = "pending_deletion" ~> account.status # "pending_deletion" \/ held

=============================================================================
