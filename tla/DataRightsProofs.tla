--------------------------- MODULE DataRightsProofs ---------------------------
(***************************************************************************)
(* What holds of DataRights for any number of exports, reaps, workers,     *)
(* sweeps, attempts and faults, as long as no worker outlives its lock.    *)
(*                                                                         *)
(* The argument: a job in hand has one worker and is not settled, so the   *)
(* row of an export that has succeeded stands alone, and nobody stores its *)
(* bundle again after it was deleted; and from the erasure on some reap    *)
(* still has the bundles before it, until none is left but late ones.      *)
(***************************************************************************)
EXTENDS DataRights, TLAPS

ExportStages == {"exporting", "uploaded"}
ReapStages   == {"reaping", "erasing", "bundles", "purging", "finishing"}

\* A worker has a job of the kind its stage is of, and an erased account is closed.
Shape ==
    /\ \A w \in Workers :
          /\ worker[w].at # "idle" => worker[w].job \in Jobs
          /\ worker[w].at = "idle" => worker[w].job = NoJob
          /\ worker[w].at \in ExportStages => worker[w].job \in Exports
          /\ worker[w].at \in ReapStages => worker[w].job \in Reaps
    /\ account.scrubbed => account.status \in {"deleted", "inactive"}

\* A job in hand is locked and has one worker.
Hands ==
    \A w \in Workers : worker[w].job \in Jobs =>
        /\ job[worker[w].job].status = "processing" /\ ~job[worker[w].job].expired
        /\ \A v \in Workers : worker[v].job = worker[w].job => v = w

\* An export that has succeeded has one row at most, and no other has any.
OneRow ==
    /\ file.expired \subseteq file.all /\ file.purged \subseteq file.all
    /\ \A f \in file.all : job[f[1]].status = "succeeded"
    /\ \A f, g \in file.all : f[1] = g[1] => f = g

\* What is to be marked has left the storage; a sweep takes expired rows only.
Marks ==
    /\ \A w \in Workers :
          /\ worker[w].todo \cup worker[w].done \subseteq file.all
          /\ \A f \in worker[w].done : f[1] \notin stored
    /\ \A s \in Sweeps :
          /\ sweep[s].todo \subseteq file.expired /\ sweep[s].done \subseteq file.all
          /\ \A f \in sweep[s].done : f[1] \notin stored

\* A bundle that waits for its row is in storage.
Uploads == \A w \in Workers : worker[w].at = "uploaded" => worker[w].job \in stored

\* The reap has the purge before it, or is at it and has read all there is to purge.
WillPurge(r) ==
    /\ job[r].status \in Open \cup {"dead_lettered"}
    /\ \A w \in Workers : worker[w].job = r =>
          /\ worker[w].at # "finishing"
          /\ worker[w].at = "purging" => Unpurged \ file.late \subseteq worker[w].todo \cup worker[w].done

\* After the erasure some reap has the purge before it, or it is done.
Whole == account.scrubbed => Unpurged \subseteq file.late \/ \E r \in Reaps : WillPurge(r)

Links   == Never => \A f \in Unpurged \ file.expired : f[1] \in stored
Bundles == \A j \in stored : job[j].status = "succeeded" => Kept(j)

Sound == Hands /\ OneRow /\ Marks /\ Uploads /\ Whole /\ Links /\ Bundles

IInv == TypeOK /\ Shape /\ (overruns = 0 => Sound)

-----------------------------------------------------------------------------
\* The start, and what leaves the queue, the rows and the storage alone.

LEMMA InitSafe == Init => IInv
<1> SUFFICES ASSUME Init PROVE IInv
    OBVIOUS
<1>1. TypeOK
    <2>1. \A j \in Jobs : job[j] \in JobRows
        BY DEF Init, JobRows
    <2>2. Idle \in WorkerRecords /\ Rests \in SweepRecords
        BY DEF Idle, Rests, WorkerRecords, SweepRecords
    <2>3. account \in AccountRows /\ file \in FileSets
        BY DEF Init, AccountRows, FileSets
    <2>4. job \in [Jobs -> JobRows]
        BY <2>1 DEF Init
    <2>5. MaxFaults \in Nat /\ MaxOverruns \in Nat
        BY BoundsAssumption
    <2>6. faults \in 0..MaxFaults /\ overruns \in 0..MaxOverruns
        BY <2>5 DEF Init
    <2>7. worker \in [Workers -> WorkerRecords] /\ sweep \in [Sweeps -> SweepRecords]
        BY <2>2 DEF Init
    <2> QED BY <2>3, <2>4, <2>6, <2>7 DEF Init, TypeOK
<1>2. Shape
    BY DEF Init, Shape, Idle, ExportStages, ReapStages
<1>3. Sound
    BY JobsAssumption
    DEF Init, Sound, Never, Hands, OneRow, Marks, Uploads, Whole, Links, Bundles, Idle, Rests, Unpurged
<1> QED BY <1>1, <1>2, <1>3 DEF IInv

\* The queue, the rows, the storage and the processes are as they were.
LEMMA AccountSafe ==
    ASSUME IInv, TypeOK', Shape', UNCHANGED <<job, file, stored, worker, sweep, overruns>>,
           account'.scrubbed = account.scrubbed
    PROVE  IInv'
<1>1. overruns' = 0 => Sound
    BY DEF IInv
<1>2. ASSUME Sound PROVE Sound'
    <2>1. Unpurged' = Unpurged /\ Never' = Never
        BY DEF Unpurged, Never
    <2>2. \A r : WillPurge(r) => WillPurge(r)'
        BY <2>1 DEF WillPurge
    <2>3. Hands' /\ OneRow' /\ Marks' /\ Uploads'
        BY <1>2 DEF Sound, Hands, OneRow, Marks, Uploads
    <2>4. Whole'
        BY <1>2, <2>1, <2>2 DEF Sound, Whole
    <2>5. Links' /\ Bundles'
        BY <1>2, <2>1 DEF Sound, Links, Bundles, Kept
    <2> QED BY <2>3, <2>4, <2>5 DEF Sound
<1> QED BY <1>1, <1>2 DEF IInv

LEMMA WriteAccountSafe ==
    ASSUME IInv, NEW status \in {"active", "inactive", "pending_deletion"},
           NEW grace \in {"none", "running", "over"}, WriteAccount(status, grace), cancelling' \in BOOLEAN,
           status # "inactive" => ~account.scrubbed
    PROVE  IInv'
<1>1. /\ account' = [account EXCEPT !.status = status, !.grace = grace]
      /\ UNCHANGED <<held, job, file, stored, worker, sweep, faults, overruns>>
    BY DEF WriteAccount, processes
<1>2. account' \in AccountRows /\ account'.scrubbed = account.scrubbed /\ account'.status = status
    BY <1>1 DEF IInv, TypeOK, AccountRows
<1>3. TypeOK'
    BY <1>1, <1>2 DEF IInv, TypeOK
<1>4. Shape'
    BY <1>1, <1>2 DEF IInv, Shape
<1> QED BY <1>1, <1>2, <1>3, <1>4, AccountSafe

\* The member, the administrators and the clock.
LEMMA PeopleSafe ==
    ASSUME IInv,
           \/ RequestDeletion \/ AdmitCancel \/ CancelDeletion \/ RemoveMember \/ AcceptInvite
           \/ PlaceHold \/ ReleaseHold \/ GraceEnds
    PROVE  IInv'
<1> USE DEF queue, bundles, processes
<1>1. /\ account \in AccountRows /\ held \in BOOLEAN /\ cancelling \in BOOLEAN
      /\ account.scrubbed => account.status \in {"deleted", "inactive"}
    BY DEF IInv, TypeOK, Shape
<1>2. account.grace \in {"none", "running", "over"} /\ account.scrubbed \in BOOLEAN
    BY <1>1 DEF AccountRows
<1>3. CASE RequestDeletion
    BY <1>1, <1>2, <1>3, WriteAccountSafe DEF RequestDeletion
<1>4. CASE CancelDeletion /\ account.status = "pending_deletion"
    BY <1>1, <1>2, <1>4, WriteAccountSafe DEF CancelDeletion
<1>5. CASE RemoveMember
    BY <1>1, <1>2, <1>5, WriteAccountSafe DEF RemoveMember
<1>6. CASE AcceptInvite
    BY <1>1, <1>2, <1>6, WriteAccountSafe DEF AcceptInvite
<1>7. CASE \/ AdmitCancel \/ PlaceHold \/ ReleaseHold \/ (CancelDeletion /\ account.status # "pending_deletion")
    <2>1. /\ held' \in BOOLEAN /\ cancelling' \in BOOLEAN
          /\ UNCHANGED <<account, job, file, stored, worker, sweep, faults, overruns>>
        BY <1>1, <1>7 DEF AdmitCancel, CancelDeletion, PlaceHold, ReleaseHold
    <2>2. TypeOK' /\ Shape'
        BY <2>1 DEF IInv, TypeOK, Shape
    <2> QED BY <2>1, <2>2, AccountSafe
<1>8. CASE GraceEnds
    <2>1. /\ account' = [account EXCEPT !.grace = "over"]
          /\ UNCHANGED <<held, cancelling, job, file, stored, worker, sweep, faults, overruns>>
        BY <1>8 DEF GraceEnds
    <2>2. account' \in AccountRows /\ account'.scrubbed = account.scrubbed /\ account'.status = account.status
        BY <1>1, <2>1 DEF AccountRows
    <2>3. TypeOK'
        BY <2>1, <2>2 DEF IInv, TypeOK
    <2>4. Shape'
        BY <2>1, <2>2 DEF IInv, Shape
    <2> QED BY <2>1, <2>2, <2>3, <2>4, AccountSafe
<1> QED BY <1>3, <1>4, <1>5, <1>6, <1>7, <1>8

LEMMA StutterSafe == ASSUME IInv, UNCHANGED vars PROVE IInv'
<1>1. TypeOK' /\ Shape'
    BY DEF vars, IInv, TypeOK, Shape
<1> QED BY <1>1, AccountSafe DEF vars

-----------------------------------------------------------------------------
\* Two facts that the steps share.

\* The worker of a job in hand is the only one, and a row's export is settled.
LEMMA InHand ==
    ASSUME TypeOK, Shape, Hands, NEW w \in Workers, worker[w].at # "idle"
    PROVE  /\ worker[w].job \in Jobs
           /\ job[worker[w].job].status = "processing" /\ ~job[worker[w].job].expired
           /\ \A v \in Workers : worker[v].job = worker[w].job => v = w
BY DEF Shape, Hands

LEMMA RowTypes ==
    ASSUME TypeOK
    PROVE  /\ file.all \subseteq Rows /\ file.expired \subseteq Rows
           /\ file.purged \subseteq Rows /\ file.late \subseteq Rows
           /\ \A f \in Rows : f[1] \in Exports /\ f[1] \in Jobs
BY DEF TypeOK, FileSets, Rows, Jobs

-----------------------------------------------------------------------------
\* The queue.

\* Jobs that nobody has in hand, and that have no row, may move in the queue.
LEMMA QueueSafe ==
    ASSUME IInv, job' \in [Jobs -> JobRows], overruns' \in 0..MaxOverruns, overruns' = 0 => overruns = 0,
           UNCHANGED <<account, held, cancelling, file, stored, worker, sweep, faults>>,
           NEW js \in SUBSET Jobs, \A j \in Jobs \ js : job'[j] = job[j],
           \A j \in js : /\ overruns' = 0 => \A w \in Workers : worker[w].job # j
                         /\ job'[j].status = "succeeded" => job[j].status = "succeeded"
                         /\ job[j].status = "succeeded" => j \in Reaps \/ job'[j].status = "succeeded"
                         /\ job'[j].status = "none" => job[j].status = "none"
                         /\ job[j].status \in Open \cup {"dead_lettered"} =>
                               job'[j].status \in Open \cup {"dead_lettered"}
    PROVE  IInv'
<1>1. TypeOK'
    BY DEF IInv, TypeOK
<1>2. Shape'
    BY DEF IInv, Shape
<1>3. ASSUME overruns' = 0 PROVE Sound'
    <2>0. TypeOK /\ Shape /\ Hands /\ OneRow /\ Marks /\ Uploads /\ Whole /\ Links /\ Bundles
        BY <1>3 DEF IInv, Sound
    <2>1. \A w \in Workers : worker[w].job \in Jobs => job'[worker[w].job] = job[worker[w].job]
        BY <1>3
    <2>2. Hands'
        BY <2>0, <2>1 DEF Hands
    <2>3. OneRow'
        <3>1. \A f \in file.all : job'[f[1]].status = "succeeded"
            BY <2>0, RowTypes, JobsAssumption DEF OneRow, Jobs
        <3> QED BY <2>0, <3>1 DEF OneRow
    <2>4. Marks' /\ Uploads'
        BY <2>0 DEF Marks, Uploads
    <2>5. Whole'
        <3>1. ASSUME NEW r \in Reaps, WillPurge(r) PROVE WillPurge(r)'
            BY <3>1 DEF WillPurge, Unpurged, Jobs
        <3> QED BY <2>0, <3>1 DEF Whole, Unpurged
    <2>6. Links'
        <3>1. Never' => Never
            BY DEF Never, Jobs
        <3> QED BY <2>0, <3>1 DEF Links, Unpurged
    <2>7. Bundles'
        <3>1. \A j \in stored : job'[j].status = "succeeded" => job[j].status = "succeeded"
            BY <2>0 DEF TypeOK, Jobs
        <3> QED BY <2>0, <3>1 DEF Bundles, Kept, Unpurged
    <2> QED BY <2>2, <2>3, <2>4, <2>5, <2>6, <2>7 DEF Sound
<1> QED BY <1>1, <1>2, <1>3 DEF IInv

LEMMA EnqueueSafe ==
    ASSUME IInv, NEW js \in SUBSET Jobs, (RequestExport(js) /\ js \subseteq Exports) \/ EnqueueDueDeletions(js)
    PROVE  IInv'
<1>1. /\ job' = [j \in Jobs |-> IF j \in js THEN Queued ELSE job[j]]
      /\ UNCHANGED <<account, held, cancelling, file, stored, worker, sweep, faults, overruns>>
    BY DEF RequestExport, EnqueueDueDeletions, Enqueue, processes
<1>2. Queued \in JobRows
    BY DEF Queued, JobRows, Open
<1>3. job \in [Jobs -> JobRows] /\ overruns \in 0..MaxOverruns
    BY DEF IInv, TypeOK
<1>4. job' \in [Jobs -> JobRows] /\ \A j \in Jobs \ js : job'[j] = job[j]
    BY <1>1, <1>2, <1>3
<1>5. \A j \in js : job'[j].status = "queued"
    BY <1>1 DEF Queued
<1>6. ASSUME RequestExport(js), js \subseteq Exports, NEW j \in js PROVE job[j].status = "none"
    BY <1>6 DEF RequestExport
<1>7. ASSUME EnqueueDueDeletions(js), NEW j \in js
      PROVE  j \in Reaps /\ \A w \in Workers : worker[w].job # j
    BY <1>7 DEF EnqueueDueDeletions, FreeReaps
<1>8. ASSUME overruns = 0, RequestExport(js), js \subseteq Exports, NEW j \in js, NEW w \in Workers
      PROVE  worker[w].job # j
    BY <1>6, <1>8 DEF IInv, Sound, Hands
<1>9. \A j \in js : \/ job[j].status = "none"
                    \/ j \in Reaps
    BY <1>6, <1>7
<1> QED BY <1>1, <1>3, <1>4, <1>5, <1>7, <1>8, <1>9, QueueSafe DEF Open

LEMMA JobComesDueSafe == ASSUME IInv, NEW j \in Jobs, JobComesDue(j) PROVE IInv'
<1>1. /\ job' = [job EXCEPT ![j].waiting = FALSE] /\ job[j].waiting
      /\ UNCHANGED <<account, held, cancelling, file, stored, worker, sweep, faults, overruns>>
    BY DEF JobComesDue, bundles, processes
<1>2. TypeOK /\ Shape /\ job \in [Jobs -> JobRows]
    BY DEF IInv, TypeOK
<1>3. /\ job' \in [Jobs -> JobRows] /\ \A i \in Jobs : job'[i].status = job[i].status
      /\ \A i \in Jobs : job'[i].expired = job[i].expired
    BY <1>1, <1>2 DEF JobRows
<1>4. TypeOK' /\ Shape'
    BY <1>1, <1>2, <1>3 DEF TypeOK, Shape
<1>5. ASSUME Sound PROVE Sound'
    <2>1. Hands' /\ Marks' /\ Uploads'
        BY <1>1, <1>3, <1>5 DEF Sound, Hands, Marks, Uploads
    <2>2. OneRow'
        BY <1>1, <1>2, <1>3, <1>5, RowTypes DEF Sound, OneRow
    <2>3. \A r \in Reaps : WillPurge(r) => WillPurge(r)'
        BY <1>1, <1>3 DEF WillPurge, Unpurged, Jobs
    <2>4. Whole'
        BY <1>1, <1>5, <2>3 DEF Sound, Whole, Unpurged
    <2>5. Never' = Never
        BY <1>3 DEF Never, Jobs
    <2>6. Links'
        BY <1>1, <1>5, <2>5 DEF Sound, Links, Unpurged
    <2>7. stored \subseteq Jobs
        BY <1>2 DEF TypeOK, Jobs
    <2>8. Bundles'
        BY <1>1, <1>3, <1>5, <2>7 DEF Sound, Bundles, Kept, Unpurged
    <2> QED BY <2>1, <2>2, <2>4, <2>6, <2>8 DEF Sound
<1> QED BY <1>1, <1>4, <1>5 DEF IInv

LEMMA LockExpiresSafe == ASSUME IInv, NEW j \in Jobs, LockExpires(j) PROVE IInv'
<1>1. /\ job[j].status = "processing" /\ job' = [job EXCEPT ![j].expired = TRUE]
      /\ Runs(j) => overruns < MaxOverruns
      /\ overruns' = IF Runs(j) THEN overruns + 1 ELSE overruns
      /\ UNCHANGED <<account, held, cancelling, file, stored, worker, sweep, faults>>
    BY DEF LockExpires, bundles
<1>2. job \in [Jobs -> JobRows] /\ overruns \in 0..MaxOverruns /\ MaxOverruns \in Nat
    BY BoundsAssumption DEF IInv, TypeOK
<1>3. overruns' \in 0..MaxOverruns
    BY <1>1, <1>2
<1>4. overruns' = 0 => ~Runs(j) /\ overruns = 0
    BY <1>1, <1>2
<1>5. /\ job' \in [Jobs -> JobRows] /\ \A i \in Jobs \ {j} : job'[i] = job[i]
      /\ job'[j].status = "processing"
    BY <1>1, <1>2 DEF JobRows
<1>6. overruns' = 0 => \A w \in Workers : worker[w].job # j
    BY <1>4 DEF Runs
<1>7. {j} \in SUBSET Jobs
    OBVIOUS
<1>8. UNCHANGED <<account, held, cancelling, file, stored, worker, sweep, faults>>
    BY <1>1
<1>9. \A i \in {j} : /\ overruns' = 0 => \A w \in Workers : worker[w].job # i
                     /\ job[i].status = "processing" /\ job'[i].status = "processing"
    BY <1>1, <1>5, <1>6
<1> QED BY <1>3, <1>4, <1>5, <1>7, <1>8, <1>9, QueueSafe DEF Open

-----------------------------------------------------------------------------
\* A worker moves from stage to stage.

\* The worker moves, nothing else does, and it keeps its job or comes to rest.
LEMMA MoveSafe ==
    ASSUME IInv, NEW w \in Workers, NEW rec \in WorkerRecords, worker' = [worker EXCEPT ![w] = rec],
           UNCHANGED <<held, cancelling, job, file, stored, sweep, overruns>>, faults' \in 0..MaxFaults,
           account' = account,
           \/ rec = Idle
           \/ /\ worker[w].at # "idle" /\ rec.at # "idle" /\ rec.job = worker[w].job
              /\ rec.at \in ExportStages => rec.job \in Exports
              /\ rec.at \in ReapStages => rec.job \in Reaps,
           rec.todo \subseteq worker[w].todo \cup Unpurged, rec.done \subseteq worker[w].done,
           rec.at = "uploaded" => worker[w].at = "uploaded",
           rec.at = "finishing" => worker[w].at = "finishing" \/ ~account.scrubbed,
           rec.at = "purging" => Unpurged \subseteq rec.todo
    PROVE  IInv'
<1>0. TypeOK /\ Shape /\ worker \in [Workers -> WorkerRecords]
    BY DEF IInv, TypeOK
<1>1. worker'[w] = rec /\ \A v \in Workers \ {w} : worker'[v] = worker[v]
    BY <1>0
<1>2. TypeOK'
    BY <1>0 DEF TypeOK
<1>3. Shape'
    <2>1. Idle.at = "idle" /\ Idle.job = NoJob
        BY DEF Idle
    <2>2. /\ rec.at # "idle" => rec.job \in Jobs
          /\ rec.at = "idle" => rec.job = NoJob
          /\ rec.at \in ExportStages => rec.job \in Exports
          /\ rec.at \in ReapStages => rec.job \in Reaps
        BY <1>0, <2>1 DEF Shape, ExportStages, ReapStages
    <2> QED BY <1>0, <1>1, <2>2 DEF Shape
<1>4. ASSUME overruns' = 0 PROVE Sound'
    <2>0. Hands /\ OneRow /\ Marks /\ Uploads /\ Whole /\ Links /\ Bundles
        BY <1>4 DEF IInv, Sound
    <2>1. \A v \in Workers : worker'[v].job \in Jobs => worker'[v].job = worker[v].job
        BY <1>1, JobsAssumption DEF Idle
    <2>2. Hands'
        BY <2>0, <2>1 DEF Hands
    <2>3. OneRow' /\ Links' /\ Bundles'
        BY <2>0 DEF OneRow, Links, Bundles, Never, Unpurged, Kept
    <2>4. Marks'
        BY <1>1, <2>0 DEF Marks, Unpurged
    <2>5. Uploads'
        BY <1>1, <2>0 DEF Uploads, Idle
    <2>6. Whole'
        <3>1. ASSUME account.scrubbed, NEW r \in Reaps, WillPurge(r) PROVE WillPurge(r)'
            <4>1. r \in Jobs /\ r # NoJob
                BY JobsAssumption DEF Jobs
            <4>2. CASE rec = Idle
                BY <1>1, <3>1, <4>1, <4>2 DEF WillPurge, Unpurged, Idle
            <4>3. CASE rec.job = worker[w].job
                BY <1>1, <3>1, <4>3 DEF WillPurge, Unpurged
            <4> QED BY <4>2, <4>3
        <3> QED BY <2>0, <3>1 DEF Whole, Unpurged
    <2> QED BY <2>2, <2>3, <2>4, <2>5, <2>6 DEF Sound
<1> QED BY <1>2, <1>3, <1>4 DEF IInv

LEMMA CrashOrThrowSafe == ASSUME IInv, NEW w \in Workers, Crash(w) \/ Throw(w) PROVE IInv'
<1>0. /\ worker[w] \in WorkerRecords /\ worker[w].at # "idle" /\ faults' \in 0..MaxFaults
      /\ UNCHANGED <<account, held, cancelling, job, file, stored, sweep, overruns>>
    BY BoundsAssumption DEF IInv, TypeOK, Crash, Throw, Fault, bundles
<1>1. CASE Crash(w)
    <2>1. Idle \in WorkerRecords /\ Idle.at = "idle" /\ Idle.todo = {} /\ Idle.done = {}
        BY DEF Idle, WorkerRecords
    <2> QED BY <1>0, <1>1, <2>1, MoveSafe DEF Crash
<1>2. CASE Throw(w)
    <2> DEFINE rec == [worker[w] EXCEPT !.at = "failing", !.todo = {}, !.done = {}]
    <2>1. worker' = [worker EXCEPT ![w] = rec]
        BY <1>0, <1>2 DEF Throw, WorkerRecords, IInv, TypeOK
    <2>2. /\ rec \in WorkerRecords /\ rec.at = "failing" /\ rec.job = worker[w].job
          /\ rec.todo = {} /\ rec.done = {}
        BY <1>0 DEF WorkerRecords
    <2>3. rec.at \notin ExportStages \cup ReapStages
        BY <2>2 DEF ExportStages, ReapStages
    <2> QED
        <3> HIDE DEF rec
        <3> QED BY <1>0, <2>1, <2>2, <2>3, MoveSafe
<1> QED BY <1>1, <1>2

LEMMA GateAccountSafe == ASSUME IInv, NEW w \in Workers, GateAccount(w) PROVE IInv'
<1> DEFINE stage == CASE account.status # "pending_deletion" -> "bundles"
                      [] account.status = "pending_deletion" /\ held -> "finishing"
                      [] account.status = "pending_deletion" /\ ~held -> "erasing"
           rec   == [worker[w] EXCEPT !.at = stage]
<1>0. /\ worker[w] \in WorkerRecords /\ worker[w].at = "reaping" /\ worker[w].job \in Reaps
      /\ UNCHANGED <<account, held, cancelling, job, file, stored, sweep, faults, overruns>>
    BY DEF IInv, TypeOK, Shape, GateAccount, bundles, ReapStages
<1>1. worker' = [worker EXCEPT ![w] = rec] /\ faults' \in 0..MaxFaults
    BY <1>0 DEF GateAccount, Goto, IInv, TypeOK
<1>2. held \in BOOLEAN /\ (account.scrubbed => account.status # "pending_deletion")
    BY DEF IInv, TypeOK, Shape
<1>3. stage \in {"bundles", "finishing", "erasing"} /\ (stage = "finishing" => ~account.scrubbed)
    BY <1>2
<1>4. /\ rec \in WorkerRecords /\ rec.at = stage /\ rec.job = worker[w].job
      /\ rec.todo = worker[w].todo /\ rec.done = worker[w].done
    <2> HIDE DEF stage
    <2> QED BY <1>0, <1>3 DEF WorkerRecords
<1>5. rec.at \notin ExportStages
    BY <1>3, <1>4 DEF ExportStages
<1> QED
    <2> HIDE DEF rec, stage
    <2> QED BY <1>0, <1>1, <1>3, <1>4, <1>5, MoveSafe

LEMMA ReadBundlesSafe == ASSUME IInv, NEW w \in Workers, ReadBundles(w) PROVE IInv'
<1> DEFINE rec == [worker[w] EXCEPT !.at = "purging", !.todo = Unpurged]
<1>0. /\ worker[w] \in WorkerRecords /\ worker[w].at = "bundles" /\ worker[w].job \in Reaps
      /\ UNCHANGED <<account, held, cancelling, job, file, stored, sweep, faults, overruns>>
      /\ Unpurged \in SUBSET Rows /\ faults' \in 0..MaxFaults
    BY RowTypes DEF IInv, TypeOK, Shape, ReadBundles, bundles, ReapStages, Unpurged
<1>1. worker' = [worker EXCEPT ![w] = rec]
    BY <1>0 DEF ReadBundles, IInv, TypeOK, WorkerRecords
<1>2. /\ rec \in WorkerRecords /\ rec.at = "purging" /\ rec.job = worker[w].job
      /\ rec.todo = Unpurged /\ rec.done = worker[w].done
    BY <1>0 DEF WorkerRecords
<1>3. rec.at \notin ExportStages
    BY <1>2 DEF ExportStages
<1> QED
    <2> HIDE DEF rec
    <2> QED BY <1>0, <1>1, <1>2, <1>3, MoveSafe

\* A job ends or goes back to the queue, and its worker is free.
LEMMA SettleSafe ==
    ASSUME IInv, NEW w \in Workers, worker[w].at # "idle", worker' = [worker EXCEPT ![w] = Idle],
           NEW row \in JobRows, job' = [job EXCEPT ![worker[w].job] = row],
           UNCHANGED <<account, held, cancelling, file, stored, sweep, faults, overruns>>,
           \/ row.status \in {"queued", "dead_lettered"}
           \/ row.status = "succeeded" /\ worker[w].at = "finishing"
    PROVE  IInv'
<1>0. TypeOK /\ Shape /\ worker \in [Workers -> WorkerRecords] /\ job \in [Jobs -> JobRows]
    BY DEF IInv, TypeOK
<1>1. worker'[w] = Idle /\ \A v \in Workers \ {w} : worker'[v] = worker[v]
    BY <1>0
<1>2. worker[w].job \in Jobs
    BY <1>0 DEF Shape
<1>3. job'[worker[w].job] = row /\ \A j \in Jobs \ {worker[w].job} : job'[j] = job[j]
    BY <1>0, <1>2
<1>4. TypeOK'
    <2>1. Idle \in WorkerRecords
        BY DEF Idle, WorkerRecords
    <2> QED BY <1>0, <2>1 DEF TypeOK
<1>5. Shape'
    BY <1>0, <1>1 DEF Shape, Idle, ExportStages, ReapStages
<1>6. ASSUME overruns' = 0 PROVE Sound'
    <2>0. Hands /\ OneRow /\ Marks /\ Uploads /\ Whole /\ Links /\ Bundles
        BY <1>6 DEF IInv, Sound
    <2>1. /\ job[worker[w].job].status = "processing"
          /\ \A v \in Workers : worker[v].job = worker[w].job => v = w
        BY <1>0, <2>0, InHand
    <2>2. row.status = "succeeded" => worker[w].job \notin Exports
        BY <1>0, JobsAssumption DEF Shape, ReapStages
    <2>3. Hands'
        BY <1>1, <1>3, <2>0, <2>1, JobsAssumption DEF Hands, Idle
    <2>4. OneRow'
        BY <1>0, <1>3, <2>0, <2>1, RowTypes DEF OneRow
    <2>5. Marks' /\ Uploads'
        BY <1>1, <2>0 DEF Marks, Uploads, Idle
    <2>6. Whole'
        <3>1. ASSUME NEW r \in Reaps, WillPurge(r) PROVE WillPurge(r)'
            <4>1. r \in Jobs /\ r # NoJob
                BY JobsAssumption DEF Jobs
            <4>2. r = worker[w].job => row.status \in Open \cup {"dead_lettered"}
                BY <3>1 DEF WillPurge, Open
            <4>3. job'[r].status \in Open \cup {"dead_lettered"}
                BY <1>3, <3>1, <4>1, <4>2 DEF WillPurge
            <4> QED BY <1>1, <3>1, <4>1, <4>3 DEF WillPurge, Unpurged, Idle
        <3> QED BY <2>0, <3>1 DEF Whole, Unpurged
    <2>7. Links'
        <3>1. Never' => Never
            BY <1>3 DEF Never, Jobs
        <3> QED BY <2>0, <3>1 DEF Links, Unpurged
    <2>8. Bundles'
        <3>1. \A j \in stored : j \in Exports /\ j \in Jobs
            BY <1>0 DEF TypeOK, Jobs
        <3>2. \A j \in stored : job'[j].status = "succeeded" => job[j].status = "succeeded"
            BY <1>3, <2>2, <3>1
        <3> QED BY <2>0, <3>2 DEF Bundles, Kept, Unpurged
    <2> QED BY <2>3, <2>4, <2>5, <2>6, <2>7, <2>8 DEF Sound
<1> QED BY <1>4, <1>5, <1>6 DEF IInv

LEMMA RecordFailureSafe == ASSUME IInv, NEW w \in Workers, RecordFailure(w) PROVE IInv'
<1> DEFINE after == AfterFailure(worker[w].attempts)
           row   == [status |-> after.status, attempts |-> job[worker[w].job].attempts,
                     waiting |-> after.waiting, expired |-> FALSE]
<1>0. worker[w].job \in Jobs /\ worker[w].at = "failing" /\ job \in [Jobs -> JobRows]
    BY DEF IInv, TypeOK, Shape, RecordFailure
<1>1. after.status \in {"queued", "dead_lettered"} /\ after.waiting \in BOOLEAN
    BY DEF AfterFailure
<1>2. row \in JobRows /\ row.status \in {"queued", "dead_lettered"}
    <2> HIDE DEF after
    <2> QED BY <1>0, <1>1 DEF JobRows, Open, Settled
<1>3. /\ job' = [job EXCEPT ![worker[w].job] = row] /\ worker' = [worker EXCEPT ![w] = Idle]
      /\ UNCHANGED <<account, held, cancelling, file, stored, sweep, faults, overruns>>
    BY <1>0 DEF RecordFailure, bundles
<1> QED
    <2> HIDE DEF row
    <2> QED BY <1>0, <1>2, <1>3, SettleSafe

LEMMA RecordReapSuccessSafe == ASSUME IInv, NEW w \in Workers, RecordReapSuccess(w) PROVE IInv'
<1> DEFINE row == [job[worker[w].job] EXCEPT !.status = "succeeded", !.expired = FALSE]
<1>0. worker[w].job \in Jobs /\ worker[w].at = "finishing" /\ job \in [Jobs -> JobRows]
    BY DEF IInv, TypeOK, Shape, RecordReapSuccess
<1>1. row \in JobRows /\ row.status = "succeeded"
    <2>1. job[worker[w].job] \in JobRows
        BY <1>0
    <2> QED BY <2>1 DEF JobRows, Settled
<1>2. /\ worker' = [worker EXCEPT ![w] = Idle]
      /\ UNCHANGED <<account, held, cancelling, file, stored, sweep, faults, overruns>>
      /\ job' = [job EXCEPT ![worker[w].job].status = "succeeded", ![worker[w].job].expired = FALSE]
    BY DEF RecordReapSuccess, Succeed, bundles
<1>3. job' = [job EXCEPT ![worker[w].job] = row]
    <2>1. /\ job' \in [Jobs -> JobRows] /\ \A j \in Jobs \ {worker[w].job} : job'[j] = job[j]
          /\ job'[worker[w].job] = row
        BY <1>0, <1>2 DEF JobRows, Settled
    <2> HIDE DEF row
    <2> QED BY <1>0, <2>1
<1> QED
    <2> HIDE DEF row
    <2> QED BY <1>0, <1>1, <1>2, <1>3, SettleSafe

LEMMA ClaimNextJobSafe == ASSUME IInv, NEW w \in Workers, NEW j \in Jobs, ClaimNextJob(w, j) PROVE IInv'
<1> DEFINE row == [status |-> "processing", attempts |-> job[j].attempts + 1, waiting |-> FALSE, expired |-> FALSE]
           stage == IF j \in Exports THEN "exporting" ELSE "reaping"
           rec == [Idle EXCEPT !.at = stage, !.job = j, !.attempts = job[j].attempts + 1]
<1>0. /\ TypeOK /\ Shape /\ job \in [Jobs -> JobRows] /\ worker \in [Workers -> WorkerRecords]
      /\ worker[w].at = "idle" /\ Claimable(j)
      /\ UNCHANGED <<account, held, cancelling, file, stored, sweep, faults, overruns>>
    BY DEF IInv, TypeOK, ClaimNextJob, bundles
<1>1. /\ row \in JobRows /\ rec \in WorkerRecords
      /\ rec.at = stage /\ rec.job = j /\ rec.todo = {} /\ rec.done = {}
    <2>1. row \in JobRows
        BY <1>0 DEF JobRows, Open
    <2>2. Idle \in WorkerRecords /\ Idle.todo = {} /\ Idle.done = {}
        BY DEF Idle, WorkerRecords
    <2>3. stage \in {"exporting", "reaping"} /\ job[j].attempts + 1 \in Nat
        BY <1>0 DEF JobRows
    <2>4. rec \in WorkerRecords /\ rec.at = stage /\ rec.job = j /\ rec.todo = {} /\ rec.done = {}
        <3> HIDE DEF stage
        <3> QED BY <2>2, <2>3 DEF WorkerRecords
    <2> QED BY <2>1, <2>4
<1>2. job' = [job EXCEPT ![j] = row] /\ worker' = [worker EXCEPT ![w] = rec]
    <2>1. job' = [job EXCEPT ![j] = row]
        BY <1>0 DEF ClaimNextJob
    <2> QED BY <2>1 DEF ClaimNextJob
<1> HIDE DEF rec
<1>3. /\ job'[j].status = "processing" /\ ~job'[j].expired /\ \A i \in Jobs \ {j} : job'[i] = job[i]
      /\ worker'[w] = rec /\ \A v \in Workers \ {w} : worker'[v] = worker[v]
    BY <1>0, <1>2
<1>4. TypeOK'
    <2> HIDE DEF row, rec
    <2> QED BY <1>0, <1>1, <1>2 DEF TypeOK
<1>5. Shape'
    <2>1. /\ rec.at # "idle" /\ rec.job \in Jobs
          /\ rec.at \in ExportStages => rec.job \in Exports
          /\ rec.at \in ReapStages => rec.job \in Reaps
        BY <1>1 DEF ExportStages, ReapStages, Jobs
    <2> QED BY <1>0, <1>3, <2>1 DEF Shape
<1>6. ASSUME overruns' = 0 PROVE Sound'
    <2>0. Hands /\ OneRow /\ Marks /\ Uploads /\ Whole /\ Links /\ Bundles
        BY <1>0, <1>6 DEF IInv, Sound
    <2>1. \A v \in Workers : worker[v].job # j
        BY <1>0, <2>0 DEF Hands, Claimable
    <2>2. job[j].status \in Open
        BY <1>0 DEF Claimable, Open
    <2>3. Hands'
        BY <1>1, <1>3, <2>0, <2>1 DEF Hands
    <2>4. OneRow'
        BY <1>0, <1>3, <2>0, <2>2, RowTypes DEF OneRow, Open
    <2>5. Marks' /\ Uploads'
        BY <1>0, <1>1, <1>3, <2>0 DEF Marks, Uploads
    <2>6. Whole'
        <3>1. ASSUME NEW r \in Reaps, WillPurge(r) PROVE WillPurge(r)'
            <4>1. r \in Jobs
                BY DEF Jobs
            <4>2. job'[r].status \in Open \cup {"dead_lettered"}
                BY <1>3, <3>1, <4>1 DEF WillPurge, Open
            <4> QED BY <1>0, <1>1, <1>3, <3>1, <4>1, <4>2 DEF WillPurge, Unpurged
        <3> QED BY <1>0, <2>0, <3>1 DEF Whole, Unpurged
    <2>7. Links'
        <3>1. Never' => Never
            BY <1>3 DEF Never, Jobs
        <3> QED BY <1>0, <2>0, <3>1 DEF Links, Unpurged
    <2>8. Bundles'
        <3>1. \A i \in stored : i \in Jobs
            BY <1>0 DEF TypeOK, Jobs
        <3>2. \A i \in stored : job'[i].status = "succeeded" => job[i].status = "succeeded"
            BY <1>3, <3>1
        <3> QED BY <1>0, <2>0, <3>2 DEF Bundles, Kept, Unpurged
    <2> QED BY <2>3, <2>4, <2>5, <2>6, <2>7, <2>8 DEF Sound
<1> QED BY <1>4, <1>5, <1>6 DEF IInv

-----------------------------------------------------------------------------
\* The export.

LEMMA UploadBundleSafe == ASSUME IInv, NEW w \in Workers, UploadBundle(w) PROVE IInv'
<1>0. /\ TypeOK /\ Shape /\ worker \in [Workers -> WorkerRecords] /\ stored \subseteq Exports
      /\ worker[w].at = "exporting" /\ worker[w].job \in Exports
      /\ UNCHANGED <<account, held, cancelling, job, file, sweep, faults, overruns>>
      /\ stored' = stored \cup {worker[w].job} /\ worker' = [worker EXCEPT ![w].at = "uploaded"]
    BY DEF IInv, TypeOK, Shape, ExportStages, UploadBundle, Goto
<1>1. /\ worker' \in [Workers -> WorkerRecords]
      /\ \A v \in Workers \ {w} : worker'[v] = worker[v]
      /\ worker'[w].at = "uploaded"
      /\ \A v \in Workers : /\ worker'[v].job = worker[v].job
                            /\ worker'[v].todo = worker[v].todo /\ worker'[v].done = worker[v].done
    BY <1>0 DEF WorkerRecords
<1>2. TypeOK'
    BY <1>0, <1>1 DEF TypeOK
<1>3. Shape'
    BY <1>0, <1>1 DEF Shape, ExportStages, ReapStages, Jobs
<1>4. ASSUME overruns' = 0 PROVE Sound'
    <2>0. Hands /\ OneRow /\ Marks /\ Uploads /\ Whole /\ Links /\ Bundles
        BY <1>0, <1>4 DEF IInv, Sound
    <2>1. job[worker[w].job].status = "processing"
        BY <1>0, <2>0, InHand
    <2>2. \A f \in file.all : f[1] # worker[w].job
        BY <2>0, <2>1 DEF OneRow
    <2>3. Hands' /\ OneRow'
        BY <1>0, <1>1, <2>0 DEF Hands, OneRow
    <2>4. Marks'
        BY <1>0, <1>1, <2>0, <2>2 DEF Marks
    <2>5. Uploads'
        BY <1>0, <1>1, <2>0 DEF Uploads
    <2>6. Whole'
        <3>1. ASSUME NEW r \in Reaps, WillPurge(r) PROVE WillPurge(r)'
            <4>1. worker[w].job # r
                BY <1>0, JobsAssumption
            <4> QED BY <1>0, <1>1, <3>1, <4>1 DEF WillPurge, Unpurged
        <3> QED BY <1>0, <2>0, <3>1 DEF Whole, Unpurged
    <2>7. Links' /\ Bundles'
        BY <1>0, <2>0, <2>1 DEF Links, Bundles, Never, Kept, Unpurged
    <2> QED BY <2>3, <2>4, <2>5, <2>6, <2>7 DEF Sound
<1> QED BY <1>2, <1>3, <1>4 DEF IInv

LEMMA RecordSuccessSafe == ASSUME IInv, NEW w \in Workers, RecordSuccess(w) PROVE IInv'
<1> DEFINE f == <<worker[w].job, worker[w].attempts>>
           j == worker[w].job
<1>0. /\ TypeOK /\ Shape /\ worker \in [Workers -> WorkerRecords] /\ job \in [Jobs -> JobRows] /\ file \in FileSets
      /\ worker[w].at = "uploaded" /\ j \in Exports /\ j \in Jobs /\ f \in Rows /\ f[1] = j
      /\ UNCHANGED <<account, held, cancelling, stored, sweep, faults, overruns>>
    BY DEF IInv, TypeOK, Shape, ExportStages, RecordSuccess, Jobs, Rows, WorkerRecords
<1>1. /\ job' = [job EXCEPT ![j].status = "succeeded", ![j].expired = FALSE] /\ worker' = [worker EXCEPT ![w] = Idle]
      /\ file' = [file EXCEPT !.all = @ \cup {f}, !.late = IF account.scrubbed THEN @ \cup {f} ELSE @]
    BY DEF RecordSuccess, Succeed
<1> HIDE DEF f
<1>2. /\ file' \in FileSets /\ file'.all = file.all \cup {f}
      /\ file'.expired = file.expired /\ file'.purged = file.purged /\ file.late \subseteq file'.late
      /\ account.scrubbed => f \in file'.late
    BY <1>0, <1>1 DEF FileSets
<1>3. job' \in [Jobs -> JobRows] /\ job'[j].status = "succeeded" /\ \A i \in Jobs \ {j} : job'[i] = job[i]
    BY <1>0, <1>1 DEF JobRows, Settled
<1>4. worker'[w] = Idle /\ \A v \in Workers \ {w} : worker'[v] = worker[v]
    BY <1>0, <1>1
<1>5. TypeOK'
    <2>1. Idle \in WorkerRecords
        BY DEF Idle, WorkerRecords
    <2> QED BY <1>0, <1>1, <1>2, <1>3, <2>1 DEF TypeOK
<1>6. Shape'
    BY <1>0, <1>4 DEF Shape, Idle, ExportStages, ReapStages
<1>7. ASSUME overruns' = 0 PROVE Sound'
    <2>0. Hands /\ OneRow /\ Marks /\ Uploads /\ Whole /\ Links /\ Bundles
        BY <1>0, <1>7 DEF IInv, Sound
    <2>1. job[j].status = "processing" /\ \A v \in Workers : worker[v].job = j => v = w
        BY <1>0, <2>0, InHand
    <2>2. \A g \in file.all : g[1] # j /\ g[1] \in Jobs
        BY <1>0, <2>0, <2>1, RowTypes DEF OneRow
    <2>3. Hands'
        BY <1>3, <1>4, <2>0, <2>1, JobsAssumption DEF Hands, Idle
    <2>4. OneRow'
        BY <1>0, <1>2, <1>3, <2>0, <2>2 DEF OneRow
    <2>5. Marks' /\ Uploads'
        BY <1>0, <1>2, <1>4, <2>0 DEF Marks, Uploads, Idle
    <2>6. Unpurged' = Unpurged \cup {f}
        BY <1>0, <1>2, <2>0, <2>2 DEF Unpurged, OneRow
    <2>7. Whole'
        <3>1. ASSUME account.scrubbed, NEW r \in Reaps, WillPurge(r) PROVE WillPurge(r)'
            <4>1. r \in Jobs \ {j} /\ r # NoJob
                BY <1>0, JobsAssumption DEF Jobs
            <4>2. job'[r] = job[r]
                BY <1>3, <4>1
            <4>3. Unpurged' \ file'.late \subseteq Unpurged \ file.late
                BY <1>2, <2>6, <3>1
            <4> QED BY <1>4, <3>1, <4>1, <4>2, <4>3 DEF WillPurge, Idle
        <3>2. ASSUME account.scrubbed, Unpurged \subseteq file.late PROVE Unpurged' \subseteq file'.late
            BY <1>2, <2>6, <3>2
        <3> QED BY <1>0, <2>0, <3>1, <3>2 DEF Whole
    <2>8. Links'
        <3>1. Never' => Never
            BY <1>3 DEF Never, Jobs
        <3>2. j \in stored
            BY <1>0, <2>0 DEF Uploads
        <3> QED BY <1>0, <1>2, <2>0, <2>6, <3>1, <3>2 DEF Links
    <2>9. Bundles'
        <3>1. \A i \in stored : i \in Jobs
            BY <1>0 DEF TypeOK, Jobs
        <3>2. \E g \in Unpurged' : g[1] = j
            BY <1>0, <2>6
        <3>3. \A i : (\E g \in Unpurged : g[1] = i) => \E g \in Unpurged' : g[1] = i
            BY <2>6
        <3>4. \A i \in stored : job'[i].status = "succeeded" => \E g \in Unpurged' : g[1] = i
            BY <1>3, <2>0, <3>1, <3>2, <3>3 DEF Bundles, Kept
        <3> QED BY <1>0, <3>4 DEF Bundles, Kept
    <2> QED BY <2>3, <2>4, <2>5, <2>7, <2>8, <2>9 DEF Sound
<1> QED BY <1>5, <1>6, <1>7 DEF IInv

-----------------------------------------------------------------------------
\* The reap.

LEMMA EraseAccountSafe == ASSUME IInv, NEW w \in Workers, EraseAccount(w) PROVE IInv'
<1>0. /\ TypeOK /\ Shape /\ worker \in [Workers -> WorkerRecords] /\ account \in AccountRows
      /\ worker[w].at = "erasing" /\ worker[w].job \in Reaps
      /\ UNCHANGED <<held, cancelling, job, file, stored, sweep, faults, overruns>>
      /\ account' = [status |-> "deleted", grace |-> account.grace, scrubbed |-> TRUE]
      /\ worker' = [worker EXCEPT ![w].at = "bundles"]
    BY DEF IInv, TypeOK, Shape, ReapStages, EraseAccount, Goto, bundles
<1>1. /\ worker' \in [Workers -> WorkerRecords]
      /\ \A v \in Workers \ {w} : worker'[v] = worker[v]
      /\ worker'[w].at = "bundles"
      /\ \A v \in Workers : /\ worker'[v].job = worker[v].job
                            /\ worker'[v].todo = worker[v].todo /\ worker'[v].done = worker[v].done
    BY <1>0 DEF WorkerRecords
<1>2. TypeOK'
    <2>1. account' \in AccountRows
        BY <1>0 DEF AccountRows
    <2> QED BY <1>0, <1>1, <2>1 DEF TypeOK
<1>3. Shape'
    BY <1>0, <1>1 DEF Shape, ExportStages, ReapStages, Jobs
<1>4. ASSUME overruns' = 0 PROVE Sound'
    <2>0. Hands /\ OneRow /\ Marks /\ Uploads /\ Whole /\ Links /\ Bundles
        BY <1>0, <1>4 DEF IInv, Sound
    <2>1. job[worker[w].job].status = "processing" /\ \A v \in Workers : worker[v].job = worker[w].job => v = w
        BY <1>0, <2>0, InHand
    <2>2. Hands' /\ OneRow' /\ Marks' /\ Uploads'
        BY <1>0, <1>1, <2>0 DEF Hands, OneRow, Marks, Uploads
    <2>3. WillPurge(worker[w].job)'
        BY <1>0, <1>1, <2>1 DEF WillPurge, Open
    <2>4. Whole'
        <3>1. \E r \in Reaps : WillPurge(r)'
            BY <1>0, <2>3
        <3> QED BY <3>1 DEF Whole
    <2>5. Links' /\ Bundles'
        BY <1>0, <2>0 DEF Links, Bundles, Never, Kept, Unpurged
    <2> QED BY <2>2, <2>4, <2>5 DEF Sound
<1> QED BY <1>2, <1>3, <1>4 DEF IInv

LEMMA DeleteBundleSafe == ASSUME IInv, NEW w \in Workers, DeleteBundle(w) PROVE IInv'
<1>0. /\ TypeOK /\ Shape /\ worker \in [Workers -> WorkerRecords] /\ worker[w] \in WorkerRecords
      /\ worker[w].at = "purging" /\ worker[w].job \in Reaps
      /\ UNCHANGED <<account, held, cancelling, job, file, sweep, faults, overruns>>
    BY DEF IInv, TypeOK, Shape, ReapStages, DeleteBundle
<1>1. PICK f \in worker[w].todo :
         /\ stored' = stored \ {f[1]}
         /\ worker' = [worker EXCEPT ![w].todo = @ \ {f}, ![w].done = @ \cup {f}]
    BY DEF DeleteBundle
<1> DEFINE rec == [worker[w] EXCEPT !.todo = @ \ {f}, !.done = @ \cup {f}]
<1>2. /\ rec \in WorkerRecords /\ rec.at = "purging" /\ rec.job = worker[w].job
      /\ rec.todo = worker[w].todo \ {f} /\ rec.done = worker[w].done \cup {f}
    BY <1>0 DEF WorkerRecords
<1>3. worker'[w] = rec /\ \A v \in Workers \ {w} : worker'[v] = worker[v]
    BY <1>0, <1>1
<1>4. worker' \in [Workers -> WorkerRecords]
    BY <1>0, <1>1, <1>2 DEF WorkerRecords
<1> HIDE DEF rec
<1>5. TypeOK'
    BY <1>0, <1>1, <1>4 DEF TypeOK
<1>6. Shape'
    BY <1>0, <1>2, <1>3 DEF Shape, ExportStages, ReapStages
<1>7. ASSUME overruns' = 0 PROVE Sound'
    <2>0. Hands /\ OneRow /\ Marks /\ Uploads /\ Whole /\ Links /\ Bundles
        BY <1>0, <1>7 DEF IInv, Sound
    <2>1. job[worker[w].job].status = "processing" /\ worker[w].job \in Jobs
        BY <1>0, <2>0, InHand
    <2>2. f \in file.all /\ job[f[1]].status = "succeeded"
        BY <2>0 DEF Marks, OneRow
    <2>3. Hands' /\ OneRow'
        BY <1>0, <1>2, <1>3, <2>0 DEF Hands, OneRow
    <2>4. Marks'
        BY <1>0, <1>1, <1>2, <1>3, <2>0, <2>2 DEF Marks
    <2>5. Uploads'
        <3>1. \A v \in Workers : worker[v].at = "uploaded" => worker[v].job # f[1]
            BY <1>0, <2>0, <2>2, InHand
        <3>2. \A v \in Workers : worker'[v].at = "uploaded" => worker[v].at = "uploaded" /\ worker'[v].job = worker[v].job
            BY <1>0, <1>2, <1>3
        <3>3. \A v \in Workers : worker'[v].at = "uploaded" => worker'[v].job \in stored /\ worker'[v].job # f[1]
            BY <2>0, <3>1, <3>2 DEF Uploads
        <3>4. stored' = stored \ {f[1]}
            BY <1>1
        <3>5. \A v \in Workers : worker'[v].at = "uploaded" => worker'[v].job \in stored'
            BY <3>3, <3>4
        <3> QED BY <3>5 DEF Uploads
    <2>6. Whole'
        <3>1. ASSUME NEW r \in Reaps, WillPurge(r) PROVE WillPurge(r)'
            BY <1>0, <1>2, <1>3, <3>1 DEF WillPurge, Unpurged
        <3> QED BY <1>0, <2>0, <3>1 DEF Whole, Unpurged
    <2>7. Links'
        BY <1>0, <2>1 DEF Links, Never
    <2>8. Bundles'
        BY <1>0, <1>1, <2>0 DEF Bundles, Kept, Unpurged
    <2> QED BY <2>3, <2>4, <2>5, <2>6, <2>7, <2>8 DEF Sound
<1> QED BY <1>5, <1>6, <1>7 DEF IInv

LEMMA CommitPurgeSafe == ASSUME IInv, NEW w \in Workers, CommitPurge(w) PROVE IInv'
<1> DEFINE rec == [worker[w] EXCEPT !.at = "finishing", !.done = {}]
<1>0. /\ TypeOK /\ Shape /\ worker \in [Workers -> WorkerRecords] /\ worker[w] \in WorkerRecords
      /\ file \in FileSets
      /\ worker[w].at = "purging" /\ worker[w].todo = {} /\ worker[w].job \in Reaps
      /\ UNCHANGED <<account, held, cancelling, job, stored, sweep, faults, overruns>>
      /\ file' = [file EXCEPT !.purged = @ \cup worker[w].done]
      /\ worker' = [worker EXCEPT ![w].at = "finishing", ![w].done = {}]
    BY DEF IInv, TypeOK, Shape, ReapStages, CommitPurge
<1>1. /\ file' \in FileSets /\ file'.all = file.all /\ file'.expired = file.expired /\ file'.late = file.late
      /\ file'.purged = file.purged \cup worker[w].done
    BY <1>0 DEF FileSets, WorkerRecords
<1>2. /\ rec \in WorkerRecords /\ rec.at = "finishing" /\ rec.job = worker[w].job
      /\ rec.todo = {} /\ rec.done = {}
    BY <1>0 DEF WorkerRecords
<1>3. worker'[w] = rec /\ \A v \in Workers \ {w} : worker'[v] = worker[v]
    BY <1>0
<1>4. worker' \in [Workers -> WorkerRecords]
    BY <1>0, <1>2 DEF WorkerRecords
<1> HIDE DEF rec
<1>5. TypeOK'
    BY <1>0, <1>1, <1>4 DEF TypeOK
<1>6. Shape'
    BY <1>0, <1>2, <1>3 DEF Shape, ExportStages, ReapStages
<1>7. ASSUME overruns' = 0 PROVE Sound'
    <2>0. Hands /\ OneRow /\ Marks /\ Uploads /\ Whole /\ Links /\ Bundles
        BY <1>0, <1>7 DEF IInv, Sound
    <2>1. job[worker[w].job].status = "processing" /\ worker[w].job \in Jobs
        BY <1>0, <2>0, InHand
    <2>2. worker[w].done \subseteq file.all /\ \A f \in worker[w].done : f[1] \notin stored
        BY <2>0 DEF Marks
    <2>3. Hands'
        BY <1>0, <1>2, <1>3, <2>0 DEF Hands
    <2>4. OneRow'
        BY <1>0, <1>1, <2>0, <2>2 DEF OneRow
    <2>5. Marks' /\ Uploads'
        BY <1>0, <1>1, <1>2, <1>3, <2>0 DEF Marks, Uploads
    <2>6. Unpurged' = Unpurged \ worker[w].done
        BY <1>1 DEF Unpurged
    <2>7. Whole'
        <3>1. ASSUME NEW r \in Reaps, WillPurge(r), worker[w].job # r PROVE WillPurge(r)'
            BY <1>0, <1>1, <1>2, <1>3, <2>6, <3>1 DEF WillPurge
        <3>2. ASSUME WillPurge(worker[w].job) PROVE Unpurged' \subseteq file'.late
            BY <1>0, <1>1, <2>6, <3>2 DEF WillPurge
        <3> QED BY <1>0, <1>1, <2>0, <2>6, <3>1, <3>2 DEF Whole
    <2>8. Links'
        BY <1>0, <2>1 DEF Links, Never
    <2>9. Bundles'
        BY <1>0, <2>0, <2>2, <2>6 DEF Bundles, Kept
    <2> QED BY <2>3, <2>4, <2>5, <2>7, <2>8, <2>9 DEF Sound
<1> QED BY <1>5, <1>6, <1>7 DEF IInv

-----------------------------------------------------------------------------
\* The sweep and the links.

\* A sweep moves: it takes up expired rows, deletes bundles of rows it had, and
\* marks the rows whose bundles it has deleted.
LEMMA SweepSafe ==
    ASSUME IInv, NEW s \in Sweeps, NEW rec \in SweepRecords, sweep' = [sweep EXCEPT ![s] = rec],
           UNCHANGED <<account, held, cancelling, job, worker, overruns>>, faults' \in 0..MaxFaults,
           stored' \subseteq stored, \A j \in stored \ stored' : \E f \in sweep[s].todo : f[1] = j,
           file' \in FileSets, file'.all = file.all, file'.expired = file.expired, file'.late = file.late,
           file.purged \subseteq file'.purged, file'.purged \subseteq file.purged \cup sweep[s].done,
           rec.todo \subseteq sweep[s].todo \cup Due,
           \A f \in rec.done : f \in sweep[s].done \/ (f \in sweep[s].todo /\ f[1] \notin stored')
    PROVE  IInv'
<1>0. /\ TypeOK /\ Shape /\ sweep \in [Sweeps -> SweepRecords] /\ sweep[s] \in SweepRecords
      /\ stored \subseteq Exports
    BY DEF IInv, TypeOK
<1>2. sweep'[s] = rec /\ \A t \in Sweeps \ {s} : sweep'[t] = sweep[t]
    BY <1>0
<1>3. TypeOK'
    <2>1. sweep' \in [Sweeps -> SweepRecords] /\ stored' \subseteq Exports
        BY <1>0
    <2> QED BY <1>0, <2>1 DEF TypeOK
<1>4. Shape'
    BY <1>0 DEF Shape
<1>5. ASSUME overruns' = 0 PROVE Sound'
    <2>0. Hands /\ OneRow /\ Marks /\ Uploads /\ Whole /\ Links /\ Bundles
        BY <1>0, <1>5 DEF IInv, Sound
    <2>1. /\ sweep[s].todo \subseteq file.expired /\ file.expired \subseteq file.all
          /\ sweep[s].done \subseteq file.all /\ \A f \in sweep[s].done : f[1] \notin stored
        BY <2>0 DEF Marks, OneRow
    <2>2. Hands' /\ OneRow'
        BY <2>0, <2>1 DEF Hands, OneRow
    <2>3. Marks'
        BY <1>2, <2>0, <2>1 DEF Marks, Due
    <2>4. Uploads'
        <3>1. \A f \in sweep[s].todo : job[f[1]].status = "succeeded"
            BY <2>0, <2>1 DEF OneRow
        <3>2. \A v \in Workers : worker[v].at = "uploaded" => job[worker[v].job].status = "processing"
            BY <1>0, <2>0, InHand
        <3> QED BY <2>0, <3>1, <3>2 DEF Uploads
    <2>5. Unpurged' \subseteq Unpurged /\ \A f \in Unpurged \ Unpurged' : f[1] \notin stored
        BY <2>1 DEF Unpurged
    <2>6. Whole'
        <3>1. ASSUME NEW r \in Reaps, WillPurge(r) PROVE WillPurge(r)'
            BY <2>5, <3>1 DEF WillPurge
        <3> QED BY <2>0, <2>5, <3>1 DEF Whole
    <2>7. Links'
        <3>1. ASSUME NEW f \in Unpurged \ file.expired, NEW g \in sweep[s].todo PROVE f[1] # g[1]
            BY <2>0, <2>1 DEF OneRow, Unpurged
        <3>2. Never' = Never
            BY DEF Never
        <3> QED BY <2>0, <2>5, <3>1, <3>2 DEF Links
    <2>8. Bundles'
        BY <2>0, <2>5 DEF Bundles, Kept
    <2> QED BY <2>2, <2>3, <2>4, <2>6, <2>7, <2>8 DEF Sound
<1> QED BY <1>3, <1>4, <1>5 DEF IInv

LEMMA StartSweepSafe == ASSUME IInv, NEW s \in Sweeps, StartSweep(s) PROVE IInv'
<1> DEFINE rec == [sweep[s] EXCEPT !.todo = Due]
<1>1. /\ sweep \in [Sweeps -> SweepRecords] /\ sweep[s] \in SweepRecords /\ Due \in SUBSET Rows /\ file \in FileSets
      /\ faults' \in 0..MaxFaults
      /\ UNCHANGED <<account, held, cancelling, job, worker, file, stored, overruns>>
    BY RowTypes DEF IInv, TypeOK, StartSweep, Due, queue, bundles
<1>2. sweep' = [sweep EXCEPT ![s] = rec]
    BY <1>1 DEF StartSweep
<1>3. rec \in SweepRecords /\ rec.todo = Due /\ rec.done = sweep[s].done
    BY <1>1 DEF SweepRecords
<1> HIDE DEF rec
<1> QED BY <1>1, <1>2, <1>3, SweepSafe

LEMMA SweepDeleteSafe == ASSUME IInv, NEW s \in Sweeps, SweepDelete(s) \/ SweepDeleteFails(s) PROVE IInv'
<1>1. /\ sweep \in [Sweeps -> SweepRecords] /\ sweep[s] \in SweepRecords /\ file \in FileSets
      /\ faults' \in 0..MaxFaults
      /\ UNCHANGED <<account, held, cancelling, job, worker, file, overruns>>
    BY BoundsAssumption DEF IInv, TypeOK, SweepDelete, SweepDeleteFails, Fault, queue, bundles
<1>2. CASE SweepDelete(s)
    <2>1. PICK f \in sweep[s].todo :
             /\ stored' = stored \ {f[1]}
             /\ sweep' = [sweep EXCEPT ![s] = [todo |-> sweep[s].todo \ {f}, done |-> {f}]]
        BY <1>1, <1>2 DEF SweepDelete
    <2> DEFINE rec == [todo |-> sweep[s].todo \ {f}, done |-> {f}]
    <2>2. rec \in SweepRecords /\ rec.todo = sweep[s].todo \ {f} /\ rec.done = {f}
        BY <1>1, <2>1 DEF SweepRecords
    <2>3. sweep' = [sweep EXCEPT ![s] = rec]
        BY <2>1
    <2> HIDE DEF rec
    <2>4. \A g \in rec.done : g \in sweep[s].todo /\ g[1] \notin stored'
        BY <2>1, <2>2
    <2>5. stored' \subseteq stored /\ \A j \in stored \ stored' : \E g \in sweep[s].todo : g[1] = j
        BY <2>1
    <2> QED BY <1>1, <2>2, <2>3, <2>4, <2>5, SweepSafe
<1>3. CASE SweepDeleteFails(s)
    <2>1. PICK f \in sweep[s].todo : sweep' = [sweep EXCEPT ![s].todo = @ \ {f}]
        BY <1>3 DEF SweepDeleteFails
    <2> DEFINE rec == [sweep[s] EXCEPT !.todo = @ \ {f}]
    <2>2. rec \in SweepRecords /\ rec.todo \subseteq sweep[s].todo /\ rec.done = sweep[s].done
        BY <1>1 DEF SweepRecords
    <2>3. stored' = stored /\ sweep' = [sweep EXCEPT ![s] = rec]
        BY <1>1, <1>3, <2>1 DEF SweepDeleteFails, bundles
    <2> QED
        <3> HIDE DEF rec
        <3> QED BY <1>1, <2>2, <2>3, SweepSafe
<1> QED BY <1>2, <1>3

LEMMA SweepMarkSafe == ASSUME IInv, NEW s \in Sweeps, SweepMark(s) \/ SweepCrash(s) PROVE IInv'
<1>1. /\ sweep \in [Sweeps -> SweepRecords] /\ sweep[s] \in SweepRecords /\ file \in FileSets
      /\ faults' \in 0..MaxFaults
      /\ UNCHANGED <<account, held, cancelling, job, worker, stored, overruns>>
    BY BoundsAssumption DEF IInv, TypeOK, SweepMark, SweepCrash, Fault, queue, bundles
<1>2. CASE SweepMark(s)
    <2> DEFINE rec == [sweep[s] EXCEPT !.done = {}]
    <2>1. rec \in SweepRecords /\ rec.todo = sweep[s].todo /\ rec.done = {}
        BY <1>1 DEF SweepRecords
    <2>2. sweep' = [sweep EXCEPT ![s] = rec] /\ file' = [file EXCEPT !.purged = @ \cup sweep[s].done]
        BY <1>1, <1>2 DEF SweepMark
    <2>3. /\ file' \in FileSets /\ file'.all = file.all /\ file'.expired = file.expired /\ file'.late = file.late
          /\ file'.purged = file.purged \cup sweep[s].done
        BY <1>1, <2>2 DEF FileSets, SweepRecords
    <2> HIDE DEF rec
    <2> QED BY <1>1, <2>1, <2>2, <2>3, SweepSafe
<1>3. CASE SweepCrash(s)
    <2>1. Rests \in SweepRecords /\ Rests.todo = {} /\ Rests.done = {}
        BY DEF Rests, SweepRecords
    <2>2. sweep' = [sweep EXCEPT ![s] = Rests] /\ file' = file
        BY <1>3 DEF SweepCrash, bundles
    <2> QED BY <1>1, <2>1, <2>2, SweepSafe
<1> QED BY <1>2, <1>3

LEMMA LinkExpiresSafe == ASSUME IInv, LinkExpires PROVE IInv'
<1>0. /\ TypeOK /\ Shape /\ file \in FileSets
      /\ UNCHANGED <<account, held, cancelling, stored, job, worker, sweep, faults, overruns>>
    BY DEF IInv, TypeOK, LinkExpires, queue
<1>1. PICK f \in file.all \ file.expired : file' = [file EXCEPT !.expired = @ \cup {f}]
    BY DEF LinkExpires
<1>2. /\ file' \in FileSets /\ file'.all = file.all /\ file'.purged = file.purged /\ file'.late = file.late
      /\ file'.expired = file.expired \cup {f}
    BY <1>0, <1>1 DEF FileSets
<1>3. TypeOK' /\ Shape'
    BY <1>0, <1>2 DEF TypeOK, Shape
<1>4. ASSUME Sound PROVE Sound'
    <2>1. Hands' /\ OneRow' /\ Marks' /\ Uploads'
        BY <1>0, <1>1, <1>2, <1>4 DEF Sound, Hands, OneRow, Marks, Uploads
    <2>2. Unpurged' = Unpurged /\ Never' = Never
        BY <1>0, <1>2 DEF Unpurged, Never
    <2>3. \A r : WillPurge(r) => WillPurge(r)'
        BY <1>0, <1>2, <2>2 DEF WillPurge
    <2>4. Whole'
        BY <1>0, <1>2, <1>4, <2>2, <2>3 DEF Sound, Whole
    <2>5. Links' /\ Bundles'
        BY <1>0, <1>2, <1>4, <2>2 DEF Sound, Links, Bundles, Kept
    <2> QED BY <2>1, <2>4, <2>5 DEF Sound
<1> QED BY <1>0, <1>3, <1>4 DEF IInv

-----------------------------------------------------------------------------
\* The theorems.

LEMMA NextSafe == IInv /\ [Next]_vars => IInv'
<1> SUFFICES ASSUME IInv, [Next]_vars PROVE IInv'
    OBVIOUS
<1>1. CASE People
    <2>1. ASSUME NEW js \in SUBSET Exports, RequestExport(js) PROVE IInv'
        BY <2>1, EnqueueSafe DEF Jobs
    <2> QED BY <1>1, <2>1, PeopleSafe DEF People
<1>2. CASE EnqueueTick
    BY <1>2, EnqueueSafe DEF EnqueueTick, Jobs
<1>3. CASE Clock
    BY <1>3, PeopleSafe, LinkExpiresSafe, JobComesDueSafe, LockExpiresSafe DEF Clock
<1>4. ASSUME NEW w \in Workers, Tick(w) \/ Crash(w) \/ Throw(w) PROVE IInv'
    <2>1. CASE (\E j \in Jobs : ClaimNextJob(w, j)) \/ RecordFailure(w) \/ Crash(w) \/ Throw(w)
        BY <2>1, ClaimNextJobSafe, RecordFailureSafe, CrashOrThrowSafe
    <2>2. CASE Export(w)
        BY <2>2, UploadBundleSafe, RecordSuccessSafe DEF Export
    <2>3. CASE Reap(w)
        BY <2>3, GateAccountSafe, EraseAccountSafe, ReadBundlesSafe, DeleteBundleSafe, CommitPurgeSafe,
           RecordReapSuccessSafe DEF Reap
    <2> QED BY <1>4, <2>1, <2>2, <2>3 DEF Tick
<1>5. ASSUME NEW s \in Sweeps, Sweep(s) \/ SweepDeleteFails(s) \/ SweepCrash(s) PROVE IInv'
    BY <1>5, StartSweepSafe, SweepDeleteSafe, SweepMarkSafe DEF Sweep
<1> QED BY <1>1, <1>2, <1>3, <1>4, <1>5, StutterSafe DEF Next

\* Every reachable state satisfies the inductive invariant: without an overrun
\* a job in hand has one worker, a row stands for one finished export, and a
\* reap has the purge before it until the erasure is whole.
THEOREM RightsInvariant == Spec => []IInv
BY InitSafe, NextSafe, PTL DEF Spec

\* Every variable keeps its type.
THEOREM RightsTypeCorrect == Spec => []TypeOK
<1>1. IInv => TypeOK
    BY DEF IInv
<1> QED BY <1>1, RightsInvariant, PTL

\* Whatever crashes or throws, and however the sweeps, the exports and the
\* clock interleave, a live link leads to a bundle.
THEOREM LiveLinksLeadToBundles == Spec => []LinksLeadToBundles
<1>1. IInv => LinksLeadToBundles
    BY DEF IInv, Sound, Links, LinksLeadToBundles
<1> QED BY <1>1, RightsInvariant, PTL

\* What a finished export has in storage has a row by which it will be purged.
THEOREM EveryBundleHasARow == Spec => []NoBundleIsForgotten
<1>1. IInv => NoBundleIsForgotten
    BY DEF IInv, Sound, Bundles, NoBundleIsForgotten
<1> QED BY <1>1, RightsInvariant, PTL

\* When the reaps of an erased account have ended, so have its bundles, though
\* any number of workers die between the two commits.
THEOREM ErasuresAreWhole == Spec => []ErasureIsWhole
<1>1. IInv => ErasureIsWhole
    BY DEF IInv, Sound, Whole, WillPurge, ReapUnfinished, ErasureIsWhole
<1> QED BY <1>1, RightsInvariant, PTL

=============================================================================
