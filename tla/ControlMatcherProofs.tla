------------------------- MODULE ControlMatcherProofs -------------------------
(***************************************************************************)
(* What holds of ControlMatcher for any number of jobs, workers, attempts, *)
(* faults and overruns.                                                    *)
(*                                                                         *)
(* The argument is one of accounts.  A call in flight owns the live        *)
(* reservation, or an overrun has paid for it.  Once the retry budget is   *)
(* used up, whoever may still reach the provider, a call that will record  *)
(* its failure as a retryable one or the verdict itself when it can be     *)
(* reserved again, has been paid for by a fault or an overrun.             *)
(***************************************************************************)
EXTENDS ControlMatcher, FiniteSetTheorems, TLAPS

Reserved == verdict.state = "pending" /\ ~verdict.expired

\* The calls whose failure would be recorded as one to be retried.
Late == {w \in Calling : worker[w].claims < VerdictAttempts}

\* The verdict can be reserved again, or will be once its reservation expires.
Open ==
    \/ verdict.state \in {"failed", "unparseable"}
    \/ verdict.state = "pending" /\ (verdict.expired \/ Calling = {})

\* Every call owns the live reservation or was paid for by an overrun.
Slots == IsFiniteSet(Calling) /\ Cardinality(Calling) <= overruns + (IF Reserved THEN 1 ELSE 0)

\* What the retry budget does not cover was paid for.
Budget ==
    /\ verdict.state = "none" => verdict.attempts = 0
    /\ verdict.attempts >= VerdictAttempts =>
          verdict.attempts + Cardinality(Late) + (IF Open THEN 1 ELSE 0) <= VerdictAttempts + faults + overruns

Busy ==
    \A w \in Workers :
        /\ worker[w].at # "idle" => worker[w].job \in Jobs
        /\ worker[w].at = "finishing" => worker[w].result # "none"

IInv == TypeOK /\ Busy /\ Slots /\ Budget

-----------------------------------------------------------------------------
(***************************************************************************)
(* How the set of calls moves.                                             *)
(***************************************************************************)

\* The late calls are some of the calls, and their numbers are natural.
LEMMA Counts ==
    ASSUME IsFiniteSet(Calling)
    PROVE  /\ IsFiniteSet(Late)
           /\ Cardinality(Calling) \in Nat /\ Cardinality(Late) \in Nat
           /\ Cardinality(Late) <= Cardinality(Calling)
           /\ Calling = {} => Cardinality(Calling) = 0
<1>1. Late \in SUBSET Calling
  BY DEF Late
<1>2. IsFiniteSet(Late) /\ Cardinality(Late) <= Cardinality(Calling)
  BY <1>1, FS_Subset
<1>3. Cardinality(Calling) \in Nat /\ Cardinality(Late) \in Nat
  BY <1>2, FS_CardinalityType
<1> QED
  BY <1>2, <1>3, FS_EmptySet

\* A step that starts and ends no call and leaves the verdict's state, count
\* and reservation keeps the accounts.
LEMMA Quiet ==
    ASSUME IInv, TypeOK',
           verdict'.state = verdict.state, verdict'.attempts = verdict.attempts,
           verdict'.expired = verdict.expired,
           faults' >= faults, overruns' >= overruns,
           \A w \in Workers : /\ worker'[w].at = "calling" <=> worker[w].at = "calling"
                              /\ worker'[w].at = "calling" => worker'[w].claims = worker[w].claims
    PROVE  Slots' /\ Budget'
<1>1. Calling' = Calling
  BY DEF Calling
<1>2. Late' = Late
  BY <1>1 DEF Late, Calling
<1>3. IsFiniteSet(Calling)
  BY DEF IInv, Slots
<1>4. Cardinality(Calling) \in Nat /\ Cardinality(Late) \in Nat
  BY <1>3, Counts
<1>5. /\ {faults, overruns, faults', overruns', verdict.attempts} \subseteq Nat
      /\ VerdictAttempts \in Nat
  BY BoundsAssumption, AttemptsAssumption DEF IInv, TypeOK, VerdictRows
<1>6. Slots'
  BY <1>1, <1>4, <1>5 DEF IInv, Slots, Reserved
<1>7. Budget'
  BY <1>1, <1>2, <1>4, <1>5 DEF IInv, Budget, Open
<1> QED
  BY <1>6, <1>7

\* A call that ends leaves its place in both accounts.
LEMMA CallEnds ==
    ASSUME IsFiniteSet(Calling), NEW w \in Calling, w \notin Calling',
           \A v \in Workers \ {w} : worker'[v] = worker[v]
    PROVE  /\ IsFiniteSet(Calling') /\ Cardinality(Calling') = Cardinality(Calling) - 1
           /\ Cardinality(Late') \in Nat
           /\ Cardinality(Late') = IF worker[w].claims < VerdictAttempts THEN Cardinality(Late) - 1
                                   ELSE Cardinality(Late)
<1>1. Calling' = Calling \ {w}
  BY DEF Calling
<1>2. Late' = Late \ {w}
  BY <1>1 DEF Late, Calling
<1>3. w \in Late <=> worker[w].claims < VerdictAttempts
  BY DEF Late
<1>4. IsFiniteSet(Late)
  BY Counts
<1>5. IsFiniteSet(Calling \ {w}) /\ Cardinality(Calling \ {w}) = Cardinality(Calling) - 1
  BY FS_RemoveElement
<1>6. /\ IsFiniteSet(Late \ {w})
      /\ Cardinality(Late \ {w}) = IF w \in Late THEN Cardinality(Late) - 1 ELSE Cardinality(Late)
  BY <1>4, FS_RemoveElement
<1>7. Cardinality(Late \ {w}) \in Nat
  BY <1>6, FS_CardinalityType
<1> QED
  BY <1>1, <1>2, <1>3, <1>5, <1>6, <1>7

\* A call that starts is late only if its claim is below the budget.
LEMMA CallStarts ==
    ASSUME IsFiniteSet(Calling), NEW w \in Workers, w \notin Calling, worker'[w].at = "calling",
           \A v \in Workers \ {w} : worker'[v] = worker[v]
    PROVE  /\ IsFiniteSet(Calling') /\ Cardinality(Calling') = Cardinality(Calling) + 1
           /\ Calling' # {}
           /\ ~(worker'[w].claims < VerdictAttempts) => Late' = Late
<1>1. Calling' = Calling \cup {w}
  BY DEF Calling
<1>2. ~(worker'[w].claims < VerdictAttempts) => Late' = Late
  BY <1>1 DEF Late, Calling
<1> QED
  BY <1>1, <1>2, FS_AddElement

-----------------------------------------------------------------------------
(***************************************************************************)
(* The steps that move the accounts.                                       *)
(***************************************************************************)

\* A reservation is made only when nobody holds one, so the call it starts finds
\* a place; over budget, it is the one the open verdict had been charged for.
LEMMA ReserveKeeps ==
    ASSUME IInv, NEW w \in Workers, ReserveVerdict(w), Retryable
    PROVE  Slots' /\ Budget'
<1>1. /\ worker[w].at = "missed"
      /\ verdict' = [state |-> "pending", attempts |-> verdict.attempts + 1, waiting |-> FALSE, expired |-> FALSE]
      /\ worker' = [worker EXCEPT ![w].at = "calling", ![w].claims = verdict.attempts + 1]
      /\ UNCHANGED <<faults, overruns>>
  BY DEF ReserveVerdict
<1>2. /\ worker'[w].at = "calling" /\ worker'[w].claims = verdict.attempts + 1
      /\ \A v \in Workers \ {w} : worker'[v] = worker[v]
      /\ w \notin Calling
  BY <1>1 DEF IInv, TypeOK, WorkerRecords, Calling
<1>3. IsFiniteSet(Calling)
  BY DEF IInv, Slots
<1>4. /\ IsFiniteSet(Calling') /\ Cardinality(Calling') = Cardinality(Calling) + 1 /\ Calling' # {}
      /\ ~(verdict.attempts + 1 < VerdictAttempts) => Late' = Late
  BY <1>2, <1>3, CallStarts
<1>5. Cardinality(Calling) \in Nat /\ Cardinality(Late) \in Nat /\ Cardinality(Late) <= Cardinality(Calling)
  BY <1>3, Counts
<1>6. {faults, overruns, verdict.attempts} \subseteq Nat /\ VerdictAttempts \in Nat \ {0}
  BY BoundsAssumption, AttemptsAssumption DEF IInv, TypeOK, VerdictRows
<1>7. Cardinality(Calling) <= overruns
  BY <1>5, <1>6 DEF IInv, Slots, Reserved, Retryable
<1>8. Slots'
  BY <1>1, <1>4, <1>5, <1>6, <1>7 DEF Slots, Reserved
<1>9. ~Open' /\ verdict'.attempts = verdict.attempts + 1 /\ verdict'.state # "none"
  BY <1>1, <1>4 DEF Open
<1>10. Budget'
  <2>1. CASE verdict.attempts >= VerdictAttempts
    <3>1. Open
      BY <1>6, <2>1 DEF IInv, Budget, Retryable, Open
    <3> QED
      BY <1>1, <1>4, <1>5, <1>6, <1>9, <2>1, <3>1 DEF IInv, Budget
  <2>2. CASE verdict.attempts + 1 = VerdictAttempts
    BY <1>1, <1>4, <1>5, <1>6, <1>7, <1>9, <2>2 DEF Budget
  <2>3. CASE verdict.attempts + 1 < VerdictAttempts
    BY <1>6, <1>9, <2>3 DEF Budget
  <2> QED
    BY <1>6, <2>1, <2>2, <2>3
<1> QED
  BY <1>8, <1>10

\* A recorded outcome ends a call.  If it leaves the verdict open, the call was
\* a late one and passes on what it was charged.
LEMMA RecordKeeps ==
    ASSUME IInv, NEW w \in Workers, worker[w].at = "calling", worker'[w].at # "calling",
           \A v \in Workers \ {w} : worker'[v] = worker[v],
           verdict'.state \notin {"none", "pending"}, verdict'.attempts = verdict.attempts,
           verdict'.state \in {"failed", "unparseable"} => worker[w].claims < VerdictAttempts,
           UNCHANGED <<faults, overruns>>
    PROVE  Slots' /\ Budget'
<1>1. w \in Calling /\ w \notin Calling' /\ IsFiniteSet(Calling)
  BY DEF Calling, IInv, Slots
<1>2. /\ IsFiniteSet(Calling') /\ Cardinality(Calling') = Cardinality(Calling) - 1
      /\ Cardinality(Late') \in Nat
      /\ Cardinality(Late') = IF worker[w].claims < VerdictAttempts THEN Cardinality(Late) - 1
                              ELSE Cardinality(Late)
  BY <1>1, CallEnds
<1>3. Cardinality(Calling) \in Nat /\ Cardinality(Late) \in Nat
  BY <1>1, Counts
<1>4. {faults, overruns, verdict.attempts} \subseteq Nat /\ VerdictAttempts \in Nat
  BY BoundsAssumption, AttemptsAssumption DEF IInv, TypeOK, VerdictRows
<1>5. Slots'
  BY <1>2, <1>3, <1>4 DEF IInv, Slots, Reserved
<1>6. Open' => worker[w].claims < VerdictAttempts
  BY DEF Open
<1>7. Budget'
  BY <1>2, <1>3, <1>4, <1>6 DEF IInv, Budget
<1> QED
  BY <1>5, <1>7

\* A fault that ends a call leaves the verdict open and pays for it.
LEMMA FaultKeeps ==
    ASSUME IInv, NEW w \in Workers, worker[w].at = "calling", worker'[w].at # "calling",
           \A v \in Workers \ {w} : worker'[v] = worker[v],
           faults' = faults + 1, UNCHANGED <<verdict, overruns>>
    PROVE  Slots' /\ Budget'
<1>1. w \in Calling /\ w \notin Calling' /\ IsFiniteSet(Calling)
  BY DEF Calling, IInv, Slots
<1>2. /\ IsFiniteSet(Calling') /\ Cardinality(Calling') = Cardinality(Calling) - 1
      /\ Cardinality(Late') \in Nat
      /\ Cardinality(Late') <= Cardinality(Late)
  BY <1>1, CallEnds, Counts
<1>3. Cardinality(Calling) \in Nat /\ Cardinality(Late) \in Nat
  BY <1>1, Counts
<1>4. {faults, overruns, verdict.attempts} \subseteq Nat /\ VerdictAttempts \in Nat
  BY BoundsAssumption, AttemptsAssumption DEF IInv, TypeOK, VerdictRows
<1>5. Slots'
  BY <1>2, <1>3, <1>4 DEF IInv, Slots, Reserved
<1>6. Budget'
  BY <1>2, <1>3, <1>4 DEF IInv, Budget
<1> QED
  BY <1>5, <1>6

\* A reservation that expires under a call turns the call into an overrun's; one
\* that nobody uses was open before.
LEMMA ExpiryKeeps ==
    ASSUME IInv, ReservationExpires
    PROVE  Slots' /\ Budget'
<1>1. /\ verdict.state = "pending" /\ ~verdict.expired
      /\ verdict'.state = "pending" /\ verdict'.expired /\ verdict'.attempts = verdict.attempts
      /\ worker' = worker /\ faults' = faults
      /\ overruns' = IF Calling # {} THEN overruns + 1 ELSE overruns
  BY DEF ReservationExpires, Overrun, IInv, TypeOK, VerdictRows
<1>2. Calling' = Calling /\ Late' = Late
  BY <1>1 DEF Calling, Late
<1>3. /\ IsFiniteSet(Calling) /\ Cardinality(Calling) \in Nat /\ Cardinality(Late) \in Nat
      /\ Calling = {} => Cardinality(Calling) = 0
  BY Counts DEF IInv, Slots
<1>4. {faults, overruns, verdict.attempts} \subseteq Nat /\ VerdictAttempts \in Nat
  BY BoundsAssumption, AttemptsAssumption DEF IInv, TypeOK, VerdictRows
<1>5. Slots'
  BY <1>1, <1>2, <1>3, <1>4 DEF IInv, Slots, Reserved
<1>6. Open' /\ (Calling = {} => Open)
  BY <1>1 DEF Open
<1>7. Budget'
  BY <1>1, <1>2, <1>3, <1>4, <1>6 DEF IInv, Budget
<1> QED
  BY <1>5, <1>7

-----------------------------------------------------------------------------
(***************************************************************************)
(* How a worker's record moves, and that every step is well typed.         *)
(***************************************************************************)

\* A worker that ends its match has a result for the job.
LEMMA ConcludeMoves ==
    ASSUME TypeOK, Busy, NEW w \in Workers, worker[w].at # "idle",
           NEW result \in {"success", "retryable", "permanent"}, Conclude(w, result)
    PROVE  /\ worker' \in [Workers -> WorkerRecords] /\ Busy'
           /\ worker'[w].at = "finishing"
           /\ \A v \in Workers \ {w} : worker'[v] = worker[v]
<1>1. worker \in [Workers -> WorkerRecords] /\ worker[w] \in WorkerRecords
  BY DEF TypeOK
<1>2. worker' = [worker EXCEPT ![w] = [worker[w] EXCEPT !.at = "finishing", !.claims = 0, !.result = result]]
  BY <1>1 DEF Conclude, WorkerRecords
<1>3. [worker[w] EXCEPT !.at = "finishing", !.claims = 0, !.result = result] \in WorkerRecords
  BY <1>1 DEF WorkerRecords
<1>4. /\ worker'[w].at = "finishing" /\ worker'[w].result = result /\ worker'[w].job = worker[w].job
      /\ \A v \in Workers \ {w} : worker'[v] = worker[v]
  BY <1>1, <1>2 DEF WorkerRecords
<1>5. worker' \in [Workers -> WorkerRecords]
  BY <1>1, <1>2, <1>3
<1>6. Busy'
  BY <1>4 DEF Busy
<1> QED
  BY <1>4, <1>5, <1>6

\* A worker goes on to another place within its match.
LEMMA GoMoves ==
    ASSUME TypeOK, Busy, NEW w \in Workers, worker[w].at # "idle",
           NEW place \in {"loaded", "hit", "missed"}, worker' = [worker EXCEPT ![w].at = place]
    PROVE  /\ worker' \in [Workers -> WorkerRecords] /\ Busy'
           /\ worker'[w].at = place
           /\ \A v \in Workers \ {w} : worker'[v] = worker[v]
<1>1. worker \in [Workers -> WorkerRecords] /\ worker[w] \in WorkerRecords
  BY DEF TypeOK
<1>2. [worker[w] EXCEPT !.at = place] \in WorkerRecords
  BY <1>1 DEF WorkerRecords
<1>3. worker' = [worker EXCEPT ![w] = [worker[w] EXCEPT !.at = place]]
  BY <1>1
<1>4. /\ worker'[w].at = place /\ worker'[w].job = worker[w].job
      /\ \A v \in Workers \ {w} : worker'[v] = worker[v]
  BY <1>1, <1>3 DEF WorkerRecords
<1>5. worker' \in [Workers -> WorkerRecords]
  BY <1>1, <1>2, <1>3
<1>6. Busy'
  BY <1>4 DEF Busy
<1> QED
  BY <1>4, <1>5, <1>6

\* A worker lets go of its job.
LEMMA IdleMoves ==
    ASSUME TypeOK, Busy, NEW w \in Workers, worker' = [worker EXCEPT ![w] = Idle]
    PROVE  /\ worker' \in [Workers -> WorkerRecords] /\ Busy'
           /\ worker'[w].at = "idle"
           /\ \A v \in Workers \ {w} : worker'[v] = worker[v]
<1>1. Idle \in WorkerRecords /\ Idle.at = "idle"
  BY DEF Idle, WorkerRecords
<1>2. worker' \in [Workers -> WorkerRecords] /\ worker'[w] = Idle /\ \A v \in Workers \ {w} : worker'[v] = worker[v]
  BY <1>1 DEF TypeOK
<1>3. Busy'
  BY <1>1, <1>2 DEF Busy
<1> QED
  BY <1>1, <1>2, <1>3

\* A claim gives the worker its job.
LEMMA ClaimMoves ==
    ASSUME TypeOK, Busy, NEW w \in Workers, NEW j \in Jobs, ClaimNextJob(w, j)
    PROVE  /\ TypeOK' /\ Busy'
           /\ worker[w].at = "idle" /\ worker'[w].at = "claimed"
           /\ \A v \in Workers \ {w} : worker'[v] = worker[v]
<1> DEFINE record == [Idle EXCEPT !.at = "claimed", !.job = j, !.attempts = job[j].attempts + 1]
           row    == [status |-> "processing", attempts |-> job[j].attempts + 1, waiting |-> FALSE, expired |-> FALSE]
<1>1. /\ worker[w].at = "idle"
      /\ job' = [job EXCEPT ![j] = row] /\ worker' = [worker EXCEPT ![w] = record]
      /\ UNCHANGED <<verdict, inputs, faults, overruns>>
  BY DEF TypeOK, ClaimNextJob
<1>2. job[j].attempts + 1 \in Nat
  BY DEF TypeOK, JobRows
<1>3. row \in JobRows
  BY <1>2 DEF JobRows
<1>4. record \in WorkerRecords /\ record.at = "claimed" /\ record.job = j
  BY <1>2 DEF WorkerRecords, Idle
<1> HIDE DEF record, row
<1>5. TypeOK'
  BY <1>1, <1>3, <1>4 DEF TypeOK
<1>6. worker'[w] = record /\ \A v \in Workers \ {w} : worker'[v] = worker[v]
  BY <1>1 DEF TypeOK
<1>7. Busy'
  BY <1>4, <1>6 DEF Busy
<1> QED
  BY <1>1, <1>4, <1>5, <1>6, <1>7

\* A reservation starts a call.
LEMMA ReserveMoves ==
    ASSUME TypeOK, Busy, NEW w \in Workers, ReserveVerdict(w), Retryable
    PROVE  TypeOK' /\ Busy'
<1> DEFINE record == [worker[w] EXCEPT !.at = "calling", !.claims = verdict.attempts + 1]
<1>1. /\ worker[w].at = "missed"
      /\ verdict' = [state |-> "pending", attempts |-> verdict.attempts + 1, waiting |-> FALSE, expired |-> FALSE]
      /\ worker' = [worker EXCEPT ![w] = record]
      /\ UNCHANGED <<job, inputs, faults, overruns>>
  BY DEF TypeOK, ReserveVerdict
<1>2. verdict.attempts + 1 \in Nat /\ worker[w] \in WorkerRecords
  BY DEF TypeOK, VerdictRows
<1>3. record \in WorkerRecords /\ record.at = "calling" /\ record.job = worker[w].job
  BY <1>2 DEF WorkerRecords
<1>4. verdict' \in VerdictRows
  BY <1>1, <1>2 DEF VerdictRows
<1> HIDE DEF record
<1>5. TypeOK'
  BY <1>1, <1>3, <1>4 DEF TypeOK
<1>6. worker'[w] = record /\ \A v \in Workers \ {w} : worker'[v] = worker[v]
  BY <1>1 DEF TypeOK
<1>7. Busy'
  BY <1>1, <1>3, <1>6 DEF Busy
<1> QED
  BY <1>5, <1>7

\* What a statement writes to one job.
LEMMA JobMoves ==
    ASSUME TypeOK, NEW j \in Jobs, NEW row \in JobRows, job' = [job EXCEPT ![j] = row]
    PROVE  job' \in [Jobs -> JobRows]
BY DEF TypeOK

-----------------------------------------------------------------------------
(***************************************************************************)
(* Every step keeps the invariant.                                         *)
(***************************************************************************)

\* A step of a worker that neither makes a call nor leaves one.
LEMMA BesideTheCalls ==
    ASSUME IInv, TypeOK', NEW w \in Workers, worker[w].at # "calling", worker'[w].at # "calling",
           \A v \in Workers \ {w} : worker'[v] = worker[v],
           faults' \in {faults, faults + 1}, UNCHANGED <<verdict, overruns>>
    PROVE  Slots' /\ Budget'
<1>1. faults \in Nat /\ overruns \in Nat
  BY BoundsAssumption DEF IInv, TypeOK
<1>2. faults' >= faults /\ overruns' >= overruns
  BY <1>1
<1>3. \A v \in Workers : /\ worker'[v].at = "calling" <=> worker[v].at = "calling"
                         /\ worker'[v].at = "calling" => worker'[v].claims = worker[v].claims
  OBVIOUS
<1> QED
  BY <1>2, <1>3, Quiet

\* A step in which no worker moves and the verdict at most comes due.
LEMMA BesideTheWorkers ==
    ASSUME IInv, TypeOK', UNCHANGED <<worker, faults>>,
           verdict'.state = verdict.state, verdict'.attempts = verdict.attempts,
           verdict'.expired = verdict.expired,
           overruns' \in {overruns, overruns + 1}
    PROVE  Busy' /\ Slots' /\ Budget'
<1>1. faults \in Nat /\ overruns \in Nat
  BY BoundsAssumption DEF IInv, TypeOK
<1>2. faults' >= faults /\ overruns' >= overruns
  BY <1>1
<1>3. Slots' /\ Budget'
  BY <1>2, Quiet
<1>4. Busy'
  BY DEF IInv, Busy
<1> QED
  BY <1>3, <1>4

\* The steps of a match.
LEMMA MatchKeeps ==
    ASSUME IInv, NEW w \in Workers, Match(w)
    PROVE  IInv'
<1> USE DEF IInv
<1>1. CASE LoadSignal(w)
  <2>1. worker[w].at = "claimed" /\ UNCHANGED <<job, verdict, inputs, faults, overruns>>
    BY <1>1 DEF LoadSignal
  <2>2. /\ worker' \in [Workers -> WorkerRecords] /\ Busy'
        /\ worker'[w].at \in {"finishing", "loaded"}
        /\ \A v \in Workers \ {w} : worker'[v] = worker[v]
    <3>1. CASE Conclude(w, "permanent")
      BY <2>1, <3>1, ConcludeMoves
    <3>2. CASE worker' = [worker EXCEPT ![w].at = "loaded"]
      BY <2>1, <3>2, GoMoves
    <3> QED
      BY <1>1, <3>1, <3>2 DEF LoadSignal
  <2>3. TypeOK'
    BY <2>1, <2>2 DEF TypeOK
  <2>4. Slots' /\ Budget'
    BY <2>1, <2>2, <2>3, BesideTheCalls
  <2> QED
    BY <2>2, <2>3, <2>4
<1>2. CASE LookupVerdict(w)
  <2>1. worker[w].at = "loaded" /\ UNCHANGED <<job, verdict, inputs, faults, overruns>>
    BY <1>2 DEF LookupVerdict
  <2>2. /\ worker' \in [Workers -> WorkerRecords] /\ Busy'
        /\ worker'[w].at \in {"finishing", "hit", "missed"}
        /\ \A v \in Workers \ {w} : worker'[v] = worker[v]
    <3>1. CASE Conclude(w, "success") \/ Conclude(w, "retryable")
      BY <2>1, <3>1, ConcludeMoves
    <3>2. CASE worker' = [worker EXCEPT ![w].at = "hit"] \/ worker' = [worker EXCEPT ![w].at = "missed"]
      BY <2>1, <3>2, GoMoves
    <3> QED
      BY <1>2, <3>1, <3>2 DEF LookupVerdict
  <2>3. TypeOK'
    BY <2>1, <2>2 DEF TypeOK
  <2>4. Slots' /\ Budget'
    BY <2>1, <2>2, <2>3, BesideTheCalls
  <2> QED
    BY <2>2, <2>3, <2>4
<1>3. CASE ReserveVerdict(w)
  <2>1. CASE Retryable
    BY <1>3, <2>1, ReserveMoves, ReserveKeeps
  <2>2. CASE ~Retryable
    <3>1. worker[w].at = "missed" /\ Conclude(w, "retryable") /\ UNCHANGED <<job, verdict, inputs, faults, overruns>>
      BY <1>3, <2>2 DEF ReserveVerdict
    <3>2. /\ worker' \in [Workers -> WorkerRecords] /\ Busy' /\ worker'[w].at = "finishing"
          /\ \A v \in Workers \ {w} : worker'[v] = worker[v]
      BY <3>1, ConcludeMoves
    <3>3. TypeOK'
      BY <3>1, <3>2 DEF TypeOK
    <3>4. Slots' /\ Budget'
      BY <3>1, <3>2, <3>3, BesideTheCalls
    <3> QED
      BY <3>2, <3>3, <3>4
  <2> QED
    BY <2>1, <2>2
<1>4. CASE RecordFailedVerdict(w)
  <2>1. worker[w].at = "calling" /\ UNCHANGED <<job, inputs, faults, overruns>>
    BY <1>4 DEF RecordFailedVerdict
  <2>2. PICK kind \in {"transport", "unparseable"} :
           /\ verdict' = [state |-> DecideVerdictFailureState(kind, worker[w].claims).state,
                          attempts |-> verdict.attempts,
                          waiting |-> DecideVerdictFailureState(kind, worker[w].claims).waiting, expired |-> FALSE]
           /\ Conclude(w, IF DecideVerdictFailureState(kind, worker[w].claims).state = "dead_lettered"
                          THEN "success" ELSE "retryable")
    BY <1>4 DEF RecordFailedVerdict
  <2>3. /\ worker' \in [Workers -> WorkerRecords] /\ Busy' /\ worker'[w].at = "finishing"
        /\ \A v \in Workers \ {w} : worker'[v] = worker[v]
    BY <2>1, <2>2, ConcludeMoves
  <2>4. /\ verdict'.state \in {"failed", "unparseable", "dead_lettered"} /\ verdict'.attempts = verdict.attempts
        /\ verdict'.state # "dead_lettered" => worker[w].claims < VerdictAttempts
        /\ verdict' \in VerdictRows
    <3>1. worker[w].claims \in Nat /\ verdict.attempts \in Nat /\ VerdictAttempts \in Nat
      BY AttemptsAssumption DEF TypeOK, WorkerRecords, VerdictRows
    <3>2. CASE worker[w].claims >= VerdictAttempts
      BY <2>2, <3>1, <3>2 DEF DecideVerdictFailureState, VerdictRows
    <3>3. CASE worker[w].claims < VerdictAttempts
      BY <2>2, <3>1, <3>3 DEF DecideVerdictFailureState, StateAfter, VerdictRows
    <3> QED
      BY <3>1, <3>2, <3>3
  <2>5. TypeOK'
    BY <2>1, <2>3, <2>4 DEF TypeOK
  <2>6. Slots' /\ Budget'
    BY <2>1, <2>3, <2>4, RecordKeeps
  <2> QED
    BY <2>3, <2>5, <2>6
<1>5. CASE RecordAnsweredVerdict(w)
  <2>1. /\ worker[w].at = "calling" /\ UNCHANGED <<job, inputs, faults, overruns>>
        /\ verdict' = [state |-> "answered", attempts |-> verdict.attempts, waiting |-> FALSE, expired |-> FALSE]
        /\ Conclude(w, "success")
    BY <1>5 DEF RecordAnsweredVerdict
  <2>2. /\ worker' \in [Workers -> WorkerRecords] /\ Busy' /\ worker'[w].at = "finishing"
        /\ \A v \in Workers \ {w} : worker'[v] = worker[v]
    BY <2>1, ConcludeMoves
  <2>3. TypeOK'
    BY <2>1, <2>2 DEF TypeOK, VerdictRows
  <2>4. Slots' /\ Budget'
    BY <2>1, <2>2, RecordKeeps
  <2> QED
    BY <2>2, <2>3, <2>4
<1>6. CASE ReplayVerdict(w)
  <2>1. worker[w].at = "hit" /\ Conclude(w, "success") /\ UNCHANGED <<job, verdict, inputs, faults, overruns>>
    BY <1>6 DEF ReplayVerdict
  <2>2. /\ worker' \in [Workers -> WorkerRecords] /\ Busy' /\ worker'[w].at = "finishing"
        /\ \A v \in Workers \ {w} : worker'[v] = worker[v]
    BY <2>1, ConcludeMoves
  <2>3. TypeOK'
    BY <2>1, <2>2 DEF TypeOK
  <2>4. Slots' /\ Budget'
    BY <2>1, <2>2, <2>3, BesideTheCalls
  <2> QED
    BY <2>2, <2>3, <2>4
<1> QED
  BY <1>1, <1>2, <1>3, <1>4, <1>5, <1>6 DEF Match

\* The transactions that settle the job: they write a job row and free the worker.
LEMMA SettleKeeps ==
    ASSUME IInv, NEW w \in Workers, Succeed(w) \/ RecordFailure(w)
    PROVE  IInv'
<1> USE DEF IInv
<1>1. /\ worker[w].at = "finishing" /\ worker' = [worker EXCEPT ![w] = Idle]
      /\ UNCHANGED <<verdict, inputs, faults, overruns>>
  BY DEF Succeed, RecordFailure
<1>2. worker[w].job \in Jobs /\ worker[w].result \in {"success", "retryable", "permanent"}
  BY <1>1 DEF TypeOK, Busy, WorkerRecords
<1>3. job[worker[w].job] \in JobRows /\ job[worker[w].job].attempts \in Nat
  BY <1>2 DEF TypeOK, JobRows
<1>4. job' \in [Jobs -> JobRows]
  <2>1. CASE Succeed(w)
    <3>1. job' = [job EXCEPT ![worker[w].job] = [job[worker[w].job] EXCEPT !.status = "succeeded", !.expired = FALSE]]
      BY <1>2, <1>3, <2>1 DEF Succeed, TypeOK, JobRows
    <3>2. [job[worker[w].job] EXCEPT !.status = "succeeded", !.expired = FALSE] \in JobRows
      BY <1>3 DEF JobRows, Settled
    <3> QED
      BY <1>2, <3>1, <3>2, JobMoves
  <2>2. CASE RecordFailure(w)
    <3> DEFINE after == AfterFailure(worker[w].result, worker[w].attempts)
               row   == [status |-> after.status, attempts |-> job[worker[w].job].attempts,
                         waiting |-> after.waiting, expired |-> FALSE]
    <3>1. job' = [job EXCEPT ![worker[w].job] = row] /\ worker[w].result # "success"
      BY <2>2 DEF RecordFailure
    <3>2. worker[w].attempts \in Nat /\ JobAttempts \in Nat
      BY AttemptsAssumption DEF TypeOK, WorkerRecords
    <3>3. after.status \in {"failed", "dead_lettered", "queued"} /\ after.waiting \in BOOLEAN
      <4>1. CASE worker[w].result = "permanent"
        BY <4>1 DEF AfterFailure
      <4>2. CASE worker[w].result = "retryable" /\ worker[w].attempts >= JobAttempts
        BY <4>2 DEF AfterFailure
      <4>3. CASE worker[w].result = "retryable" /\ worker[w].attempts < JobAttempts
        BY <4>3, <3>2 DEF AfterFailure
      <4> QED
        BY <1>2, <3>1, <3>2, <4>1, <4>2, <4>3
    <3>4. row \in JobRows
      BY <1>3, <3>3 DEF JobRows, Settled
    <3> HIDE DEF row
    <3> QED
      BY <1>2, <3>1, <3>4, JobMoves
  <2> QED
    BY <2>1, <2>2
<1>5. /\ worker' \in [Workers -> WorkerRecords] /\ Busy' /\ worker'[w].at = "idle"
      /\ \A v \in Workers \ {w} : worker'[v] = worker[v]
  BY <1>1, IdleMoves
<1>6. TypeOK'
  BY <1>1, <1>4, <1>5 DEF TypeOK
<1>7. Slots' /\ Budget'
  BY <1>1, <1>5, <1>6, BesideTheCalls
<1> QED
  BY <1>5, <1>6, <1>7

\* A worker that dies, or whose statement fails.
LEMMA FaultsKeep ==
    ASSUME IInv, NEW w \in Workers, Crash(w) \/ MatcherThrows(w) \/ SuccessThrows(w)
    PROVE  IInv'
<1> USE DEF IInv
<1>1. /\ faults < MaxFaults /\ worker[w].at # "idle" /\ faults' = faults + 1
      /\ worker' = [worker EXCEPT ![w] = Idle] \/ Conclude(w, "retryable")
      /\ UNCHANGED <<job, verdict, inputs, overruns>>
  BY DEF Crash, MatcherThrows, SuccessThrows
<1>2. /\ worker' \in [Workers -> WorkerRecords] /\ Busy' /\ worker'[w].at \in {"idle", "finishing"}
      /\ \A v \in Workers \ {w} : worker'[v] = worker[v]
  BY <1>1, IdleMoves, ConcludeMoves
<1>3. faults' \in 0..MaxFaults
  BY <1>1, BoundsAssumption DEF TypeOK
<1>4. TypeOK'
  BY <1>1, <1>2, <1>3 DEF TypeOK
<1>5. CASE worker[w].at = "calling"
  BY <1>1, <1>2, <1>4, <1>5, FaultKeeps
<1>6. CASE worker[w].at # "calling"
  <2>1. Slots' /\ Budget'
    BY <1>1, <1>2, <1>4, <1>6, BesideTheCalls
  <2> QED
    BY <1>2, <1>4, <2>1
<1> QED
  BY <1>5, <1>6

\* Time.
LEMMA ClockKeeps ==
    ASSUME IInv, Clock
    PROVE  IInv'
<1> USE DEF IInv
<1>1. ASSUME NEW j \in Jobs, JobComesDue(j) \/ LockExpires(j) PROVE IInv'
  <2>1. /\ UNCHANGED <<verdict, inputs, worker, faults>>
        /\ overruns' = overruns \/ (overruns < MaxOverruns /\ overruns' = overruns + 1)
    BY <1>1 DEF JobComesDue, LockExpires, Overrun
  <2>2. job' \in [Jobs -> JobRows]
    <3>1. job[j] \in JobRows
      BY DEF TypeOK
    <3>2. [job[j] EXCEPT !.waiting = FALSE] \in JobRows /\ [job[j] EXCEPT !.expired = TRUE] \in JobRows
      BY <3>1 DEF JobRows
    <3>3. CASE JobComesDue(j)
      BY <3>2, <3>3, JobMoves DEF JobComesDue
    <3>4. CASE LockExpires(j)
      BY <3>2, <3>4, JobMoves DEF LockExpires
    <3> QED
      BY <1>1, <3>3, <3>4
  <2>3. overruns' \in 0..MaxOverruns
    BY <2>1, BoundsAssumption DEF TypeOK
  <2>4. TypeOK'
    BY <2>1, <2>2, <2>3 DEF TypeOK
  <2>5. Busy' /\ Slots' /\ Budget'
    BY <2>1, <2>4, BesideTheWorkers
  <2> QED
    BY <2>4, <2>5
<1>2. CASE VerdictComesDue
  <2>1. /\ UNCHANGED <<job, inputs, worker, faults, overruns>> /\ verdict' \in VerdictRows
        /\ verdict'.state = verdict.state /\ verdict'.attempts = verdict.attempts
        /\ verdict'.expired = verdict.expired
    BY <1>2 DEF VerdictComesDue, TypeOK, VerdictRows
  <2>2. TypeOK'
    BY <2>1 DEF TypeOK
  <2>3. Busy' /\ Slots' /\ Budget'
    BY <2>1, <2>2, BesideTheWorkers
  <2> QED
    BY <2>2, <2>3
<1>3. CASE ReservationExpires
  <2>1. UNCHANGED <<job, inputs, worker, faults>> /\ verdict' \in VerdictRows
    BY <1>3 DEF ReservationExpires, TypeOK, VerdictRows
  <2>2. overruns' \in 0..MaxOverruns
    BY <1>3, BoundsAssumption DEF ReservationExpires, Overrun, TypeOK
  <2>3. TypeOK' /\ Busy'
    BY <2>1, <2>2 DEF TypeOK, Busy
  <2> QED
    BY <1>3, <2>3, ExpiryKeeps
<1> QED
  BY <1>1, <1>2, <1>3 DEF Clock

\* The producer and the loss of the inputs.
LEMMA EnvironmentKeeps ==
    ASSUME IInv, \/ \E js \in SUBSET Jobs : Enqueue(js)
                 \/ \E gone \in {"no_controls", "no_signal"} : LoseInputs(gone)
    PROVE  IInv'
<1> USE DEF IInv
<1>1. Queued \in JobRows
  BY DEF Queued, JobRows
<1>2. UNCHANGED <<verdict, worker, faults, overruns>>
  BY DEF Enqueue, LoseInputs
<1>3. job' \in [Jobs -> JobRows] /\ inputs' \in {"complete", "no_controls", "no_signal"}
  BY <1>1 DEF Enqueue, LoseInputs, TypeOK
<1>4. TypeOK'
  BY <1>2, <1>3 DEF TypeOK
<1>5. Busy' /\ Slots' /\ Budget'
  BY <1>2, <1>4, BesideTheWorkers
<1> QED
  BY <1>4, <1>5

\* The first state.
LEMMA InitKeeps == Init => IInv
<1> SUFFICES ASSUME Init PROVE IInv
  OBVIOUS
<1>1. worker \in [Workers -> WorkerRecords] /\ \A w \in Workers : worker[w].at = "idle"
  BY DEF Init, Idle, WorkerRecords
<1>2. Calling = {} /\ Late = {}
  BY <1>1 DEF Calling, Late
<1>3. IsFiniteSet(Calling) /\ Cardinality(Calling) = 0 /\ Cardinality(Late) = 0
  BY <1>2, FS_EmptySet
<1>4. TypeOK
  BY <1>1, BoundsAssumption DEF Init, TypeOK, JobRows, VerdictRows
<1>5. Slots /\ Budget
  BY <1>3, AttemptsAssumption, BoundsAssumption DEF Init, Slots, Budget, Reserved, Open
<1>6. Busy
  BY <1>1 DEF Busy
<1> QED
  BY <1>4, <1>5, <1>6 DEF IInv

\* Every step, stuttering included, keeps the invariant.
LEMMA NextKeeps == IInv /\ [Next]_vars => IInv'
<1> SUFFICES ASSUME IInv, [Next]_vars PROVE IInv'
  OBVIOUS
<1>1. ASSUME NEW w \in Workers, Tick(w) PROVE IInv'
  <2>1. ASSUME NEW j \in Jobs, ClaimNextJob(w, j) PROVE IInv'
    <3>1. /\ TypeOK' /\ Busy' /\ worker[w].at = "idle" /\ worker'[w].at = "claimed"
          /\ \A v \in Workers \ {w} : worker'[v] = worker[v]
      BY <2>1, ClaimMoves DEF IInv
    <3>2. UNCHANGED <<verdict, faults, overruns>>
      BY <2>1 DEF ClaimNextJob
    <3>3. Slots' /\ Budget'
      BY <3>1, <3>2, BesideTheCalls
    <3> QED
      BY <3>1, <3>3 DEF IInv
  <2> QED
    BY <1>1, <2>1, MatchKeeps, SettleKeeps DEF Tick
<1>2. ASSUME NEW w \in Workers, Crash(w) \/ MatcherThrows(w) \/ SuccessThrows(w) PROVE IInv'
  BY <1>2, FaultsKeep
<1>3. CASE UNCHANGED vars
  <2>1. TypeOK'
    BY <1>3 DEF IInv, TypeOK, vars
  <2>2. Busy' /\ Slots' /\ Budget'
    BY <1>3, <2>1, BesideTheWorkers DEF vars
  <2> QED
    BY <2>1, <2>2 DEF IInv
<1> QED
  BY <1>1, <1>2, <1>3, EnvironmentKeeps, ClockKeeps DEF Next

\* Only the clock counts an overrun, and only a match or the clock writes the
\* verdict.
LEMMA OnlyTheClock ==
    ASSUME Next
    PROVE  /\ UNCHANGED overruns \/ overruns' = overruns + 1
           /\ \/ UNCHANGED verdict
              \/ \E w \in Workers : Match(w)
              \/ VerdictComesDue \/ ReservationExpires
<1>1. ASSUME NEW js \in SUBSET Jobs, Enqueue(js) PROVE UNCHANGED <<verdict, overruns>>
  BY <1>1 DEF Enqueue
<1>2. ASSUME NEW gone \in {"no_controls", "no_signal"}, LoseInputs(gone) PROVE UNCHANGED <<verdict, overruns>>
  BY <1>2 DEF LoseInputs
<1>3. ASSUME NEW w \in Workers, Match(w) PROVE UNCHANGED overruns
  BY <1>3 DEF Match, LoadSignal, LookupVerdict, ReserveVerdict, RecordFailedVerdict, RecordAnsweredVerdict, ReplayVerdict
<1>4. ASSUME NEW w \in Workers, Tick(w), ~Match(w) PROVE UNCHANGED <<verdict, overruns>>
  BY <1>4 DEF Tick, ClaimNextJob, Succeed, RecordFailure
<1>5. ASSUME NEW w \in Workers, Crash(w) \/ MatcherThrows(w) \/ SuccessThrows(w) PROVE UNCHANGED <<verdict, overruns>>
  BY <1>5 DEF Crash, MatcherThrows, SuccessThrows
<1>6. ASSUME NEW j \in Jobs, JobComesDue(j) \/ LockExpires(j)
      PROVE  UNCHANGED verdict /\ (UNCHANGED overruns \/ overruns' = overruns + 1)
  BY <1>6 DEF JobComesDue, LockExpires, Overrun
<1>7. VerdictComesDue \/ ReservationExpires => UNCHANGED overruns \/ overruns' = overruns + 1
  BY DEF VerdictComesDue, ReservationExpires, Overrun
<1>8. CASE \E w \in Workers : Tick(w)
  BY <1>3, <1>4, <1>8
<1>9. CASE Clock
  BY <1>6, <1>7, <1>9 DEF Clock
<1> QED
  BY <1>1, <1>2, <1>5, <1>8, <1>9 DEF Next

-----------------------------------------------------------------------------
(***************************************************************************)
(* The theorems.                                                           *)
(***************************************************************************)

\* The types, and the accounts of the calls and of the retry budget, hold in
\* every state of control_matcher_suggest jobs and the verdict cache.
THEOREM MatcherInvariant == Spec => []IInv
BY InitKeeps, NextKeeps, PTL DEF Spec

\* The variables have their types.
THEOREM MatcherTypeCorrect == Spec => []TypeOK
<1>1. IInv => TypeOK
  BY DEF IInv
<1> QED
  BY <1>1, MatcherInvariant, PTL

\* The reservation lets one call out at a time as long as no call outlives it.
THEOREM OneCall == Spec => []OneCallAtATime
<1>1. IInv => OneCallAtATime
  <2> SUFFICES ASSUME IInv, overruns = 0 PROVE Cardinality(Calling) <= 1
    BY DEF OneCallAtATime
  <2>1. Cardinality(Calling) \in Nat
    BY Counts DEF IInv, Slots
  <2> QED
    BY <2>1 DEF IInv, Slots
<1> QED
  BY <1>1, MatcherInvariant, PTL

\* Every call beyond the retry budget was paid for by a fault or an overrun.
THEOREM CallsBounded == Spec => []CallsAreBounded
<1>1. IInv => CallsAreBounded
  <2> SUFFICES ASSUME IInv PROVE CallsAreBounded
    OBVIOUS
  <2>1. Cardinality(Late) \in Nat
    BY Counts DEF IInv, Slots
  <2>2. {faults, overruns, verdict.attempts} \subseteq Nat /\ VerdictAttempts \in Nat
    BY BoundsAssumption, AttemptsAssumption DEF IInv, TypeOK, VerdictRows
  <2> QED
    BY <2>1, <2>2 DEF IInv, Budget, CallsAreBounded
<1> QED
  BY <1>1, MatcherInvariant, PTL

\* As long as no call outlives its reservation, an answer once stored stays.
THEOREM AnswerKept == Spec => AnswerIsKept
<1>1. IInv /\ [Next]_vars => [overruns' = 0 /\ verdict.state = "answered" => verdict'.state = "answered"]_vars
  <2> SUFFICES ASSUME IInv, Next, overruns' = 0, verdict.state = "answered"
               PROVE  verdict'.state = "answered"
    OBVIOUS
  <2>1. overruns = 0
    <3>1. CASE UNCHANGED overruns
      BY <3>1
    <3>2. CASE overruns' = overruns + 1
      BY <3>2, BoundsAssumption DEF IInv, TypeOK
    <3> QED
      BY <3>1, <3>2, OnlyTheClock
  <2>2. Calling = {}
    <3>1. IsFiniteSet(Calling) /\ Cardinality(Calling) \in Nat
      BY Counts DEF IInv, Slots
    <3>2. Cardinality(Calling) = 0
      BY <2>1, <3>1 DEF IInv, Slots, Reserved
    <3> QED
      BY <3>1, <3>2, FS_EmptySet
  <2>3. ASSUME NEW w \in Workers, Match(w) PROVE verdict'.state = "answered"
    <3>1. ~RecordFailedVerdict(w)
      BY <2>2 DEF Calling, RecordFailedVerdict
    <3>2. ReserveVerdict(w) => UNCHANGED verdict
      BY DEF ReserveVerdict, Retryable
    <3> QED
      BY <2>3, <3>1, <3>2 DEF Match, LoadSignal, LookupVerdict, RecordAnsweredVerdict, ReplayVerdict
  <2>4. CASE VerdictComesDue
    BY <2>4 DEF VerdictComesDue, IInv, TypeOK, VerdictRows
  <2> QED
    BY <2>3, <2>4, OnlyTheClock DEF ReservationExpires
<1> QED
  BY <1>1, MatcherInvariant, PTL DEF Spec, AnswerIsKept

=============================================================================
