------------------------------ MODULE PowJobs ------------------------------
(***************************************************************************)
(* The proof-of-work generators (tools/pow_generator): run_pool, which      *)
(* cuts a search into chunks and keeps one chunk on every slot, the tracker *)
(* of running jobs, and the two ways a chunk is run: on a thread of its own *)
(* (NativeParallelPowGenerator, and SingleThreadedPowGenerator with one     *)
(* slot), or by a web worker that all jobs share (WasmParallelPowGenerator).*)
(*                                                                         *)
(* What a hash is worth is a choice; a chunk reports the best of its        *)
(* attempts.  A worker takes the chunks posted to it one after the other,   *)
(* answers each on a port of its own, and has one onerror handler, which    *)
(* the last chunk posted has set.                                           *)
(***************************************************************************)
EXTENDS Naturals, Sequences, FiniteSets, FiniteSetsExt, SequencesExt

CONSTANTS Jobs,             \* searches
          Slots,            \* 1 .. pool_size
          IterationCap,     \* job -> its iteration cap, 0 for none
          ChunkIterations,  \* CHUNK_ITERATIONS
          MaxPow,           \* what a search asks for: pow_min
          NoJob,
          MaxWorkerFailures \* bound: chunks that end in an error

ASSUME PowJobsAssumption ==
    /\ IsFiniteSet(Slots) /\ Slots = 1 .. Cardinality(Slots)
    /\ IterationCap \in [Jobs -> Nat]
    /\ ChunkIterations \in Nat \ {0} /\ MaxPow \in Nat

VARIABLES
    backend,        \* "native" or "wasm"
    job,            \* job -> [at, remaining, flight, total, best]
    tracker,        \* the jobs in the JobTracker with their best so far
    posted,         \* slot -> the jobs whose chunk waits there, in order
    onerror,        \* slot -> the job whose handler the worker has
    misrouted,      \* an error went to another job than its own
    failures

powVars == <<backend, job, tracker, posted, onerror, misrouted, failures>>

Capped(j) == IterationCap[j] > 0

Idle == [s \in Slots |-> 0]

PowJobsInit ==
    /\ backend \in {"native", "wasm"}
    /\ job = [j \in Jobs |-> [at |-> "new", remaining |-> IterationCap[j], flight |-> Idle, total |-> 0, best |-> 0]]
    /\ tracker = [j \in {} |-> 0]
    /\ posted = [s \in Slots |-> <<>>]
    /\ onerror = [s \in Slots |-> NoJob]
    /\ misrouted = FALSE
    /\ failures = 0

---------------------------------------------------------------------------
(* Chunks                                                                  *)

\* MUTANT: the last chunk is a whole one.
PickNextChunkSizeWhole(j, remaining) == IF Capped(j) /\ remaining = 0 THEN 0 ELSE ChunkIterations

\* pick_next_chunk_size: what the next chunk takes of the remaining iterations.
PickNextChunkSize(j, remaining) ==
    IF Capped(j) THEN Min({remaining, ChunkIterations}) ELSE ChunkIterations

\* What is left of the cap once a chunk of the size is cut off.
LeftOver(j, remaining, size) == IF Capped(j) /\ remaining >= size THEN remaining - size ELSE 0

\* The sizes on the first fill: slot after slot until the cap is used up.
FirstChunks(j) ==
    LET before[s \in Slots \cup {0}] ==
            IF s = 0 THEN IterationCap[j]
            ELSE LeftOver(j, before[s - 1], PickNextChunkSize(j, before[s - 1]))
    IN  [size |-> [s \in Slots |-> PickNextChunkSize(j, before[s - 1])],
         left |-> before[Cardinality(Slots)]]

\* What the tracker holds after the guard of a job is dropped.
Untracked(j) == [k \in DOMAIN tracker \ {j} |-> tracker[k]]

\* What the tracker shows of a running job: guard.update.
Tracked(j, best) == [k \in DOMAIN tracker \cup {j} |-> IF k = j THEN best ELSE tracker[k]]

\* The pool posts a chunk to each slot of the set: run_chunk up to its first wait.
Post(j, ss) ==
    /\ posted' = [s \in Slots |-> IF s \in ss THEN Append(posted[s], j) ELSE posted[s]]
    /\ onerror' = [s \in Slots |-> IF s \in ss THEN j ELSE onerror[s]]

\* run_pool up to its loop: the job is tracked, one sample is measured, the slots are filled.
RunPool(j, seed) ==
    /\ job[j].at = "new"
    /\ IF seed >= MaxPow
       THEN /\ job' = [job EXCEPT ![j].at = "done", ![j].best = seed]
            /\ UNCHANGED <<tracker, posted, onerror>>
       ELSE /\ job' = [job EXCEPT ![j] = [at |-> "running", remaining |-> FirstChunks(j).left,
                                          flight |-> FirstChunks(j).size, total |-> 0, best |-> seed]]
            /\ tracker' = Tracked(j, seed)
            /\ Post(j, {s \in Slots : FirstChunks(j).size[s] > 0})
    /\ UNCHANGED <<backend, misrouted, failures>>

\* A chunk whose future was dropped with its job is worked off and its answer lost.
Awaited(j, s) == job[j].at = "running" /\ job[j].flight[s] > 0

\* The chunk the slot works on next: a worker takes them in order, threads take all.
WorkedOn(s) ==
    IF backend = "wasm" THEN {i \in {1} : posted[s] # <<>>} ELSE 1 .. Len(posted[s])

\* MUTANT: a slot with no chunk left ends the search, chunks in flight or not.
EndsEarly(flight) == TRUE

\* in_flight.next() gives None: nothing was refed and no chunk is left in flight.
Ends(flight) == \A s \in Slots : flight[s] = 0

\* The loop of run_pool on the answer of one chunk.
ChunkAnswers(s, i, pow) ==
    LET j == posted[s][i]
        best == Max({job[j].best, pow})
        next == PickNextChunkSize(j, job[j].remaining)
        flight == [job[j].flight EXCEPT ![s] = next]
    IN
    /\ IF ~Awaited(j, s)
       THEN posted' = [posted EXCEPT ![s] = RemoveAt(@, i)] /\ UNCHANGED <<job, tracker, onerror>>
       ELSE \/ /\ best >= MaxPow
               /\ job' = [job EXCEPT ![j].at = "done", ![j].best = best]
               /\ tracker' = Untracked(j)
               /\ posted' = [posted EXCEPT ![s] = RemoveAt(@, i)]
               /\ onerror' = [onerror EXCEPT ![s] = NoJob]
            \/ /\ best < MaxPow
               /\ next = 0
               /\ job' = [job EXCEPT ![j].best = best, ![j].flight = flight,
                                     ![j].total = @ + job[j].flight[s],
                                     ![j].at = IF Ends(flight) THEN "done" ELSE "running"]
               /\ tracker' = IF Ends(flight) THEN Untracked(j) ELSE Tracked(j, best)
               /\ posted' = [posted EXCEPT ![s] = RemoveAt(@, i)]
               /\ onerror' = [onerror EXCEPT ![s] = NoJob]
            \/ /\ best < MaxPow
               /\ next > 0
               /\ job' = [job EXCEPT ![j].best = best, ![j].flight = flight,
                                     ![j].total = IF Capped(j) THEN @ + job[j].flight[s] ELSE 0,
                                     ![j].remaining = LeftOver(j, @, next)]
               /\ tracker' = Tracked(j, best)
               /\ posted' = [posted EXCEPT ![s] = Append(RemoveAt(@, i), j)]
               /\ onerror' = [onerror EXCEPT ![s] = j]
    /\ UNCHANGED <<backend, misrouted, failures>>

\* MUTANT: a worker has no onerror handler.
HandlerNone(s, j) == IF backend = "wasm" THEN NoJob ELSE j

\* Whom the error of a chunk reaches: a thread's error its own job, a worker's its handler.
Handler(s, j) == IF backend = "wasm" THEN onerror[s] ELSE j

\* The chunk ends in an error; the search that hears of it fails.
ChunkFails(s, i) ==
    LET j == posted[s][i]
        h == Handler(s, j)
    IN
    /\ failures < MaxWorkerFailures
    /\ failures' = failures + 1
    /\ posted' = [posted EXCEPT ![s] = RemoveAt(@, i)]
    /\ IF h # NoJob /\ Awaited(h, s)
       THEN /\ job' = [job EXCEPT ![h].at = "failed"]
            /\ tracker' = Untracked(h)
            /\ onerror' = [onerror EXCEPT ![s] = NoJob]
       ELSE UNCHANGED <<job, tracker, onerror>>
    /\ misrouted' = (misrouted \/ (onerror[s] # j /\ Awaited(j, s)))
    /\ UNCHANGED backend

\* The caller drops the future: the guard goes with it, its chunks are worked off.
CancelJob(j) ==
    /\ job[j].at = "running"
    /\ job' = [job EXCEPT ![j].at = "cancelled"]
    /\ tracker' = Untracked(j)
    /\ UNCHANGED <<backend, posted, onerror, misrouted, failures>>

\* Every search is over, or waits for an answer that will not come.
JobsRest ==
    /\ \A s \in Slots : posted[s] = <<>>
    /\ \A j \in Jobs : job[j].at # "new"
    /\ UNCHANGED powVars

SlotStep(s) ==
    \E i \in WorkedOn(s) : ChunkFails(s, i) \/ \E pow \in 0 .. MaxPow : ChunkAnswers(s, i, pow)

PowJobsNext ==
    \/ \E j \in Jobs : CancelJob(j) \/ \E seed \in 0 .. MaxPow : RunPool(j, seed)
    \/ \E s \in Slots : SlotStep(s)
    \/ JobsRest

PowJobsFairness == \A s \in Slots : WF_powVars(SlotStep(s))

PowJobsSpec == PowJobsInit /\ [][PowJobsNext]_powVars /\ PowJobsFairness

---------------------------------------------------------------------------
\* No attempt of a capped search is lost or made twice while it runs: what was
\* reported, what is in flight and what remains are the cap.
AttemptsAddUp ==
    \A j \in Jobs : Capped(j) /\ job[j].at = "running" =>
        job[j].total + job[j].remaining + SumFunction(job[j].flight) = IterationCap[j]

\* generate_best_effort returns less than it was asked for only when it spent its cap,
\* and generate never does, however answers of fast and slow slots interleave.
ShortOnlyWhenSpent ==
    \A j \in Jobs : job[j].at = "done" /\ job[j].best < MaxPow =>
        Capped(j) /\ job[j].total = IterationCap[j]

\* A search with a cap ends, on threads always and on shared workers unless the error of
\* a chunk went to the handler of another search ("Without the two rejection paths the
\* awaiter hangs forever").
SearchesEnd ==
    []<>(\A j \in Jobs : Capped(j) => job[j].at # "running" \/ (backend = "wasm" /\ misrouted))

\* A search neither loses nor repeats attempts while slots overtake each other, and falls
\* short of its goal only with its cap spent.
SearchesAddUp == AttemptsAddUp /\ ShortOnlyWhenSpent
============================================================================
