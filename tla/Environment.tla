----------------------------- MODULE Environment ------------------------------
(***************************************************************************)
(* One server's Environment: the quota counter, the batch of touches and   *)
(* the decimation of the coldest bundles.                                  *)
(*                                                                         *)
(* Handlers and do_maintenance run in one task, one at a time.             *)
(* do_decimation runs in a blocking thread that takes no stripe lock, so   *)
(* its steps interleave with the store operations inside a handler.  Of a  *)
(* bundle only its number of bytes is kept; every post has one byte.  All  *)
(* fractions are computed exactly where the code uses f64.                 *)
(***************************************************************************)
EXTENDS Integers, FiniteSets, FiniteSetsExt, Folds, Functions

CONSTANTS
    Location,       \* location ids, ordered as their bytes are
    MaxSize,        \* environment_dimensions.max_size_bytes
    QuotaPct,       \* environment_dimensions.max_quota_used, in percent
    BatchSize,      \* most rows of one batch of a decimation (100)
    SampleFactor,   \* rows sampled per row to delete (5)
    USize,          \* number of values of the AtomicUsize counter
    MaxRequests,    \* bound of the model: requests that write
    MaxTime,        \* bound of the model: the clock stops here
    MaxCrashes,     \* bound of the model: crashes
    None            \* absent row, file or touch

ASSUME EnvironmentAssumption ==
    /\ Location \subseteq Nat /\ IsFiniteSet(Location)
    /\ MaxSize \in Nat \ {0} /\ QuotaPct \in 1 .. 100
    /\ BatchSize \in Nat \ {0, 1} /\ SampleFactor \in Nat \ {0}
    /\ MaxRequests \in Nat /\ MaxTime \in Nat /\ MaxCrashes \in Nat
    /\ USize \in Nat /\ USize > MaxRequests
    /\ None \notin Nat

VARIABLES
    now,
    row,            \* row[l]: size of the metadata row, or None
    file,           \* file[l]: bytes of the bundle file, or None
    lastAccessed,   \* lastAccessed[l]: time in the last_accessed keyspace, or None
    touched,        \* post_bundles_last_touched_batch
    counter,        \* post_bundle_current_size_bytes
    saved,          \* the counter in the config keyspace
    handler,        \* the request being handled
    decimation,     \* the decimation under way
    clean,          \* history: nothing that is known to spoil the accounting
    requests, crashes

store == <<row, file, lastAccessed>>
bounds == <<requests, crashes>>
vars == <<now, row, file, lastAccessed, touched, counter, saved, handler,
          decimation, clean, requests, crashes>>

OptNat == Nat \cup {None}
Operation == {"commit", "heal", "claim", "seal"}

IdleHandler == [step |-> "idle"]
IdleDecimation == [stage |-> "idle"]

TypeOK ==
    /\ now \in Nat
    /\ row \in [Location -> OptNat]
    /\ file \in [Location -> OptNat]
    /\ lastAccessed \in [Location -> OptNat]
    /\ touched \in [Location -> OptNat]
    /\ counter \in 0 .. (USize - 1)
    /\ saved \in 0 .. (USize - 1)
    /\ handler \in {IdleHandler} \cup
          [step : {"file", "row", "add"}, op : Operation, loc : Location,
           row : OptNat, file : OptNat]
    /\ decimation \in {IdleDecimation} \cup
          [stage : {"select", "files", "rows"}, batches : Nat, rows : Nat,
           victims : SUBSET Location, stored : Nat]
    /\ clean \in BOOLEAN
    /\ requests \in Nat /\ crashes \in Nat

Init ==
    /\ now = 0
    /\ row = [l \in Location |-> None]
    /\ file = [l \in Location |-> None]
    /\ lastAccessed = [l \in Location |-> None]
    /\ touched = [l \in Location |-> None]
    /\ counter = 0
    /\ saved = 0
    /\ handler = IdleHandler
    /\ decimation = IdleDecimation
    /\ clean = TRUE
    /\ requests = 0 /\ crashes = 0

OrZero(n) == IF n = None THEN 0 ELSE n

\* Bytes accounted for by the metadata rows, and bytes in the bundle files.
Sizes(stored) == [l \in Location |-> OrZero(stored[l])]
RowBytes == SumFunction(Sizes(row))
FileBytes == SumFunction(Sizes(file))

Touch(l) == touched' = [touched EXCEPT ![l] = now]

-----------------------------------------------------------------------------
(***************************************************************************)
(* Handlers, as sequences of store operations.                             *)
(***************************************************************************)

\* The victims whose deletion is under way.
BeingDeleted ==
    IF decimation.stage \in {"files", "rows"} THEN decimation.victims ELSE {}

\* A GET that writes nothing; the location need not be stored.
ReadBundle(l) ==
    /\ handler = IdleHandler
    /\ Touch(l)
    /\ UNCHANGED <<now, store, counter, saved, handler, decimation, clean, bounds>>

\* The row and the file are loaded, under the stripe lock.
BeginRequest(op, l) ==
    /\ handler = IdleHandler
    /\ requests < MaxRequests
    /\ op = "seal" => row[l] # None
    /\ Touch(l)
    /\ handler' = [step |-> "file", op |-> op, loc |-> l,
                   row |-> row[l], file |-> file[l]]
    /\ requests' = requests + 1
    /\ clean' = (clean /\ op # "heal" /\ l \notin BeingDeleted)
    /\ UNCHANGED <<now, store, counter, saved, decimation, crashes>>

\* Size of the bundle a request writes, from the lengths in the loaded header.
NewFile(h) ==
    IF h.op \in {"commit", "heal"} THEN OrZero(h.file) + 1 ELSE h.file

NewRow(h) ==
    IF h.op \in {"commit", "heal"} THEN NewFile(h) ELSE OrZero(h.row)

\* A commit reports the bytes it added; a heal reports none.
AdditionalBytes(h) == IF h.op = "commit" THEN 1 ELSE 0

\* put_post_bundle_bytes, then the touch of put_post_bundle_metadata.
PutFile ==
    /\ handler.step = "file"
    /\ handler' = [handler EXCEPT !.step = "row"]
    /\ file' = [file EXCEPT ![handler.loc] =
                    IF handler.op = "claim" \/ NewFile(handler) = None THEN @
                    ELSE NewFile(handler)]
    /\ Touch(handler.loc)
    /\ UNCHANGED <<now, row, lastAccessed, counter, saved, decimation, clean, bounds>>

PutRow ==
    /\ handler.step = "row"
    /\ handler' = [handler EXCEPT !.step = "add"]
    /\ row' = [row EXCEPT ![handler.loc] = NewRow(handler)]
    /\ UNCHANGED <<now, file, lastAccessed, touched, counter, saved, decimation,
                   clean, bounds>>

\* Mutant: the size of the whole bundle is added each time.
AddBytesOfBundle ==
    /\ handler.step = "add"
    /\ counter' = (counter + NewRow(handler)) % USize
    /\ handler' = IdleHandler
    /\ UNCHANGED <<now, store, touched, saved, decimation, clean, bounds>>

AddBytes ==
    /\ handler.step = "add"
    /\ counter' = (counter + AdditionalBytes(handler)) % USize
    /\ handler' = IdleHandler
    /\ UNCHANGED <<now, store, touched, saved, decimation, clean, bounds>>

-----------------------------------------------------------------------------
(***************************************************************************)
(* Maintenance and decimation.                                             *)
(***************************************************************************)

OverQuota(bytes) == 100 * bytes > QuotaPct * MaxSize

\* decimation_count = total_rows * (1 - 0.98 * max_quota_used / quota_used) is
\* the fraction Numerator / Denominator.
CountNumerator(total, bytes) == total * (10000 * bytes - 98 * QuotaPct * MaxSize)
CountDenominator(bytes) == 10000 * bytes

NumBatches(total, bytes) ==
    LET n == CountNumerator(total, bytes)
        d == CountDenominator(bytes)
    IN  IF n <= BatchSize * d THEN 1
        ELSE (n + BatchSize * d - 1) \div (BatchSize * d)

RowsPerBatch(total, bytes) ==
    (CountNumerator(total, bytes) \div CountDenominator(bytes)) \div NumBatches(total, bytes)

\* Mutant: the touches are dropped without being flushed.
FlushedNothing == lastAccessed

Flushed == [l \in Location |-> IF touched[l] = None THEN lastAccessed[l] ELSE touched[l]]

Plan(rows) ==
    LET total == Cardinality({l \in Location : rows[l] # None})
    IN  IF OverQuota(counter) /\ CountNumerator(total, counter) > 0
        THEN [stage |-> "select", batches |-> NumBatches(total, counter),
              rows |-> RowsPerBatch(total, counter), victims |-> {},
              stored |-> FileBytes]
        ELSE IdleDecimation

\* do_maintenance up to the point where it waits for the decimation.
DoMaintenance ==
    /\ handler = IdleHandler
    /\ decimation = IdleDecimation
    /\ saved' = counter
    /\ lastAccessed' = Flushed
    /\ touched' = [l \in Location |-> None]
    /\ decimation' = Plan(Flushed)
    /\ UNCHANGED <<now, row, file, counter, handler, clean, bounds>>

\* The order of post_bundles_last_accessed_iter: from a random id on, cyclically.
ComesBefore(start, g, l) == IF g >= start THEN l < start \/ g < l ELSE l < start /\ g < l

LastOf(start, rows) == CHOOSE l \in rows : \A g \in rows \ {l} : ComesBefore(start, g, l)

\* Mutant: the comparison is the wrong way round.
HeapPushNewer(n, heap, l) ==
    IF Cardinality(heap) < n THEN heap \cup {l}
    ELSE LET top == CHOOSE h \in heap : \A g \in heap :
                        \/ lastAccessed[g] < lastAccessed[h]
                        \/ lastAccessed[g] = lastAccessed[h] /\ g <= h
         IN  IF heap # {} /\ lastAccessed[top] < lastAccessed[l]
             THEN (heap \ {top}) \cup {l} ELSE heap

\* The heap holds at most n rows; a full heap trades its most recently accessed
\* row for an older one.
HeapPush(n, heap, l) ==
    IF Cardinality(heap) < n THEN heap \cup {l}
    ELSE LET top == CHOOSE h \in heap : \A g \in heap :
                        \/ lastAccessed[g] < lastAccessed[h]
                        \/ lastAccessed[g] = lastAccessed[h] /\ g <= h
         IN  IF heap # {} /\ lastAccessed[top] > lastAccessed[l]
             THEN (heap \ {top}) \cup {l} ELSE heap

\* The first rows of the iteration.
Sample(start, n) ==
    LET rows == {l \in Location : lastAccessed[l] # None}
    IN  {l \in rows : Cardinality({g \in rows : ComesBefore(start, g, l)}) < SampleFactor * n}

\* They are pushed in the order of the iteration.
Victims(start, n) ==
    MapThenFoldSet(LAMBDA l, heap : HeapPush(n, heap, l), {}, LAMBDA l : l,
                   LAMBDA rows : LastOf(start, rows), Sample(start, n))

\* Mutant: the result is not reduced to a usize.
FetchSubSigned(bytes) == counter - bytes

FetchSub(bytes) == (counter - bytes) % USize

\* Mutant: the batch is not counted.
NextBatchUncounted(victims) ==
    [decimation EXCEPT !.stage = "files", !.victims = victims]

NextBatch(victims) ==
    [decimation EXCEPT !.stage = "files", !.victims = victims, !.batches = @ - 1]

\* One batch: the victims are chosen, and under the lock of the touches their
\* touches are dropped and the sizes in their rows are taken off the counter.
SelectVictims ==
    /\ decimation.stage = "select"
    /\ decimation.batches > 0
    /\ \E start \in Location :
          LET victims == Victims(start, decimation.rows)
          IN  /\ decimation' = NextBatch(victims)
              /\ touched' = [l \in Location |-> IF l \in victims THEN None ELSE touched[l]]
              /\ counter' = FetchSub(SumFunctionOnSet(Sizes(row), victims))
              /\ clean' = (clean /\ (handler # IdleHandler => handler.loc \notin victims))
    /\ UNCHANGED <<now, store, saved, handler, bounds>>

DeleteFiles ==
    /\ decimation.stage = "files"
    /\ decimation' = [decimation EXCEPT !.stage = "rows"]
    /\ file' = [l \in Location |-> IF l \in decimation.victims THEN None ELSE file[l]]
    /\ UNCHANGED <<now, row, lastAccessed, touched, counter, saved, handler, clean, bounds>>

DeleteRows ==
    /\ decimation.stage = "rows"
    /\ decimation' = [decimation EXCEPT !.stage = "select", !.victims = {}]
    /\ row' = [l \in Location |-> IF l \in decimation.victims THEN None ELSE row[l]]
    /\ lastAccessed' = [l \in Location |-> IF l \in decimation.victims THEN None
                                           ELSE lastAccessed[l]]
    /\ UNCHANGED <<now, file, touched, counter, saved, handler, clean, bounds>>

\* The deferred flush of the counter.
EndDecimation ==
    /\ decimation.stage = "select"
    /\ decimation.batches = 0
    /\ decimation' = IdleDecimation
    /\ saved' = counter
    /\ UNCHANGED <<now, store, touched, counter, handler, clean, bounds>>

-----------------------------------------------------------------------------
\* The process dies and starts again: Environment::new reads the saved counter.
Crash ==
    /\ crashes < MaxCrashes
    /\ crashes' = crashes + 1
    /\ touched' = [l \in Location |-> None]
    /\ counter' = saved
    /\ handler' = IdleHandler
    /\ decimation' = IdleDecimation
    /\ clean' = (/\ clean /\ saved = counter
                 /\ handler = IdleHandler /\ decimation = IdleDecimation
                 /\ \A l \in Location : touched[l] = None)
    /\ UNCHANGED <<now, store, saved, requests>>

Tick ==
    /\ now < MaxTime
    /\ now' = now + 1
    /\ UNCHANGED <<store, touched, counter, saved, handler, decimation, clean, bounds>>

Decimate == SelectVictims \/ DeleteFiles \/ DeleteRows \/ EndDecimation

Handle == PutFile \/ PutRow \/ AddBytes

Next ==
    \/ \E l \in Location : ReadBundle(l)
    \/ \E l \in Location, op \in Operation : BeginRequest(op, l)
    \/ PutFile \/ PutRow \/ AddBytes
    \/ DoMaintenance
    \/ SelectVictims \/ DeleteFiles \/ DeleteRows \/ EndDecimation
    \/ Crash
    \/ Tick

Spec == Init /\ [][Next]_vars

\* A handler and a decimation run to their end, and maintenance comes round every
\* minute; requests, crashes and the clock owe nothing.
FairSpec == Spec /\ WF_vars(Handle) /\ WF_vars(Decimate) /\ WF_vars(DoMaintenance)

-----------------------------------------------------------------------------
(***************************************************************************)
(* Properties.                                                             *)
(***************************************************************************)

Quiet == handler = IdleHandler /\ decimation = IdleDecimation

\* The counter that the quota is enforced with equals the bytes of the bundles
\* stored whenever nothing is under way, unless a heal, a crash with unsaved
\* state, or a write to a victim of a running decimation has happened: these
\* are the only ways in which put_post_bundle_metadata and do_decimation lose
\* count.
AccountingExact ==
    clean /\ Quiet => counter = FileBytes /\ RowBytes = FileBytes

\* Under the same condition decimation can find every stored bundle: it has a
\* last_accessed row or a touch that the next maintenance turns into one.
Findable ==
    clean /\ Quiet =>
        \A l \in Location : row[l] # None => touched[l] # None \/ lastAccessed[l] # None

\* Under the same condition no decimation runs while the stored bytes are within
\* the quota.
DecimatesOnlyOverQuota ==
    clean /\ decimation # IdleDecimation => OverQuota(decimation.stored)

\* What the heap keeps of the sampled rows are the least recently accessed ones:
\* whenever a batch is chosen, for some sample no row that is spared was accessed
\* before a victim.
VictimsColdest ==
    decimation.stage = "files" =>
        \E start \in Location :
            LET sample == Sample(start, decimation.rows)
            IN  /\ decimation.victims \subseteq sample
                /\ Cardinality(decimation.victims)
                     = Min({Cardinality(sample), decimation.rows})
                /\ \A v \in decimation.victims, l \in sample \ decimation.victims :
                      lastAccessed[v] <= lastAccessed[l]

\* A decimation, once begun, comes to an end.
DecimationEnds == decimation # IdleDecimation ~> decimation = IdleDecimation

\* Claimed by the module comment ("When the cap is crossed, decimation runs"): it
\* runs only then.  A counter that wrapped below zero refutes it.
DecimationMeansCapCrossed ==
    decimation # IdleDecimation => OverQuota(decimation.stored)

\* What maintenance and decimation keep on either side of a crash: every bundle can be found
\* by the next decimation (unless excused), a decimation runs only over the quota, and the
\* victims of a batch are the coldest rows of its sample.
EnvironmentInv == TypeOK /\ Findable /\ DecimatesOnlyOverQuota /\ VictimsColdest
=============================================================================
