------------------------- MODULE EnvironmentStores -------------------------
(***************************************************************************)
(* The two EnvironmentStore implementations below the Environment facade:  *)
(* DiskEnvironmentStore (disk_environment_store.rs), which a server process *)
(* opens under a lock file and writes in several steps, and                 *)
(* MemEnvironmentStore (mem_environment_store.rs), which the tests use in   *)
(* its place.  Every call a process makes on its disk environment is made   *)
(* on a memory store too, when it takes effect, so that what the tests show *)
(* of one store can be compared with what production does, crashes between  *)
(* the steps of a call included.                                            *)
(*                                                                         *)
(* A location id is a pair of bytes.  The byte strings of bundles, the      *)
(* metadata and the times are members of small sets; what is kept is where  *)
(* they are stored, when, and what a crash leaves.                          *)
(***************************************************************************)
EXTENDS Integers, Sequences, FiniteSets, SequencesExt

CONSTANTS Processes,          \* server processes on one node
          MaxEnvironments,    \* MAX_ENVIRONMENTS_PER_NODE
          BundleIds,          \* location ids: pairs of bytes
          BundleTexts,        \* contents of a bundle, numbers from 1
          FeedbackKeys,       \* (post_id, feedback_type) pairs
          FeedbackValues,     \* [salt, pow] of a feedback
          MaxCalls,           \* bound: calls made on the stores
          MaxCrashes          \* bound: processes that die

ASSUME EnvironmentStoresAssumption ==
    /\ {MaxEnvironments, MaxCalls, MaxCrashes} \subseteq Nat
    /\ BundleTexts \subseteq Nat \ {0}
    /\ BundleIds \subseteq (0 .. 255) \X (0 .. 255)

Environments == 1 .. MaxEnvironments

\* What a read of an absent key finds, and a file cut off while it was written.
Absent == 0
Torn == -1

VARIABLES
    trying,     \* process -> the environment it tries next, 0 when it tries none
    holding,    \* process -> the environment whose lock it has, 0 for none
    underway,   \* process -> the store call it has begun
    disk,       \* environment -> what is on disk
    mem,        \* environment -> a memory store given the same calls
    made,       \* calls made so far
    crashes     \* environment -> processes that died holding it

storeVars == <<trying, holding, underway, disk, mem, made, crashes>>

Quiet == [op |-> "none"]

EmptyDisk ==
    [file |-> [l \in BundleIds |-> Absent], temp |-> [l \in BundleIds |-> Absent],
     metadata |-> [l \in BundleIds |-> Absent], accessed |-> [l \in BundleIds |-> Absent],
     feedback |-> [l \in BundleIds |-> [k \in {} |-> Absent]]]

EmptyMem ==
    [bytes |-> [l \in BundleIds |-> Absent], metadata |-> [l \in BundleIds |-> Absent],
     accessed |-> [l \in BundleIds |-> Absent], feedbacks |-> [l \in BundleIds |-> <<>>]]

EnvironmentStoresInit ==
    /\ trying = [p \in Processes |-> 1]
    /\ holding = [p \in Processes |-> 0]
    /\ underway = [p \in Processes |-> Quiet]
    /\ disk = [e \in Environments |-> EmptyDisk]
    /\ mem = [e \in Environments |-> EmptyMem]
    /\ made = 0
    /\ crashes = [e \in Environments |-> 0]

---------------------------------------------------------------------------
(* Opening: the first environment whose lock file can be locked.           *)

\* MUTANT: the lock file is opened and not locked.
TryLockOpened(e) == TRUE

\* lock_file.try_lock(): fails while any live process has the lock.
TryLock(e) == \A p \in Processes : holding[p] # e

\* One round of open_next_available: take the environment or go on to the next.
OpenNextAvailable(p) ==
    /\ trying[p] \in Environments
    /\ \/ /\ TryLock(trying[p])
          /\ holding' = [holding EXCEPT ![p] = trying[p]]
          /\ trying' = [trying EXCEPT ![p] = 0]
       \/ /\ ~TryLock(trying[p])
          /\ trying' = [trying EXCEPT ![p] = @ + 1]
          /\ UNCHANGED holding
    /\ UNCHANGED <<underway, disk, mem, made, crashes>>

\* "no environments available": the server ends; it is started again later.
NoneAvailable(p) ==
    /\ trying[p] = MaxEnvironments + 1
    /\ trying' = [trying EXCEPT ![p] = 1]
    /\ UNCHANGED <<holding, underway, disk, mem, made, crashes>>

---------------------------------------------------------------------------
(* The memory store: each call under the locks of the maps it touches.     *)

MemPutBytes(m, l, v) == [m EXCEPT !.bytes[l] = v]

MemPutMetadata(m, l, v) == [m EXCEPT !.metadata[l] = v]

MemFlush(m, times) == [m EXCEPT !.accessed = [l \in BundleIds |-> IF l \in DOMAIN times THEN times[l] ELSE @[l]]]

MemPutFeedback(m, l, k, v) ==
    LET entries == m.feedbacks[l]
        at == {i \in 1 .. Len(entries) : entries[i].key = k}
    IN  IF at = {} THEN [m EXCEPT !.feedbacks[l] = Append(@, [key |-> k, value |-> v])]
        ELSE LET i == CHOOSE i \in at : TRUE
             IN  IF entries[i].value.pow >= v.pow THEN m
                 ELSE [m EXCEPT !.feedbacks[l][i].value = v]

MemDelete(m, ls) ==
    [bytes     |-> [l \in BundleIds |-> IF l \in ls THEN Absent ELSE m.bytes[l]],
     metadata  |-> [l \in BundleIds |-> IF l \in ls THEN Absent ELSE m.metadata[l]],
     accessed  |-> [l \in BundleIds |-> IF l \in ls THEN Absent ELSE m.accessed[l]],
     feedbacks |-> [l \in BundleIds |-> IF l \in ls THEN <<>> ELSE m.feedbacks[l]]]

---------------------------------------------------------------------------
(* The disk store: single-key inserts are one step of the database, a file *)
(* write and a deletion are several.                                       *)

Ready(p) == holding[p] # 0 /\ underway[p] = Quiet

Begins(p) == Ready(p) /\ made < MaxCalls /\ made' = made + 1

Put(p, l, v) ==
    /\ Begins(p)
    /\ disk' = [disk EXCEPT ![holding[p]].metadata[l] = v]
    /\ mem' = [mem EXCEPT ![holding[p]] = MemPutMetadata(@, l, v)]
    /\ UNCHANGED <<trying, holding, underway, crashes>>

\* post_bundle_bytes_put begins: the directory is there, the temporary file is cut to nothing.
BytesPutBegin(p, l, v) ==
    /\ Begins(p)
    /\ underway' = [underway EXCEPT ![p] = [op |-> "write", l |-> l, v |-> v]]
    /\ disk' = [disk EXCEPT ![holding[p]].temp[l] = Torn]
    /\ UNCHANGED <<trying, holding, mem, crashes>>

BytesPutWritten(p) ==
    /\ underway[p].op = "write"
    /\ underway' = [underway EXCEPT ![p].op = "rename"]
    /\ disk' = [disk EXCEPT ![holding[p]].temp[underway[p].l] = underway[p].v]
    /\ UNCHANGED <<trying, holding, mem, made, crashes>>

BytesPutRename(p) ==
    LET u == underway[p] IN
    /\ u.op = "rename"
    /\ disk' = [disk EXCEPT ![holding[p]].file[u.l] = disk[holding[p]].temp[u.l],
                            ![holding[p]].temp[u.l] = Absent]
    /\ mem' = [mem EXCEPT ![holding[p]] = MemPutBytes(@, u.l, u.v)]
    /\ underway' = [underway EXCEPT ![p] = Quiet]
    /\ UNCHANGED <<trying, holding, made, crashes>>

\* post_bundles_last_accessed_flush: one batch.
LastAccessedFlush(p, times) ==
    /\ Begins(p)
    /\ disk' = [disk EXCEPT ![holding[p]].accessed =
                   [l \in BundleIds |-> IF l \in DOMAIN times THEN times[l] ELSE @[l]]]
    /\ mem' = [mem EXCEPT ![holding[p]] = MemFlush(@, times)]
    /\ UNCHANGED <<trying, holding, underway, crashes>>

\* post_feedback_put_if_more_powerful on the rows of one location.
DiskPutFeedback(rows, k, v) ==
    IF k \in DOMAIN rows /\ rows[k].pow >= v.pow THEN rows
    ELSE [x \in DOMAIN rows \cup {k} |-> IF x = k THEN v ELSE rows[x]]

PutFeedback(p, l, k, v) ==
    /\ Begins(p)
    /\ disk' = [disk EXCEPT ![holding[p]].feedback[l] = DiskPutFeedback(@, k, v)]
    /\ mem' = [mem EXCEPT ![holding[p]] = MemPutFeedback(@, l, k, v)]
    /\ UNCHANGED <<trying, holding, underway, crashes>>

\* MUTANT: the rows of the feedback are not collected.
FeedbackKeysToDeleteNone(rows, ls) == {}

\* The feedback rows of the locations, collected before the batch is opened.
FeedbackKeysToDelete(rows, ls) == {x \in ls \X FeedbackKeys : x[2] \in DOMAIN rows[x[1]]}

\* post_bundles_delete begins.
DeleteBegin(p, ls) ==
    /\ Begins(p)
    /\ underway' = [underway EXCEPT ![p] =
           [op |-> "delete", ls |-> ls, left |-> ls, keys |-> FeedbackKeysToDelete(disk[holding[p]].feedback, ls)]]
    /\ UNCHANGED <<trying, holding, disk, mem, crashes>>

\* fs::remove_file of the next location, its errors ignored; the temporary file stays.
DeleteFile(p) ==
    /\ underway[p].op = "delete"
    /\ \E l \in underway[p].left :
          /\ disk' = [disk EXCEPT ![holding[p]].file[l] = Absent]
          /\ underway' = [underway EXCEPT ![p].left = @ \ {l}]
    /\ UNCHANGED <<trying, holding, mem, made, crashes>>

\* batch.commit(): the rows of all locations go together.
DeleteCommit(p) ==
    LET u == underway[p]
        e == holding[p]
    IN
    /\ u.op = "delete"
    /\ u.left = {}
    /\ disk' = [disk EXCEPT
          ![e].metadata = [l \in BundleIds |-> IF l \in u.ls THEN Absent ELSE @[l]],
          ![e].accessed = [l \in BundleIds |-> IF l \in u.ls THEN Absent ELSE @[l]],
          ![e].feedback = [l \in BundleIds |->
               [k \in {x \in DOMAIN @[l] : <<l, x>> \notin u.keys} |-> @[l][k]]]]
    /\ mem' = [mem EXCEPT ![e] = MemDelete(@, u.ls)]
    /\ underway' = [underway EXCEPT ![p] = Quiet]
    /\ UNCHANGED <<trying, holding, made, crashes>>

\* The process dies: its lock is released, a call it had begun is left where it is.
Crash(p) ==
    /\ holding[p] # 0
    /\ crashes[holding[p]] < MaxCrashes
    /\ crashes' = [crashes EXCEPT ![holding[p]] = @ + 1]
    /\ holding' = [holding EXCEPT ![p] = 0]
    /\ underway' = [underway EXCEPT ![p] = Quiet]
    /\ trying' = [trying EXCEPT ![p] = 1]
    /\ UNCHANGED <<disk, mem, made>>

EnvironmentStoresNext ==
    \/ \E p \in Processes :
          \/ OpenNextAvailable(p) \/ NoneAvailable(p) \/ Crash(p)
          \/ BytesPutWritten(p) \/ BytesPutRename(p) \/ DeleteFile(p) \/ DeleteCommit(p)
          \/ \E l \in BundleIds :
                \/ \E v \in BundleTexts : Put(p, l, v) \/ BytesPutBegin(p, l, v)
                \/ \E k \in FeedbackKeys, v \in FeedbackValues : PutFeedback(p, l, k, v)
          \/ \E ls \in SUBSET BundleIds \ {{}} :
                \/ DeleteBegin(p, ls)
                \/ \E t \in BundleTexts : LastAccessedFlush(p, [l \in ls |-> t])

EnvironmentStoresSpec == EnvironmentStoresInit /\ [][EnvironmentStoresNext]_storeVars

---------------------------------------------------------------------------
(* Iteration: a cyclic walk over the rows from a start id.                 *)

Before(a, b) == a[1] < b[1] \/ (a[1] = b[1] /\ a[2] < b[2])

\* The rows in key order: so many come before each.
InOrder(rows) ==
    [i \in 1 .. Cardinality(rows) |-> CHOOSE l \in rows : Cardinality({k \in rows : Before(k, l)}) = i - 1]

\* range(start..).chain(range(..start)) over the rows in key order.
Cyclic(rows, start) ==
    LET upTo == {l \in rows : Before(l, start)}
    IN  InOrder(rows \ upTo) \o InOrder(upTo)

\* The memory store starts from the id itself.
MemIter(m, start) == Cyclic({l \in BundleIds : m.accessed[l] # Absent}, start)

\* The code of a hexadecimal digit.
HexDigit(n) == IF n < 10 THEN 48 + n ELSE 87 + n

\* location_id.to_string(): the Display text of the id, its first byte in hexadecimal digits.
IdToString(l) == <<HexDigit(l[1] \div 16), HexDigit(l[1] % 16)>>

\* MUTANT: the rows before the start are not chained.
DiskIterHalf(d, start) ==
    InOrder({l \in BundleIds : d.accessed[l] # Absent /\ ~Before(l, IdToString(start))})

\* The disk store starts from the text of the id, compared with the bytes of the rows.
DiskIter(d, start) == Cyclic({l \in BundleIds : d.accessed[l] # Absent}, IdToString(start))

---------------------------------------------------------------------------
\* Two processes never write the same environment: the lock of an environment has
\* one holder, however openings, deaths and restarts interleave.
OneHolder ==
    \A p, q \in Processes : holding[p] # 0 /\ holding[p] = holding[q] => p = q

\* post_bundles_delete is under way on the location.
BeingDeleted(e, l) ==
    \E p \in Processes : holding[p] = e /\ underway[p].op = "delete" /\ l \in underway[p].ls

\* What the disk store answers is what the memory store of the tests answers after the
\* same calls: the rows always, the feedback as a set; a bundle file is the whole content
\* that was put last ("a mid-write crash never leaves a torn bundle") and can be missing
\* only while its deletion runs or after a crash in one.
StoresAgree ==
    \A e \in Environments : \A l \in BundleIds :
        /\ disk[e].metadata[l] = mem[e].metadata[l]
        /\ disk[e].accessed[l] = mem[e].accessed[l]
        /\ {[key |-> k, value |-> disk[e].feedback[l][k]] : k \in DOMAIN disk[e].feedback[l]}
              = ToSet(mem[e].feedbacks[l])
        /\ disk[e].file[l] # mem[e].bytes[l] =>
              disk[e].file[l] = Absent /\ (BeingDeleted(e, l) \/ crashes[e] > 0)

\* The walk of a decimation meets every row once in either store, wherever it starts,
\* though the disk store starts from the text of the id and not from the id.
WalksEveryRow ==
    \A e \in Environments : \A start \in BundleIds :
        LET rows == {l \in BundleIds : mem[e].accessed[l] # Absent}
        IN  \A walk \in {MemIter(mem[e], start), DiskIter(disk[e], start)} :
                ToSet(walk) = rows /\ Len(walk) = Cardinality(rows)

\* The disk store behaves as the memory store of the tests does, through openings, deaths
\* and crashes between the steps of a call.
StoresConsistent == OneHolder /\ StoresAgree /\ WalksEveryRow
============================================================================
