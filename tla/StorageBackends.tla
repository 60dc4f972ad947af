--------------------------- MODULE StorageBackends ---------------------------
(***************************************************************************)
(* The two lasting backends of ClientStorage: one SQLite table for a bucket,  *)
(* and in the browser a pair of IndexedDB object stores, the records and the  *)
(* metadata that trimming is done by.  Each is shown to do to the bucket it   *)
(* stands for what the operators of module ClientStorage say.  Every           *)
(* operation is one statement under a lock, or one transaction, which commits  *)
(* as a whole or not at all when the process dies in it.                      *)
(***************************************************************************)
EXTENDS Integers, FiniteSets, Functions

CONSTANTS
  StoreKeys,      \* keys, numbered as IndexedDB orders them
  StoreValues,    \* values: JSON that was put, numbers
  Buckets,        \* BUCKETS
  BucketTrims,    \* BUCKET_TRIMS, by bucket: 0 where nothing is trimmed
  MaxTouch        \* bound: times

ASSUME StorageAssumption ==
  /\ StoreKeys \subseteq Nat
  /\ \A b \in Buckets : BucketTrims[b] \in Nat
  /\ MaxTouch \in Nat

VARIABLES
  table,       \* sqlite: of each bucket, the rows
  idbRecords,     \* browser: of each bucket, the records
  idbMetadata,    \* browser: of each bucket, the metadata
  asked        \* the operation that was last asked for, and what it returned

storageVars == <<table, idbRecords, idbMetadata, asked>>

CS == INSTANCE ClientStorage WITH None <- 0

Missing == 0

Size(f) == Cardinality(DOMAIN f)

-----------------------------------------------------------------------------
(* SQLite.                                                                  *)
SqlGet(rows, k) == IF k \in DOMAIN rows THEN rows[k].value ELSE Missing

SqlTouched(rows, k, time) == IF k \in DOMAIN rows /\ time > 0 THEN [rows EXCEPT ![k].last_accessed = time] ELSE rows

SqlPut(rows, k, v, time) == CS!With(rows, k, [value |-> v, last_accessed |-> time])

SqlRemove(rows, k) == Restrict(rows, DOMAIN rows \ {k})

\* ORDER BY last_accessed: rows of one time come in the order of their rows.
SqlTrims(rows, max) ==
  IF Size(rows) > max
  THEN {Restrict(rows, DOMAIN rows \ {order[i] : i \in 1 .. Size(rows) - max}) :
          order \in {s \in [1 .. Size(rows) -> DOMAIN rows] :
                       \A i, j \in DOMAIN s : i < j => s[i] # s[j] /\ rows[s[i]].last_accessed <= rows[s[j]].last_accessed}}
  ELSE {rows}

-----------------------------------------------------------------------------
(* IndexedDB.                                                               *)
IdbGet(recs, k) == IF k \in DOMAIN recs THEN recs[k] ELSE Missing

IdbTouched(recs, meta, k, time) == IF time > 0 /\ k \in DOMAIN recs THEN CS!With(meta, k, time) ELSE meta

IdbPutRecord(recs, k, v) == CS!With(recs, k, v)

IdbPutMetadata(meta, k, time) == CS!With(meta, k, time)

\* Mutant: the metadata of a removed record stays.
IdbRemoveMetadataNot(meta, k) == meta

IdbRemoveMetadata(meta, k) == Restrict(meta, DOMAIN meta \ {k})

IdbRemoveRecord(recs, k) == Restrict(recs, DOMAIN recs \ {k})

\* The cursor goes along the index: by time, and by key within a time.
CursorBefore(meta, k) == {l \in DOMAIN meta : meta[l] < meta[k] \/ (meta[l] = meta[k] /\ l < k)}

\* What the cursor meets until the rest is max.
IdbVictims(meta, max) == {k \in DOMAIN meta : max + Cardinality(CursorBefore(meta, k)) < Size(meta)}

-----------------------------------------------------------------------------
NoAsked == [op |-> "none"]

StorageInit ==
  /\ table = [b \in Buckets |-> CS!NoEntries]
  /\ idbRecords = [b \in Buckets |-> CS!NoEntries]
  /\ idbMetadata = [b \in Buckets |-> CS!NoEntries]
  /\ asked = NoAsked

StoragePut(b, k, v, time) ==
  /\ table' = [table EXCEPT ![b] = SqlPut(@, k, v, time)]
  /\ idbMetadata' = [idbMetadata EXCEPT ![b] = IdbPutMetadata(@, k, time)]
  /\ idbRecords' = [idbRecords EXCEPT ![b] = IdbPutRecord(@, k, v)]
  /\ asked' = [op |-> "put", bucket |-> b, key |-> k, value |-> v, time |-> time]

StorageGet(b, k, time) ==
  /\ table' = [table EXCEPT ![b] = SqlTouched(@, k, time)]
  /\ idbMetadata' = [idbMetadata EXCEPT ![b] = IdbTouched(idbRecords[b], @, k, time)]
  /\ asked' = [op |-> "get", bucket |-> b, key |-> k, time |-> time,
               sql |-> SqlGet(table[b], k), idb |-> IdbGet(idbRecords[b], k)]
  /\ UNCHANGED idbRecords

StorageRemove(b, k) ==
  /\ table' = [table EXCEPT ![b] = SqlRemove(@, k)]
  /\ idbMetadata' = [idbMetadata EXCEPT ![b] = IdbRemoveMetadata(@, k)]
  /\ idbRecords' = [idbRecords EXCEPT ![b] = IdbRemoveRecord(@, k)]
  /\ asked' = [op |-> "remove", bucket |-> b, key |-> k]

\* count and keys are taken of the records.
StorageKeys(b) ==
  /\ asked' = [op |-> "keys", bucket |-> b, sql |-> DOMAIN table[b], idb |-> DOMAIN idbRecords[b]]
  /\ UNCHANGED <<table, idbRecords, idbMetadata>>

StorageReset ==
  /\ table' = [b \in Buckets |-> CS!NoEntries]
  /\ idbRecords' = [b \in Buckets |-> CS!NoEntries]
  /\ idbMetadata' = [b \in Buckets |-> CS!NoEntries]
  /\ asked' = [op |-> "reset"]

Trimmed(b) == BucketTrims[b] > 0

\* HashiverseClient::new trims the buckets that have a limit.
StorageTrim ==
  /\ LET After(b) == IF Trimmed(b) THEN SqlTrims(table[b], BucketTrims[b]) ELSE {table[b]}
     IN \E t \in [Buckets -> UNION {After(b) : b \in Buckets}] : table' = t /\ \A b \in Buckets : t[b] \in After(b)
  /\ LET victims(b) == IF Trimmed(b) THEN IdbVictims(idbMetadata[b], BucketTrims[b]) ELSE {}
     IN /\ idbMetadata' = [b \in Buckets |-> Restrict(idbMetadata[b], DOMAIN idbMetadata[b] \ victims(b))]
        /\ idbRecords' = [b \in Buckets |-> Restrict(idbRecords[b], DOMAIN idbRecords[b] \ victims(b))]
  /\ asked' = [op |-> "trim"]

StorageNext ==
  \/ \E b \in Buckets, k \in StoreKeys, v \in StoreValues, time \in 0 .. MaxTouch : StoragePut(b, k, v, time)
  \/ \E b \in Buckets, k \in StoreKeys, time \in 0 .. MaxTouch : StorageGet(b, k, time)
  \/ \E b \in Buckets, k \in StoreKeys : StorageRemove(b, k)
  \/ \E b \in Buckets : StorageKeys(b)
  \/ StorageReset
  \/ StorageTrim

StorageSpec == StorageInit /\ [][StorageNext]_storageVars

-----------------------------------------------------------------------------
\* The bucket that the two object stores stand for.
IdbBucket(recs, meta) == [k \in DOMAIN recs |-> [value |-> recs[k], last_accessed |-> meta[k]]]

IdbBuckets == [b \in Buckets |-> IdbBucket(idbRecords[b], idbMetadata[b])]

\* The operation a takes the buckets was to the buckets is, and a read gives got.
Did(a, was, is, got) ==
  CASE a.op = "put" -> is = [was EXCEPT ![a.bucket] = CS!Put(@, a.key, a.value, a.time)]
    [] a.op = "get" -> is = [was EXCEPT ![a.bucket] = CS!Touch(@, a.key, a.time)] /\ got = CS!Get(was[a.bucket], a.key)
    [] a.op = "remove" -> is = [was EXCEPT ![a.bucket] = CS!Remove(@, a.key)]
    [] a.op = "keys" -> is = was /\ got = DOMAIN was[a.bucket]
    [] a.op = "reset" -> is = [b \in Buckets |-> CS!NoEntries]
    [] a.op = "trim" -> \A b \in Buckets : IF BucketTrims[b] = 0 THEN is[b] = was[b] ELSE is[b] \in CS!Trim(was[b], BucketTrims[b])
    [] OTHER -> is = was

BackendsDid ==
  /\ Did(asked', table, table', asked'.sql)
  /\ \A b \in Buckets : DOMAIN idbRecords'[b] = DOMAIN idbMetadata'[b]
  /\ Did(asked', IdbBuckets, IdbBuckets', asked'.idb)

(* Every step of either backend is the operation of ClientStorage it is asked for,   *)
(* on the bucket it stands for: a value read is the one last put, an eviction takes    *)
(* entries none of which was accessed later than one it leaves, and the browser's two   *)
(* object stores never come apart.                                               *)
ImplementsClientStorage == [][BackendsDid]_storageVars
=============================================================================
