---------------------------- MODULE ClientStorage ----------------------------
(***************************************************************************)
(* The trait ClientStorage as operators on one bucket: a function from     *)
(* keys to entries with a value and the time of the last access.  A read   *)
(* or a write at time zero leaves no trace in the order of eviction.       *)
(***************************************************************************)
EXTENDS Naturals, FiniteSets, Functions

CONSTANT None

NoEntries == [key \in {} |-> None]

\* The function f, but with v at k.
With(f, k, v) == [x \in DOMAIN f \cup {k} |-> IF x = k THEN v ELSE f[x]]

Get(bucket, key) == IF key \in DOMAIN bucket THEN bucket[key].value ELSE None

Touch(bucket, key, time) ==
    IF key \in DOMAIN bucket /\ time > 0 THEN [bucket EXCEPT ![key].last_accessed = time] ELSE bucket

Put(bucket, key, value, time) == With(bucket, key, [value |-> value, last_accessed |-> time])

Remove(bucket, key) == Restrict(bucket, DOMAIN bucket \ {key})

\* The sets of n keys none of which was accessed later than a key outside.
Coldest(bucket, n) ==
    {K \in SUBSET DOMAIN bucket :
        /\ Cardinality(K) = n
        /\ \A k \in K, l \in DOMAIN bucket \ K : bucket[k].last_accessed <= bucket[l].last_accessed}

\* The sort breaks ties between entries of one time as the hash map happens to iterate.
Trim(bucket, max_count) ==
    IF Cardinality(DOMAIN bucket) > max_count
    THEN {Restrict(bucket, DOMAIN bucket \ K) : K \in Coldest(bucket, Cardinality(DOMAIN bucket) - max_count)}
    ELSE {bucket}
===============================================================================
