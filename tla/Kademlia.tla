------------------------------- MODULE Kademlia -------------------------------
(***************************************************************************)
(* The routing table of one server: the handlers that put peers into it,   *)
(* the task that bootstraps, announces, drops peers that do not answer and *)
(* saves the table, and the server's own record in its own table.          *)
(*                                                                         *)
(* The task awaits the answer to every request it sends, and handlers run  *)
(* meanwhile; it goes on with the time it read at the start of its round.  *)
(* Here handlers may run wherever the task does not hold the table's lock. *)
(* A record that fails verification or has done too little work changes    *)
(* nothing and is left out.                                                *)
(*                                                                         *)
(* Of a record the score of its proofs of work is kept, which decays with  *)
(* time at two rates, so that the order of two records may turn round, and *)
(* a stamp that tells apart the records a server signed of itself.         *)
(***************************************************************************)
EXTENDS Integers, Sequences, FiniteSets

CONSTANTS
    Id,             \* peer and location ids
    Self,           \* server_id.id
    Agreement,      \* Agreement[i][j]: leading_agreement_bits_xor
    Bits,           \* MAX_BUCKETS, the number of bits of an id
    MaxPeers,       \* max_peers_per_bucket
    Pow,            \* proofs of work a record may carry
    InitialPow,     \* pow_initial, of the server itself
    Score,          \* Score[p][t]: Peer::score at time t
    OtherRecord,    \* records of other servers that are around
    MinimumPeers,   \* MINIMUM_PEERS_TO_STOP_BOOTSTRAPPING
    NearestPeers,   \* numbers of peers that get_peers_for_key is asked for
    AnnouncePeers,  \* ... by the announcing task (8)
    DumpInterval,   \* MILLIS_TO_WAIT_BETWEEN_PEER_DUMPS
    MaxAddresses,   \* bound of the model: bootstrap addresses
    MaxAnswer,      \* bound of the model: peers told in one answer
    MaxTime,        \* bound of the model: the clock stops here
    MaxStamp        \* bound of the model: restarts and better proofs of work

Time == 0 .. MaxTime
Bucket == 0 .. (Bits - 1)
Record == [id : Id, pow : Pow, stamp : 0 .. MaxStamp]

\* Two ids that first differ from a third at the same bit agree in that bit.
ASSUME AgreementAssumption ==
    /\ Bits \in Nat \ {0}
    /\ Agreement \in [Id -> [Id -> 0 .. Bits]]
    /\ \A i, j \in Id : /\ Agreement[i][j] = Agreement[j][i]
                        /\ Agreement[i][j] = Bits <=> i = j
    /\ \A i, j, k \in Id :
          /\ Agreement[i][j] < Agreement[i][k] => Agreement[j][k] = Agreement[i][j]
          /\ Agreement[i][j] = Agreement[i][k] /\ Agreement[i][j] < Bits
                => Agreement[j][k] > Agreement[i][j]

ASSUME KademliaAssumption ==
    /\ Self \in Id
    /\ MaxPeers \in Nat \ {0, 1}
    /\ MaxTime \in Nat /\ MaxStamp \in Nat
    /\ InitialPow \in Pow
    /\ Score \in [Pow -> [Time -> Nat]]
    /\ OtherRecord \subseteq {r \in Record : r.id # Self /\ r.stamp = 0}
    /\ NearestPeers \subseteq Nat \ {0} /\ AnnouncePeers \in NearestPeers
    /\ {MinimumPeers, DumpInterval, MaxAddresses, MaxAnswer} \subseteq Nat

VARIABLES
    now,
    peerSelf,           \* peer_self
    signed,             \* history: every record the server signed of itself
    buckets,            \* peer_buckets, each as the set of its records
    peersLastChanged,   \* peers_last_changed
    saved,              \* CONFIG_KADEMLIA_PEER_BUCKETS
    lastDump,           \* last_peers_dump_to_storage
    task,               \* where maintain_kademlia is
    dumpedAt,           \* history: when the table was last dumped or loaded
    unsaved             \* history: the table changed at a later time than that,
                        \* not counting RoundOfTheStart

table == <<buckets, peersLastChanged, unsaved>>
disk == <<saved, lastDump, dumpedAt>>
self == <<peerSelf, signed>>
vars == <<now, self, table, disk, task>>

Task ==
    [stage : {"sleep"}, since : Time \cup {-1}]
    \cup [stage : {"bootstrap"}, at : Time, left : 0 .. MaxAddresses, adds : Seq(Record)]
    \cup [stage : {"announce"}, at : Time, self : Record, queue : Seq(Record),
          adds : Seq(Record)]

TypeOK ==
    /\ now \in Time
    /\ peerSelf \in Record /\ peerSelf.id = Self
    /\ signed \subseteq {r \in Record : r.id = Self}
    /\ buckets \in [Bucket -> SUBSET Record]
    /\ peersLastChanged \in Time
    /\ saved \in [Bucket -> SUBSET Record]
    /\ lastDump \in Time /\ dumpedAt \in Time
    /\ task \in Task
    /\ unsaved \in BOOLEAN

-----------------------------------------------------------------------------
(***************************************************************************)
(* The table.                                                              *)
(***************************************************************************)

\* get_bucket_for_id.
BucketOf(id) ==
    IF Agreement[Self][id] < Bits - 1 THEN Agreement[Self][id] ELSE Bits - 1

Peers == UNION {buckets[b] : b \in Bucket}

Worse(r, q, t) == Score[r.pow][t] < Score[q.pow][t]

Lowest(records, t) == {r \in records : \A q \in records : ~Worse(q, r, t)}

\* Mutant: a record of the peer that is there already is not looked for.
AddedUnchecked(bucket, r, t) ==
    IF Cardinality(bucket) < MaxPeers THEN {bucket \cup {r}}
    ELSE {IF Worse(low, r, t) THEN (bucket \ {low}) \cup {r} ELSE bucket :
            low \in Lowest(bucket, t)}

\* Mutant: the newer record replaces the one that is there.
AddedNewer(bucket, r, t) ==
    LET same == {q \in bucket : q.id = r.id}
    IN  IF same # {} THEN {(bucket \ same) \cup {r}}
        ELSE AddedUnchecked(bucket, r, t)

\* add_peer: what may become of the bucket; the first of several lowest scores
\* is replaced, and the order of a bucket is not kept here.
Added(bucket, r, t) ==
    LET same == {q \in bucket : q.id = r.id}
    IN  IF same # {}
        THEN {IF \E q \in same : Worse(q, r, t) THEN (bucket \ same) \cup {r} ELSE bucket}
        ELSE IF Cardinality(bucket) < MaxPeers THEN {bucket \cup {r}}
        ELSE {IF Worse(low, r, t) THEN (bucket \ {low}) \cup {r} ELSE bucket :
                low \in Lowest(bucket, t)}

\* The task's first round may begin in the very instant in which the server
\* started; what it and the handlers change until its end may go unnoticed.
RoundOfTheStart == task.stage # "sleep" /\ task.at = dumpedAt

ChangeBucket(b, outcomes, t) ==
    /\ \E bucket \in outcomes : buckets' = [buckets EXCEPT ![b] = bucket]
    /\ unsaved' = (unsaved \/ (/\ buckets' # buckets
                                /\ t > dumpedAt
                                /\ ~RoundOfTheStart))

AddPeer(r, t) ==
    LET b == BucketOf(r.id)
    IN  /\ ChangeBucket(b, Added(buckets[b], r, t), t)
        /\ peersLastChanged' = t

RemoveFromBucket(id, t) ==
    LET b == BucketOf(id)
    IN  ChangeBucket(b, {{q \in buckets[b] : q.id # id}}, t)

\* Mutant: that a peer was removed is not noted.
RemovePeerUnnoted(id, t) == RemoveFromBucket(id, t) /\ UNCHANGED peersLastChanged

RemovePeer(id, t) == RemoveFromBucket(id, t) /\ peersLastChanged' = t

\* Mutant: one peer in the bucket of the key is enough for the fast path.
CandidatesAny(id, max) ==
    IF buckets[BucketOf(id)] # {} THEN buckets[BucketOf(id)] ELSE Peers

\* get_peers_for_key: the fast path looks at the bucket of the key alone.
Candidates(id, max) ==
    IF Cardinality(buckets[BucketOf(id)]) >= max THEN buckets[BucketOf(id)] ELSE Peers

Nearer(id, records, r) == {q \in records : Agreement[id][q.id] > Agreement[id][r.id]}

\* All that are at least as near as the max-th of the candidates.
GetPeersForKey(id, max) ==
    LET candidates == Candidates(id, max)
    IN  {r \in candidates : Cardinality(Nearer(id, candidates, r)) < max}

-----------------------------------------------------------------------------
(***************************************************************************)
(* Start and restart.                                                      *)
(***************************************************************************)

\* The server's fresh record is added first and those of the saved table after
\* it; only the saved record of the server itself can meet another one.
Loaded(peer_self, t) ==
    [b \in Bucket |->
        LET own == {r \in saved[b] : r.id = Self}
        IN  IF b # BucketOf(Self) THEN saved[b]
            ELSE (saved[b] \ own)
                 \cup (IF \E r \in own : Worse(peer_self, r, t) THEN own ELSE {peer_self})]

Init ==
    LET peer_self == [id |-> Self, pow |-> InitialPow, stamp |-> 0]
    IN  /\ now = 0
        /\ peerSelf = peer_self
        /\ signed = {peer_self}
        /\ buckets = [b \in Bucket |-> IF b = BucketOf(Self) THEN {peer_self} ELSE {}]
        /\ peersLastChanged = 0
        /\ saved = [b \in Bucket |-> {}]
        /\ lastDump = 0 /\ dumpedAt = 0
        /\ task = [stage |-> "sleep", since |-> -1]
        /\ unsaved = FALSE

\* A restart signs a new record of itself, with the first proof of work.
Restart ==
    LET peer_self == [id |-> Self, pow |-> InitialPow, stamp |-> peerSelf.stamp + 1]
    IN  /\ peerSelf.stamp < MaxStamp
        /\ peerSelf' = peer_self
        /\ signed' = signed \cup {peer_self}
        /\ buckets' = Loaded(peer_self, now)
        /\ peersLastChanged' = now
        /\ lastDump' = now /\ dumpedAt' = now
        /\ task' = [stage |-> "sleep", since |-> -1]
        /\ unsaved' = FALSE
        /\ UNCHANGED <<now, saved>>

-----------------------------------------------------------------------------
(***************************************************************************)
(* Handlers.                                                               *)
(***************************************************************************)

\* The records somebody may send.
Around == OtherRecord \cup signed

\* AnnounceV1 and AnnounceV2.
Announce(r) ==
    /\ AddPeer(r, now)
    /\ UNCHANGED <<now, self, disk, task>>

\* A request came with a better proof of work for this server; handlers run one at
\* a time, so nothing comes between the comparison and the update.
UpgradeSelf(pow) ==
    LET peer_self == [id |-> Self, pow |-> pow, stamp |-> peerSelf.stamp + 1]
    IN  /\ peerSelf.stamp < MaxStamp
        /\ Worse(peerSelf, peer_self, now)
        /\ peerSelf' = peer_self
        /\ signed' = signed \cup {peer_self}
        /\ UNCHANGED <<now, table, disk, task>>

-----------------------------------------------------------------------------
(***************************************************************************)
(* maintain_kademlia.                                                      *)
(***************************************************************************)

\* What other servers tell about peers.
Told == UNION {[1 .. n -> Around] : n \in 0 .. MaxAnswer}

\* A round begins, at the start of the task or after its sleep; it bootstraps when
\* that is due and there are too few peers.
BeginRound ==
    /\ task.stage = "sleep"
    /\ now > task.since
    /\ \E left \in 0 .. MaxAddresses :
          /\ left > 0 => Cardinality(Peers) < MinimumPeers
          /\ task' = [stage |-> "bootstrap", at |-> now, left |-> left, adds |-> << >>]
    /\ UNCHANGED <<now, self, table, disk>>

Waiting(stage) == task.stage = stage /\ task.adds = << >>

\* Mutant: every other address is tried.
NextAddressSkips(left) == left - 2

NextAddress(left) == left - 1

\* Whether to go on to the next address is decided when the last was dealt with.
Left(left, peers) == IF Cardinality(peers) >= MinimumPeers THEN 0 ELSE left

\* An address answers the BootstrapV1, or fails to.
Bootstrap(peers_random) ==
    /\ Waiting("bootstrap")
    /\ task.left > 0
    /\ task' = [task EXCEPT
                   !.left = IF peers_random = << >> THEN Left(NextAddress(@), Peers)
                            ELSE NextAddress(@),
                   !.adds = peers_random]
    /\ UNCHANGED <<now, self, table, disk>>

\* The next of the peers that were told is added, at the time the round began.
AddTold ==
    /\ task.stage # "sleep"
    /\ task.adds # << >>
    /\ AddPeer(Head(task.adds), task.at)
    /\ task' = IF task.stage = "bootstrap" /\ Len(task.adds) = 1
               THEN [task EXCEPT !.adds = << >>, !.left = Left(@, Peers')]
               ELSE [task EXCEPT !.adds = Tail(@)]
    /\ UNCHANGED <<now, self, disk>>

\* Whom to announce to, when that is due: the peer with the lowest score and one
\* of the nearest.
PickAnnouncePeers ==
    /\ Waiting("bootstrap")
    /\ task.left = 0
    /\ \E queue \in {<< >>} \cup
            {<<low, near>> : low \in Lowest(Peers, peersLastChanged),
                             near \in GetPeersForKey(Self, AnnouncePeers)} :
          task' = [stage |-> "announce", at |-> task.at, self |-> peerSelf,
                   queue |-> queue, adds |-> << >>]
    /\ UNCHANGED <<now, self, table, disk>>

Announcing == Waiting("announce") /\ task.queue # << >>

\* The peer to announce to is the server itself: it puts its own record in.
AnnounceToSelf ==
    /\ Announcing
    /\ Head(task.queue) = task.self
    /\ AddPeer(task.self, task.at)
    /\ task' = [task EXCEPT !.queue = Tail(@)]
    /\ UNCHANGED <<now, self, disk>>

\* There is no proof of ownership to send yet.
AnnounceSkipped ==
    /\ Announcing
    /\ Head(task.queue) # task.self
    /\ task' = [task EXCEPT !.queue = Tail(@)]
    /\ UNCHANGED <<now, self, table, disk>>

\* The peer answers with its record and the peers nearest to this server.
AnnounceAnswered(r, peers_nearest) ==
    /\ Announcing
    /\ Head(task.queue) # task.self
    /\ r.id = Head(task.queue).id
    /\ task' = [task EXCEPT !.queue = Tail(@), !.adds = <<r>> \o peers_nearest]
    /\ UNCHANGED <<now, self, table, disk>>

\* Neither AnnounceV2 nor AnnounceV1 succeeds.
AnnounceFails ==
    /\ Announcing
    /\ Head(task.queue) # task.self
    /\ RemovePeer(Head(task.queue).id, task.at)
    /\ task' = [task EXCEPT !.queue = Tail(@)]
    /\ UNCHANGED <<now, self, disk>>

\* The end of the round: the table is saved if it changed and it is time to.  If the
\* write fails, a warning is all that becomes of it.
DumpIsDue == lastDump < peersLastChanged /\ task.at - lastDump > DumpInterval

EndRound ==
    /\ Waiting("announce")
    /\ task.queue = << >>
    /\ IF DumpIsDue
       THEN /\ saved' \in {buckets, saved}
            /\ lastDump' = peersLastChanged
            /\ dumpedAt' = now
            /\ unsaved' = FALSE
       ELSE UNCHANGED <<disk, unsaved>>
    /\ task' = [stage |-> "sleep", since |-> now]
    /\ UNCHANGED <<now, self, buckets, peersLastChanged>>

-----------------------------------------------------------------------------

Tick ==
    /\ now < MaxTime
    /\ now' = now + 1
    /\ UNCHANGED <<self, table, disk, task>>

Next ==
    \/ \E r \in Around : Announce(r)
    \/ \E pow \in Pow : UpgradeSelf(pow)
    \/ BeginRound
    \/ \E peers_random \in Told : Bootstrap(peers_random)
    \/ AddTold
    \/ PickAnnouncePeers
    \/ AnnounceToSelf
    \/ AnnounceSkipped
    \/ \E r \in Around, peers_nearest \in Told : AnnounceAnswered(r, peers_nearest)
    \/ AnnounceFails
    \/ EndRound
    \/ Restart
    \/ Tick

Spec == Init /\ [][Next]_vars

-----------------------------------------------------------------------------
(***************************************************************************)
(* Properties.                                                             *)
(***************************************************************************)

\* However handlers, the task and restarts interleave, the table and its saved copy
\* list every peer at most once, in the bucket of its id, and no bucket overflows.
OneRecordPerPeer ==
    \A b \in Bucket : \A records \in {buckets[b], saved[b]} :
        /\ Cardinality(records) <= MaxPeers
        /\ \A r \in records : BucketOf(r.id) = b
        /\ \A r, q \in records : r.id = q.id => r = q

\* get_peers_for_key finds the nearest peers of every key although its fast path
\* looks at one bucket ("all peers in this bucket are provably closer to the target
\* than peers in any other bucket"): as many as it was asked for, everyone as near
\* as one of them, and nobody once enough are nearer.
NearestReturned ==
    LET peers == Peers
    IN  \A id \in Id, max \in NearestPeers :
            LET got == GetPeersForKey(id, max)
                rest == peers \ got
            IN  /\ Cardinality(got) >= max \/ rest = {}
                /\ \A r \in got :
                      /\ \A q \in rest : Agreement[id][q.id] < Agreement[id][r.id]
                      /\ Cardinality(Nearer(id, peers, r)) < max

\* A record that leaves the table while its bucket does not shrink gives way to a
\* better one, which is of the same peer or finds it the worst of its bucket:
\* add_peer never leaves a worse table.  The time that counts is the one it was
\* called with, which may lie in the past.
BetterReplaces ==
    [][peerSelf' = peerSelf =>
        \A b \in Bucket :
            Cardinality(buckets'[b]) >= Cardinality(buckets[b]) =>
                \A r \in buckets[b] \ buckets'[b] :
                    \E q \in buckets'[b] \ buckets[b] :
                        /\ Worse(r, q, peersLastChanged')
                        /\ \/ q.id = r.id
                           \/ \A p \in buckets[b] : ~Worse(p, r, peersLastChanged')]_vars

\* peers_last_changed goes back in time when the task changes the table after a
\* handler did, yet a change made at a later time than the last dump is never taken
\* for saved, once the task has left the instant in which the server started.
ChangeIsNoticed == unsaved => peersLastChanged > lastDump
=============================================================================
