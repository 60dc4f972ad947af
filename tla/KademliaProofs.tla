---------------------------- MODULE KademliaProofs ----------------------------
(***************************************************************************)
(* Proofs about Kademlia, for ids of every length, every size of a bucket, *)
(* every course of the scores and all bounds; and about the records of     *)
(* peers and the tokens they sign (Credentials), for all servers, works    *)
(* and numbers of them.                                                    *)
(***************************************************************************)
EXTENDS Kademlia, Credentials, FiniteSetTheorems, SequenceTheorems, TLAPS

-----------------------------------------------------------------------------
(***************************************************************************)
(* Ids and buckets.                                                        *)
(***************************************************************************)

\* Ids agree in at most as many bits as they have.
LEMMA AgreementType ==
    /\ Bits \in Nat \ {0}
    /\ Self \in Id
    /\ \A i, j \in Id : Agreement[i][j] \in 0 .. Bits
BY AgreementAssumption, KademliaAssumption

\* Every id has a bucket.
LEMMA BucketType == \A id \in Id : BucketOf(id) \in Bucket
BY AgreementType DEF BucketOf, Bucket

\* In the last bucket there is room for the server and the one id next to it.
LEMMA LastBucket ==
    ASSUME NEW i \in Id, NEW j \in Id, i # Self, j # Self,
           BucketOf(i) = BucketOf(Self), BucketOf(j) = BucketOf(Self)
    PROVE  i = j
<1>1. Agreement[Self][Self] = Bits /\ Agreement[Self][i] # Bits /\ Agreement[Self][j] # Bits
  BY AgreementType, AgreementAssumption
<1>2. Agreement[Self][i] \in 0 .. Bits /\ Agreement[Self][j] \in 0 .. Bits
  BY AgreementType
<1>3. Agreement[Self][i] = Bits - 1 /\ Agreement[Self][j] = Bits - 1
  BY <1>1, <1>2, AgreementType DEF BucketOf
<1>4. Agreement[i][j] > Bits - 1 /\ Agreement[i][j] \in 0 .. Bits
  BY <1>3, AgreementType, AgreementAssumption
<1>5. Agreement[i][j] = Bits
  BY <1>4, AgreementType
<1> QED
  BY <1>5, AgreementAssumption

\* Whoever is in the bucket of a key is nearer to it than everybody else: what the
\* comment on the fast path of get_peers_for_key calls provable.
LEMMA BucketIsNearest ==
    ASSUME NEW id \in Id, NEW i \in Id, NEW j \in Id,
           BucketOf(i) = BucketOf(id), BucketOf(j) # BucketOf(id)
    PROVE  Agreement[id][j] < Agreement[id][i]
<1> DEFINE a == Agreement[Self][id]
<1>1. /\ a \in 0 .. Bits
      /\ Agreement[Self][i] \in 0 .. Bits /\ Agreement[Self][j] \in 0 .. Bits
      /\ Agreement[id][i] \in 0 .. Bits /\ Agreement[id][j] \in 0 .. Bits
  BY AgreementAssumption, KademliaAssumption
<1>2. CASE a < Bits - 1
  <2>1. Agreement[Self][i] = a /\ Agreement[Self][j] # a
    BY <1>1, <1>2, AgreementAssumption DEF BucketOf
  <2>2. Agreement[id][i] > a
    BY <1>1, <1>2, <2>1, AgreementAssumption, KademliaAssumption
  <2>3. Agreement[id][j] <= a
    BY <1>1, <1>2, <2>1, AgreementAssumption, KademliaAssumption
  <2> QED
    BY <1>1, <2>2, <2>3
<1>3. CASE a >= Bits - 1
  <2>1. Agreement[Self][i] >= Bits - 1 /\ Agreement[Self][j] < Bits - 1
    BY <1>1, <1>3, AgreementAssumption DEF BucketOf
  <2>2. Agreement[j][id] = Agreement[Self][j]
    BY <1>1, <1>3, <2>1, AgreementAssumption, KademliaAssumption
  <2>3. Agreement[id][i] >= Bits - 1
    BY <1>1, <1>3, <2>1, AgreementAssumption, KademliaAssumption
  <2> QED
    BY <1>1, <2>1, <2>2, <2>3, AgreementAssumption
<1> QED
  BY <1>1, <1>2, <1>3, AgreementAssumption

-----------------------------------------------------------------------------
(***************************************************************************)
(* get_peers_for_key.                                                      *)
(***************************************************************************)

\* The candidates at least as near as the max-th.
Got(id, C, max) == {r \in C : Cardinality(Nearer(id, C, r)) < max}

\* Those who are nearer than a candidate are finitely many, and the farther the more.
LEMMA NearerFinite ==
    ASSUME NEW C \in SUBSET Record, IsFiniteSet(C), NEW id \in Id, NEW r \in C
    PROVE  /\ IsFiniteSet(Nearer(id, C, r))
           /\ Cardinality(Nearer(id, C, r)) \in Nat
BY FS_Subset, FS_CardinalityType DEF Nearer

LEMMA NearerMonotone ==
    ASSUME NEW C \in SUBSET Record, IsFiniteSet(C), NEW id \in Id, NEW r \in C, NEW q \in C,
           Agreement[id][q.id] >= Agreement[id][r.id]
    PROVE  /\ Nearer(id, C, q) \subseteq Nearer(id, C, r)
           /\ Cardinality(Nearer(id, C, q)) <= Cardinality(Nearer(id, C, r))
<1>1. \A p \in C : Agreement[id][p.id] \in 0 .. Bits
  BY AgreementType DEF Record
<1>2. Nearer(id, C, q) \subseteq Nearer(id, C, r)
  BY <1>1, AgreementType DEF Nearer
<1>3. IsFiniteSet(Nearer(id, C, r))
  BY NearerFinite
<1> QED
  BY <1>2, <1>3, FS_Subset

\* Everyone who is left out is farther away than everyone who is not.
LEMMA GotNearer ==
    ASSUME NEW C \in SUBSET Record, IsFiniteSet(C), NEW id \in Id, NEW max \in Nat,
           NEW r \in Got(id, C, max), NEW q \in C \ Got(id, C, max)
    PROVE  Agreement[id][q.id] < Agreement[id][r.id]
<1>1. Agreement[id][q.id] \in 0 .. Bits /\ Agreement[id][r.id] \in 0 .. Bits
  BY AgreementType DEF Record, Got
<1>2. Cardinality(Nearer(id, C, r)) < max /\ ~(Cardinality(Nearer(id, C, q)) < max)
  BY DEF Got
<1>3. /\ Cardinality(Nearer(id, C, r)) \in Nat
      /\ Cardinality(Nearer(id, C, q)) \in Nat
  BY NearerFinite DEF Got
<1>4. ~(Agreement[id][q.id] >= Agreement[id][r.id])
  <2> SUFFICES ASSUME Agreement[id][q.id] >= Agreement[id][r.id] PROVE FALSE
    OBVIOUS
  <2>1. Cardinality(Nearer(id, C, q)) <= Cardinality(Nearer(id, C, r))
    BY NearerMonotone DEF Got
  <2> QED
    BY <1>2, <1>3, <2>1
<1> QED
  BY <1>1, <1>4, AgreementType

\* If anyone is left out, enough are not: all who are nearer than the nearest of
\* those left out.
LEMMA GotEnough ==
    ASSUME NEW C \in SUBSET Record, IsFiniteSet(C), NEW id \in Id, NEW max \in Nat,
           Got(id, C, max) # C
    PROVE  Cardinality(Got(id, C, max)) >= max
<1> DEFINE Rest == C \ Got(id, C, max)
           T == {Nearer(id, C, r) : r \in Rest}
           Order == StrictSubsetOrdering(C)
<1>1. Got(id, C, max) \subseteq C /\ Rest # {}
  BY DEF Got
<1>2. IsWellFoundedOn(Order, FiniteSubsetsOf(C))
  BY FS_StrictSubsetOrderingWellFounded
<1>3. T \subseteq FiniteSubsetsOf(C) /\ T # {}
  BY <1>1, NearerFinite DEF FiniteSubsetsOf, Nearer
<1>4. PICK x \in T : \A y \in T : ~(<<y, x>> \in Order)
  <2> HIDE DEF T, Order
  <2> QED
    BY <1>2, <1>3, WFMin
<1>5. PICK r \in Rest : x = Nearer(id, C, r)
  BY <1>4
<1>6. \A q \in C : Agreement[id][q.id] \in 0 .. Bits
  BY AgreementType DEF Record
<1>7. x \subseteq Got(id, C, max)
  <2> SUFFICES ASSUME NEW q \in x, q \notin Got(id, C, max) PROVE FALSE
    OBVIOUS
  <2>1. q \in Rest /\ Agreement[id][q.id] > Agreement[id][r.id]
    BY <1>5 DEF Nearer
  <2>2. q \notin Nearer(id, C, q) /\ q \in Nearer(id, C, r)
    BY <1>5, <1>6, <2>1, AgreementType DEF Nearer
  <2>3. Nearer(id, C, q) \subseteq Nearer(id, C, r)
    BY <1>5, <1>6, <2>1, AgreementType DEF Nearer
  <2>4. Nearer(id, C, q) \in T /\ Nearer(id, C, q) \in SUBSET C /\ x \in SUBSET C
    BY <1>5, <2>1 DEF Nearer
  <2>5. <<Nearer(id, C, q), x>> \in Order
    BY <1>5, <2>2, <2>3, <2>4 DEF StrictSubsetOrdering
  <2> QED
    BY <1>4, <2>4, <2>5
<1>8. Cardinality(x) >= max /\ Cardinality(x) \in Nat
  BY <1>5, NearerFinite DEF Got
<1>9. IsFiniteSet(Got(id, C, max))
  BY <1>1, FS_Subset
<1>10. Cardinality(x) <= Cardinality(Got(id, C, max))
  BY <1>7, <1>9, FS_Subset
<1>11. Cardinality(Got(id, C, max)) \in Nat
  BY <1>9, FS_CardinalityType
<1> QED
  BY <1>8, <1>10, <1>11
\* A bucket as add_peer leaves it: no overflow, every peer in its place and once.
Sound(b, held) ==
    /\ held \subseteq Record
    /\ IsFiniteSet(held)
    /\ Cardinality(held) <= MaxPeers
    /\ \A r \in held : BucketOf(r.id) = b
    /\ \A r, q \in held : r.id = q.id => r = q

\* Finitely many peers are known.
LEMMA PeersFinite ==
    ASSUME DOMAIN buckets = Bucket, \A b \in Bucket : Sound(b, buckets[b])
    PROVE  Peers \in SUBSET Record /\ IsFiniteSet(Peers)
<1> DEFINE All == {buckets[b] : b \in Bucket}
           f == [b \in Bucket |-> buckets[b]]
<1>1. IsFiniteSet(Bucket)
  BY AgreementType, FS_Interval DEF Bucket
<1>2. f \in Surjection(Bucket, All)
  BY DEF Surjection
<1>3. IsFiniteSet(All)
  <2> HIDE DEF All, f
  <2> QED
    BY <1>1, <1>2, FS_Surjection
<1>4. \A T \in All : IsFiniteSet(T) /\ T \subseteq Record
  BY DEF Sound
<1>5. IsFiniteSet(UNION All)
  <2> HIDE DEF All
  <2> QED
    BY <1>3, <1>4, FS_UNION
<1> QED
  BY <1>4, <1>5 DEF Peers

\* In a sound table get_peers_for_key finds the nearest peers of every key.
LEMMA SoundTableAnswers ==
    ASSUME DOMAIN buckets = Bucket, \A b \in Bucket : Sound(b, buckets[b])
    PROVE  NearestReturned
<1> SUFFICES ASSUME NEW id \in Id, NEW max \in NearestPeers
             PROVE  LET got == GetPeersForKey(id, max)
                        rest == Peers \ got
                    IN  /\ Cardinality(got) >= max \/ rest = {}
                        /\ \A r \in got :
                              /\ \A q \in rest : Agreement[id][q.id] < Agreement[id][r.id]
                              /\ Cardinality(Nearer(id, Peers, r)) < max
  BY DEF NearestReturned
<1> DEFINE C == Candidates(id, max)
<1>1. Peers \in SUBSET Record /\ IsFiniteSet(Peers) /\ max \in Nat
  BY PeersFinite, KademliaAssumption
<1>2. BucketOf(id) \in Bucket
  BY BucketType
<1>3. C \subseteq Peers
  BY <1>2 DEF Candidates, Peers
<1>4. C \in SUBSET Record /\ IsFiniteSet(C)
  BY <1>1, <1>3, FS_Subset
<1>5. GetPeersForKey(id, max) = Got(id, C, max)
  BY DEF GetPeersForKey, Got
<1>6. \A r \in C, q \in Peers \ C : Agreement[id][q.id] < Agreement[id][r.id]
  <2> SUFFICES ASSUME NEW r \in C, NEW q \in Peers, q \notin C
               PROVE  Agreement[id][q.id] < Agreement[id][r.id]
    OBVIOUS
  <2>1. C = buckets[BucketOf(id)]
    BY DEF Candidates
  <2>2. PICK b \in Bucket : q \in buckets[b]
    BY DEF Peers
  <2>3. BucketOf(q.id) # BucketOf(id) /\ BucketOf(r.id) = BucketOf(id)
    BY <1>2, <2>1, <2>2 DEF Sound
  <2>4. q.id \in Id /\ r.id \in Id
    BY <1>1, <1>4 DEF Record
  <2> QED
    BY <2>3, <2>4, BucketIsNearest
<1>7. Cardinality(Got(id, C, max)) >= max \/ Peers \ Got(id, C, max) = {}
  <2>1. CASE Got(id, C, max) # C
    BY <1>1, <1>4, <2>1, GotEnough
  <2>2. CASE Got(id, C, max) = C
    BY <2>2 DEF Candidates
  <2> QED
    BY <2>1, <2>2
<1>8. ASSUME NEW r \in Got(id, C, max)
      PROVE  /\ \A q \in Peers \ Got(id, C, max) : Agreement[id][q.id] < Agreement[id][r.id]
             /\ Cardinality(Nearer(id, Peers, r)) < max
  <2>1. r \in C
    BY DEF Got
  <2>2. \A q \in C \ Got(id, C, max) : Agreement[id][q.id] < Agreement[id][r.id]
    BY <1>1, <1>4, GotNearer
  <2>3. \A q \in Peers : Agreement[id][q.id] \in 0 .. Bits
    BY <1>1, AgreementType DEF Record
  <2>4. Nearer(id, Peers, r) = Nearer(id, C, r)
    BY <1>3, <1>6, <2>1, <2>3, AgreementType DEF Nearer
  <2> QED
    BY <1>6, <2>1, <2>2, <2>4 DEF Got
<1> QED
  BY <1>5, <1>7, <1>8
-----------------------------------------------------------------------------
(***************************************************************************)
(* add_peer and the restart keep a table sound.                            *)
(***************************************************************************)

\* Replacing one record by another one, whose peer is not among the others.
LEMMA ReplaceSound ==
    ASSUME NEW b \in Bucket, NEW bucket, Sound(b, bucket), NEW old \in bucket,
           NEW r \in Record, BucketOf(r.id) = b,
           \A q \in bucket \ {old} : q.id # r.id
    PROVE  Sound(b, (bucket \ {old}) \cup {r})
<1> DEFINE others == bucket \ {old}
<1>1. /\ IsFiniteSet(others)
      /\ Cardinality(others) = Cardinality(bucket) - 1
      /\ Cardinality(bucket) \in Nat
  BY FS_RemoveElement, FS_CardinalityType DEF Sound
<1>2. /\ IsFiniteSet(others \cup {r})
      /\ Cardinality(others \cup {r}) = Cardinality(others) + 1
  <2>1. r \notin others
    OBVIOUS
  <2> HIDE DEF others
  <2> QED
    BY <1>1, <2>1, FS_AddElement
<1> QED
  BY <1>1, <1>2, KademliaAssumption DEF Sound

\* A record of a peer that is not in a bucket with room.
LEMMA RoomSound ==
    ASSUME NEW b \in Bucket, NEW bucket, Sound(b, bucket),
           NEW r \in Record, BucketOf(r.id) = b, \A q \in bucket : q.id # r.id,
           Cardinality(bucket) < MaxPeers
    PROVE  Sound(b, bucket \cup {r})
<1>1. /\ IsFiniteSet(bucket \cup {r})
      /\ Cardinality(bucket \cup {r}) = Cardinality(bucket) + 1
      /\ Cardinality(bucket) \in Nat
  BY FS_AddElement, FS_CardinalityType DEF Sound
<1> QED
  BY <1>1, KademliaAssumption DEF Sound

\* Whatever add_peer makes of a bucket is sound.
LEMMA AddedSound ==
    ASSUME NEW b \in Bucket, NEW bucket, Sound(b, bucket),
           NEW r \in Record, BucketOf(r.id) = b, NEW t, NEW out \in Added(bucket, r, t)
    PROVE  Sound(b, out)
<1> DEFINE same == {q \in bucket : q.id = r.id}
<1>1. CASE out = bucket
  BY <1>1
<1>2. CASE same # {} /\ out # bucket
  <2>1. PICK q \in bucket : q.id = r.id
    BY <1>2
  <2>2. same = {q}
    BY <2>1 DEF Sound
  <2>3. out = (bucket \ {q}) \cup {r}
    BY <1>2, <2>2 DEF Added
  <2>4. \A p \in bucket \ {q} : p.id # r.id
    BY <2>1 DEF Sound
  <2> QED
    BY <2>1, <2>3, <2>4, ReplaceSound
<1>3. CASE same = {} /\ out # bucket /\ Cardinality(bucket) < MaxPeers
  <2>1. out = bucket \cup {r} /\ \A q \in bucket : q.id # r.id
    BY <1>3 DEF Added
  <2> QED
    BY <1>3, <2>1, RoomSound
<1>4. CASE same = {} /\ out # bucket /\ ~(Cardinality(bucket) < MaxPeers)
  <2>1. PICK low \in bucket : out = (bucket \ {low}) \cup {r}
    BY <1>4 DEF Added, Lowest
  <2>2. \A q \in bucket : q.id # r.id
    BY <1>4
  <2> QED
    BY <2>1, <2>2, ReplaceSound
<1> QED
  BY <1>1, <1>2, <1>3, <1>4

\* Removing peers cannot hurt.
LEMMA SubsetSound ==
    ASSUME NEW b \in Bucket, NEW bucket, Sound(b, bucket), NEW out \in SUBSET bucket
    PROVE  Sound(b, out)
<1>1. /\ IsFiniteSet(out)
      /\ Cardinality(out) <= Cardinality(bucket)
      /\ Cardinality(out) \in Nat /\ Cardinality(bucket) \in Nat
  BY FS_Subset, FS_CardinalityType DEF Sound
<1> QED
  BY <1>1, KademliaAssumption DEF Sound

\* The table a restart begins with: the fresh record of the server displaces the
\* saved one or gives way to it, and always finds room.
LEMMA LoadedSound ==
    ASSUME \A b \in Bucket : Sound(b, saved[b]),
           NEW peer_self \in Record, peer_self.id = Self, NEW t, NEW b \in Bucket
    PROVE  Sound(b, Loaded(peer_self, t)[b])
<1> DEFINE own == {r \in saved[b] : r.id = Self}
<1>1. Loaded(peer_self, t)[b]
        = IF b # BucketOf(Self) THEN saved[b]
          ELSE (saved[b] \ own)
               \cup (IF \E r \in own : Worse(peer_self, r, t) THEN own ELSE {peer_self})
  BY DEF Loaded
<1>2. CASE b # BucketOf(Self)
  BY <1>1, <1>2
<1>3. CASE b = BucketOf(Self) /\ \E r \in own : Worse(peer_self, r, t)
  <2>1. (saved[b] \ own) \cup own = saved[b]
    OBVIOUS
  <2> QED
    BY <1>1, <1>3, <2>1
<1>4. CASE b = BucketOf(Self) /\ own # {} /\ ~\E r \in own : Worse(peer_self, r, t)
  <2>1. PICK r \in saved[b] : r.id = Self
    BY <1>4
  <2>2. own = {r} /\ \A q \in saved[b] \ {r} : q.id # Self
    BY <2>1 DEF Sound
  <2>3. Sound(b, (saved[b] \ {r}) \cup {peer_self})
    BY <1>4, <2>1, <2>2, ReplaceSound
  <2> QED
    BY <1>1, <1>4, <2>2, <2>3
<1>5. CASE b = BucketOf(Self) /\ own = {}
  <2>1. \A q \in saved[b] : q.id # Self
    BY <1>5
  <2>2. \A q, r \in saved[b] : q = r
    <3> SUFFICES ASSUME NEW q \in saved[b], NEW r \in saved[b] PROVE q = r
      OBVIOUS
    <3>1. q.id \in Id /\ r.id \in Id /\ BucketOf(q.id) = b /\ BucketOf(r.id) = b
      BY DEF Sound, Record
    <3>2. q.id = r.id
      BY <1>5, <2>1, <3>1, LastBucket
    <3> QED
      BY <3>2 DEF Sound
  <2>3. Cardinality(saved[b]) < MaxPeers
    <3>1. CASE saved[b] = {}
      BY <3>1, FS_EmptySet, KademliaAssumption
    <3>2. CASE saved[b] # {}
      <4>1. PICK q : saved[b] = {q}
        BY <2>2, <3>2
      <4>2. Cardinality(saved[b]) = 1
        BY <4>1, FS_Singleton
      <4> QED
        BY <4>2, KademliaAssumption
    <3> QED
      BY <3>1, <3>2
  <2>4. Sound(b, saved[b] \cup {peer_self})
    BY <1>5, <2>1, <2>3, RoomSound
  <2> QED
    BY <1>1, <1>5, <2>4
<1> QED
  BY <1>2, <1>3, <1>4, <1>5
-----------------------------------------------------------------------------
(***************************************************************************)
(* The inductive invariant: OneRecordPerPeer with the finiteness of the    *)
(* buckets, without which their sizes say nothing, and the types, by which *)
(* everything that is going to be added is a record.                       *)
(***************************************************************************)

TableSound ==
    /\ \A b \in Bucket : Sound(b, buckets[b])
    /\ \A b \in Bucket : Sound(b, saved[b])

IInv == TypeOK /\ TableSound

TableType ==
    /\ buckets \in [Bucket -> SUBSET Record]
    /\ peersLastChanged \in Time
    /\ unsaved \in BOOLEAN
    /\ \A b \in Bucket : Sound(b, buckets[b])

\* What somebody may send is a record.
LEMMA AroundType == IInv => Around \subseteq Record
BY KademliaAssumption DEF IInv, TypeOK, Around

\* ... and what is told in one answer a sequence of records.
LEMMA ToldType == IInv => Told \subseteq Seq(Record)
<1> SUFFICES ASSUME IInv, NEW n \in 0 .. MaxAnswer, NEW told \in [1 .. n -> Around]
             PROVE  told \in Seq(Record)
  BY DEF Told
<1>1. n \in Nat /\ Around \subseteq Record
  BY AroundType, KademliaAssumption
<1> QED
  BY <1>1

\* One bucket is replaced by a sound one.
LEMMA ChangeBucketSound ==
    ASSUME IInv, NEW b \in Bucket, NEW outcomes, NEW t \in Time,
           \A out \in outcomes : Sound(b, out),
           ChangeBucket(b, outcomes, t), peersLastChanged' = t
    PROVE  TableType'
<1>1. PICK out \in outcomes : buckets' = [buckets EXCEPT ![b] = out]
  BY DEF ChangeBucket
<1>2. buckets \in [Bucket -> SUBSET Record] /\ \A c \in Bucket : Sound(c, buckets[c])
  BY DEF IInv, TypeOK, TableSound
<1>3. Sound(b, out) /\ out \in SUBSET Record
  BY <1>1 DEF Sound
<1>4. buckets' \in [Bucket -> SUBSET Record]
  BY <1>1, <1>2, <1>3
<1>5. \A c \in Bucket : Sound(c, buckets'[c])
  BY <1>1, <1>2, <1>3
<1>6. unsaved' \in BOOLEAN
  BY DEF ChangeBucket, IInv, TypeOK
<1>7. (\A c \in Bucket : Sound(c, buckets[c]))'
  BY <1>5 DEF Sound, BucketOf
<1> QED
  BY <1>4, <1>6, <1>7 DEF TableType

LEMMA AddPeerSound ==
    ASSUME IInv, NEW r \in Record, NEW t \in Time, AddPeer(r, t)
    PROVE  TableType'
<1> DEFINE b == BucketOf(r.id)
<1>1. r.id \in Id
  BY DEF Record
<1>2. b \in Bucket
  BY <1>1, BucketType
<1>3. Sound(b, buckets[b])
  BY <1>2 DEF IInv, TableSound
<1>4. \A out \in Added(buckets[b], r, t) : Sound(b, out)
  BY <1>2, <1>3, AddedSound
<1>5. ChangeBucket(b, Added(buckets[b], r, t), t) /\ peersLastChanged' = t
  BY DEF AddPeer
<1> HIDE DEF b
<1> QED
  BY <1>2, <1>4, <1>5, ChangeBucketSound

LEMMA RemovePeerSound ==
    ASSUME IInv, NEW id \in Id, NEW t \in Time, RemovePeer(id, t)
    PROVE  TableType'
<1> DEFINE b == BucketOf(id)
           out == {q \in buckets[b] : q.id # id}
<1>1. b \in Bucket
  BY BucketType
<1>2. Sound(b, out)
  BY <1>1, SubsetSound DEF IInv, TableSound
<1>3. ChangeBucket(b, {out}, t) /\ peersLastChanged' = t
  BY DEF RemovePeer, RemoveFromBucket
<1> HIDE DEF b, out
<1> QED
  BY <1>1, <1>2, <1>3, ChangeBucketSound
\* What a step that leaves the rest alone has to show.
LEMMA Frame ==
    ASSUME IInv, TableType', now' \in Time, task' \in Task,
           UNCHANGED <<self, disk>>
    PROVE  IInv'
BY DEF IInv, TypeOK, TableSound, TableType, Sound, BucketOf, self, disk

\* A step that does not change the table.
LEMMA TableKept == ASSUME IInv, UNCHANGED table PROVE TableType'
BY DEF IInv, TypeOK, TableSound, TableType, Sound, BucketOf, table

\* The initial state is sound.
LEMMA InitSound == Init => IInv
<1> SUFFICES ASSUME Init PROVE IInv
  OBVIOUS
<1> DEFINE peer_self == [id |-> Self, pow |-> InitialPow, stamp |-> 0]
<1>1. peer_self \in Record /\ BucketOf(Self) \in Bucket /\ 0 \in Time
  BY KademliaAssumption, BucketType DEF Record, Time
<1>2. \A b \in Bucket : Sound(b, {})
  BY FS_EmptySet, KademliaAssumption DEF Sound
<1>3. Sound(BucketOf(Self), {peer_self})
  <2>1. IsFiniteSet({peer_self}) /\ Cardinality({peer_self}) = 1
    BY FS_Singleton
  <2>2. 1 <= MaxPeers
    BY KademliaAssumption
  <2> QED
    BY <1>1, <2>1, <2>2 DEF Sound
<1>4. TypeOK
  <2>1. peerSelf = peer_self /\ signed = {peer_self} /\ peer_self.id = Self
    BY DEF Init
  <2>2. buckets \in [Bucket -> SUBSET Record] /\ saved \in [Bucket -> SUBSET Record]
    BY <1>1 DEF Init
  <2>3. task \in Task
    BY DEF Init, Task
  <2>4. {now, peersLastChanged, lastDump, dumpedAt} \subseteq Time /\ unsaved \in BOOLEAN
    BY <1>1 DEF Init
  <2> HIDE DEF peer_self
  <2> QED
    BY <1>1, <2>1, <2>2, <2>3, <2>4 DEF TypeOK
<1>5. TableSound
  BY <1>2, <1>3 DEF Init, TableSound
<1> QED
  BY <1>4, <1>5 DEF IInv

-----------------------------------------------------------------------------
(***************************************************************************)
(* One lemma per action.                                                   *)
(***************************************************************************)

LEMMA AnnounceSound == ASSUME IInv, NEW r \in Around, Announce(r) PROVE IInv'
<1>1. r \in Record /\ now \in Time /\ task \in Task
  BY AroundType DEF IInv, TypeOK
<1>2. TableType'
  BY <1>1, AddPeerSound DEF Announce
<1> QED
  BY <1>1, <1>2, Frame DEF Announce

LEMMA UpgradeSelfSound == ASSUME IInv, NEW pow \in Pow, UpgradeSelf(pow) PROVE IInv'
<1> DEFINE peer_self == [id |-> Self, pow |-> pow, stamp |-> peerSelf.stamp + 1]
<1>1. peer_self \in Record
  BY KademliaAssumption DEF UpgradeSelf, IInv, TypeOK, Record
<1>2. peerSelf' = peer_self /\ signed' = signed \cup {peer_self}
      /\ UNCHANGED <<now, table, disk, task>>
  BY DEF UpgradeSelf
<1>3. TypeOK'
  BY <1>1, <1>2 DEF IInv, TypeOK, table, disk
<1>4. TableSound'
  BY <1>2 DEF IInv, TableSound, Sound, BucketOf, table, disk
<1> QED
  BY <1>3, <1>4 DEF IInv

LEMMA BeginRoundSound == ASSUME IInv, BeginRound PROVE IInv'
<1>1. now \in Time /\ task' \in Task
  BY DEF BeginRound, IInv, TypeOK, Task
<1> QED
  BY <1>1, TableKept, Frame DEF BeginRound

LEMMA BootstrapSound ==
    ASSUME IInv, NEW peers_random \in Told, Bootstrap(peers_random) PROVE IInv'
<1>1. peers_random \in Seq(Record)
  BY ToldType
<1>2. task \in [stage : {"bootstrap"}, at : Time, left : 0 .. MaxAddresses, adds : Seq(Record)]
  BY DEF Bootstrap, Waiting, IInv, TypeOK, Task
<1>3. /\ NextAddress(task.left) \in 0 .. MaxAddresses
      /\ Left(NextAddress(task.left), Peers) \in 0 .. MaxAddresses
  BY <1>2, KademliaAssumption DEF Bootstrap, NextAddress, Left
<1>4. task' \in Task
  BY <1>1, <1>2, <1>3 DEF Bootstrap, Task
<1>5. now' \in Time
  BY DEF Bootstrap, IInv, TypeOK
<1> QED
  BY <1>4, <1>5, TableKept, Frame DEF Bootstrap

LEMMA AddToldSound == ASSUME IInv, AddTold PROVE IInv'
<1>1. /\ task.adds \in Seq(Record) /\ task.adds # << >>
      /\ task.at \in Time
  BY DEF AddTold, IInv, TypeOK, Task
<1>2. Head(task.adds) \in Record /\ Tail(task.adds) \in Seq(Record)
  BY <1>1
<1>3. TableType'
  BY <1>1, <1>2, AddPeerSound DEF AddTold
<1>4. task' \in Task
  <2>1. CASE task.stage = "bootstrap"
    <3>1. task \in [stage : {"bootstrap"}, at : Time, left : 0 .. MaxAddresses, adds : Seq(Record)]
      BY <2>1 DEF IInv, TypeOK, Task
    <3>2. Left(task.left, Peers') \in 0 .. MaxAddresses
      BY <3>1, KademliaAssumption DEF Left
    <3>3. << >> \in Seq(Record)
      OBVIOUS
    <3>4. \/ task' = [task EXCEPT !.adds = << >>, !.left = Left(@, Peers')]
          \/ task' = [task EXCEPT !.adds = Tail(@)]
      BY <2>1 DEF AddTold
    <3>5. CASE task' = [task EXCEPT !.adds = << >>, !.left = Left(@, Peers')]
      BY <3>1, <3>2, <3>3, <3>5 DEF Task
    <3>6. CASE task' = [task EXCEPT !.adds = Tail(@)]
      BY <1>2, <3>1, <3>6 DEF Task
    <3> QED
      BY <3>4, <3>5, <3>6
  <2>2. CASE task.stage # "bootstrap"
    <3>1. task \in [stage : {"announce"}, at : Time, self : Record, queue : Seq(Record),
                    adds : Seq(Record)]
      BY <2>2 DEF AddTold, IInv, TypeOK, Task
    <3> QED
      BY <1>2, <2>2, <3>1 DEF AddTold, Task
  <2> QED
    BY <2>1, <2>2
<1>5. now' \in Time
  BY DEF AddTold, IInv, TypeOK
<1> QED
  BY <1>3, <1>4, <1>5, Frame DEF AddTold
\* The task while it announces.
AnnounceTask ==
    [stage : {"announce"}, at : Time, self : Record, queue : Seq(Record), adds : Seq(Record)]

LEMMA PickAnnouncePeersSound == ASSUME IInv, PickAnnouncePeers PROVE IInv'
<1>1. Peers \subseteq Record
  BY DEF IInv, TypeOK, Peers
<1>2. GetPeersForKey(Self, AnnouncePeers) \subseteq Record
  BY <1>1, BucketType, AgreementType DEF GetPeersForKey, Candidates, IInv, TypeOK
<1>3. PICK queue \in {<< >>} \cup
            {<<low, near>> : low \in Lowest(Peers, peersLastChanged),
                             near \in GetPeersForKey(Self, AnnouncePeers)} :
        task' = [stage |-> "announce", at |-> task.at, self |-> peerSelf,
                 queue |-> queue, adds |-> << >>]
  BY DEF PickAnnouncePeers
<1>4. queue \in Seq(Record)
  <2>1. CASE queue = << >>
    BY <2>1
  <2>2. CASE queue # << >>
    <3>1. PICK low \in Peers, near \in GetPeersForKey(Self, AnnouncePeers) :
            queue = <<low, near>>
      BY <1>3, <2>2 DEF Lowest
    <3>2. low \in Record /\ near \in Record
      BY <1>1, <1>2
    <3> QED
      BY <3>1, <3>2
  <2> QED
    BY <2>1, <2>2
<1>5. task.at \in Time /\ peerSelf \in Record /\ now' \in Time
  BY DEF PickAnnouncePeers, Waiting, IInv, TypeOK, Task
<1>6. << >> \in Seq(Record)
  OBVIOUS
<1>7. task' \in AnnounceTask
  BY <1>3, <1>4, <1>5, <1>6 DEF AnnounceTask
<1>8. task' \in Task
  BY <1>7 DEF Task, AnnounceTask
<1> QED
  BY <1>5, <1>8, TableKept, Frame DEF PickAnnouncePeers

\* The next peer to announce to is taken off the queue.
LEMMA AnnouncingType ==
    ASSUME IInv, Announcing
    PROVE  /\ task \in AnnounceTask
           /\ Head(task.queue) \in Record
           /\ Tail(task.queue) \in Seq(Record)
           /\ [task EXCEPT !.queue = Tail(@)] \in Task
<1>1. task \in AnnounceTask /\ task.queue # << >>
  BY DEF Announcing, Waiting, IInv, TypeOK, Task, AnnounceTask
<1>2. Head(task.queue) \in Record /\ Tail(task.queue) \in Seq(Record)
  BY <1>1 DEF AnnounceTask
<1>3. [task EXCEPT !.queue = Tail(@)] \in AnnounceTask
  BY <1>1, <1>2 DEF AnnounceTask
<1> QED
  BY <1>1, <1>2, <1>3 DEF Task, AnnounceTask

LEMMA AnnounceToSelfSound == ASSUME IInv, AnnounceToSelf PROVE IInv'
<1>1. task.self \in Record /\ task.at \in Time /\ task' \in Task
  BY AnnouncingType DEF AnnounceToSelf, AnnounceTask
<1>2. TableType'
  BY <1>1, AddPeerSound DEF AnnounceToSelf
<1>3. now' \in Time
  BY DEF AnnounceToSelf, IInv, TypeOK
<1> QED
  BY <1>1, <1>2, <1>3, Frame DEF AnnounceToSelf

LEMMA AnnounceSkippedSound == ASSUME IInv, AnnounceSkipped PROVE IInv'
<1>1. task' \in Task
  BY AnnouncingType DEF AnnounceSkipped
<1>2. now' \in Time
  BY DEF AnnounceSkipped, IInv, TypeOK
<1> QED
  BY <1>1, <1>2, TableKept, Frame DEF AnnounceSkipped

LEMMA AnnounceAnsweredSound ==
    ASSUME IInv, NEW r \in Around, NEW peers_nearest \in Told,
           AnnounceAnswered(r, peers_nearest)
    PROVE  IInv'
<1>1. r \in Record /\ peers_nearest \in Seq(Record)
  BY AroundType, ToldType
<1>2. <<r>> \o peers_nearest \in Seq(Record)
  BY <1>1
<1>3. task \in AnnounceTask /\ Tail(task.queue) \in Seq(Record)
  BY AnnouncingType DEF AnnounceAnswered
<1>4. task' = [task EXCEPT !.queue = Tail(@), !.adds = <<r>> \o peers_nearest]
  BY DEF AnnounceAnswered
<1>5. task' \in AnnounceTask
  BY <1>2, <1>3, <1>4 DEF AnnounceTask
<1>6. task' \in Task
  BY <1>5 DEF Task, AnnounceTask
<1>7. now' \in Time
  BY DEF AnnounceAnswered, IInv, TypeOK
<1> QED
  BY <1>6, <1>7, TableKept, Frame DEF AnnounceAnswered

LEMMA AnnounceFailsSound == ASSUME IInv, AnnounceFails PROVE IInv'
<1>1. Head(task.queue).id \in Id /\ task.at \in Time /\ task' \in Task
  BY AnnouncingType DEF AnnounceFails, AnnounceTask, Record
<1>2. TableType'
  BY <1>1, RemovePeerSound DEF AnnounceFails
<1>3. now' \in Time
  BY DEF AnnounceFails, IInv, TypeOK
<1> QED
  BY <1>1, <1>2, <1>3, Frame DEF AnnounceFails

LEMMA EndRoundSound == ASSUME IInv, EndRound PROVE IInv'
<1>1. task' \in Task /\ now \in Time
  BY DEF EndRound, IInv, TypeOK, Task
<1>2. /\ saved' = buckets \/ saved' = saved
      /\ lastDump' \in Time /\ dumpedAt' \in Time /\ unsaved' \in BOOLEAN
      /\ UNCHANGED <<now, self, buckets, peersLastChanged>>
  BY DEF EndRound, IInv, TypeOK, disk
<1>3. TypeOK'
  BY <1>1, <1>2 DEF IInv, TypeOK, self
<1>4. TableSound'
  BY <1>2 DEF IInv, TableSound, Sound, BucketOf
<1> QED
  BY <1>3, <1>4 DEF IInv

LEMMA RestartSound == ASSUME IInv, Restart PROVE IInv'
<1> DEFINE peer_self == [id |-> Self, pow |-> InitialPow, stamp |-> peerSelf.stamp + 1]
<1>1. peer_self \in Record /\ peer_self.id = Self
  BY KademliaAssumption DEF Restart, IInv, TypeOK, Record
<1>2. /\ peerSelf' = peer_self /\ signed' = signed \cup {peer_self}
      /\ buckets' = Loaded(peer_self, now)
      /\ peersLastChanged' = now /\ lastDump' = now /\ dumpedAt' = now
      /\ task' = [stage |-> "sleep", since |-> -1]
      /\ unsaved' = FALSE
      /\ UNCHANGED <<now, saved>>
  BY DEF Restart
<1> HIDE DEF peer_self
<1>3. \A b \in Bucket : Sound(b, saved[b])
  BY DEF IInv, TableSound
<1>4. \A b \in Bucket : Sound(b, buckets'[b])
  BY <1>1, <1>2, <1>3, LoadedSound
<1>5. buckets' \in [Bucket -> SUBSET Record]
  <2>1. \A b \in Bucket : buckets'[b] \in SUBSET Record
    BY <1>4 DEF Sound
  <2>2. buckets' = [b \in Bucket |-> buckets'[b]]
    BY <1>2 DEF Loaded
  <2> QED
    BY <2>1, <2>2
<1>6. task' \in Task
  BY <1>2 DEF Task
<1>7. TypeOK'
  BY <1>1, <1>2, <1>5, <1>6 DEF IInv, TypeOK
<1>8. TableSound'
  BY <1>2, <1>3, <1>4 DEF TableSound, Sound, BucketOf
<1> QED
  BY <1>7, <1>8 DEF IInv

LEMMA TickSound == ASSUME IInv, Tick PROVE IInv'
<1>1. now' \in Time /\ task' \in Task
  BY KademliaAssumption DEF Tick, IInv, TypeOK, Time
<1> QED
  BY <1>1, TableKept, Frame DEF Tick

LEMMA StutterSound == ASSUME IInv, UNCHANGED vars PROVE IInv'
<1>1. now' \in Time /\ task' \in Task /\ UNCHANGED <<self, disk, table>>
  BY DEF vars, IInv, TypeOK
<1> QED
  BY <1>1, TableKept, Frame

-----------------------------------------------------------------------------
(***************************************************************************)
(* The theorems.                                                           *)
(***************************************************************************)

\* The invariant is inductive: add_peer, remove_peer, the task of maintain_kademlia
\* and the restart keep the table and its saved copy sound.
THEOREM Inductive == Spec => []IInv
<1>1. Init => IInv
  BY InitSound
<1>2. IInv /\ [Next]_vars => IInv'
  <2> SUFFICES ASSUME IInv, [Next]_vars PROVE IInv'
    OBVIOUS
  <2> QED
    BY AnnounceSound, UpgradeSelfSound, BeginRoundSound, BootstrapSound, AddToldSound,
       PickAnnouncePeersSound, AnnounceToSelfSound, AnnounceSkippedSound,
       AnnounceAnsweredSound, AnnounceFailsSound, EndRoundSound, RestartSound,
       TickSound, StutterSound
    DEF Next
<1> QED
  BY <1>1, <1>2, PTL DEF Spec

\* Every variable of the routing table and its task keeps its type.
THEOREM TypeCorrect == Spec => []TypeOK
<1>1. IInv => TypeOK
  BY DEF IInv
<1> QED
  BY <1>1, Inductive, PTL

\* No peer is ever listed twice, in the wrong bucket, or in a bucket beyond its cap,
\* in the table of add_peer and remove_peer or in its saved copy.
THEOREM PeersListedOnce == Spec => []OneRecordPerPeer
<1>1. IInv => OneRecordPerPeer
  BY DEF IInv, TableSound, Sound, OneRecordPerPeer
<1> QED
  BY <1>1, Inductive, PTL

\* The fast path of get_peers_for_key is right: for every key and number of peers the
\* nearest are returned, whatever happened to the table.
THEOREM NearestAlwaysReturned == Spec => []NearestReturned
<1>1. IInv => NearestReturned
  BY SoundTableAnswers DEF IInv, TypeOK, TableSound
<1> QED
  BY <1>1, Inductive, PTL
-----------------------------------------------------------------------------
(***************************************************************************)
(* Only worse records give way.                                            *)
(***************************************************************************)

\* What BetterReplaces says of one bucket and what becomes of it at time t.
Improves(bucket, out, t) ==
    Cardinality(out) >= Cardinality(bucket) =>
        \A r \in bucket \ out :
            \E q \in out \ bucket :
                /\ Worse(r, q, t)
                /\ \/ q.id = r.id
                   \/ \A p \in bucket : ~Worse(p, r, t)

\* add_peer replaces a worse record of the same peer, or the worst of a full bucket.
LEMMA AddedImproves ==
    ASSUME NEW b \in Bucket, NEW bucket, Sound(b, bucket),
           NEW r \in Record, NEW t \in Time, NEW out \in Added(bucket, r, t)
    PROVE  Improves(bucket, out, t)
<1> DEFINE same == {q \in bucket : q.id = r.id}
<1> SUFFICES ASSUME NEW x \in bucket, x \notin out
             PROVE  \E q \in out \ bucket :
                       /\ Worse(x, q, t)
                       /\ q.id = x.id \/ \A p \in bucket : ~Worse(p, x, t)
  BY DEF Improves
<1>1. \A q \in Record : ~Worse(q, q, t)
  BY KademliaAssumption DEF Worse, Record
<1>2. CASE same # {}
  <2>1. PICK q \in same : Worse(q, r, t) /\ out = (bucket \ same) \cup {r}
    BY <1>2 DEF Added
  <2>2. x = q
    BY <2>1 DEF Sound
  <2>3. r \notin bucket
    BY <1>1, <2>1 DEF Sound
  <2> QED
    BY <2>1, <2>2, <2>3
<1>3. CASE same = {}
  <2>1. PICK low \in Lowest(bucket, t) : Worse(low, r, t) /\ out = (bucket \ {low}) \cup {r}
    BY <1>3 DEF Added
  <2>2. x = low /\ \A p \in bucket : ~Worse(p, x, t)
    BY <2>1 DEF Lowest
  <2>3. r \notin bucket
    BY <1>3
  <2> QED
    BY <2>1, <2>2, <2>3
<1> QED
  BY <1>2, <1>3

\* A bucket that does not change improves, and so does one that only shrinks.
LEMMA SubsetImproves ==
    ASSUME NEW b \in Bucket, NEW bucket, Sound(b, bucket), NEW out \in SUBSET bucket, NEW t
    PROVE  Improves(bucket, out, t)
<1>1. /\ Cardinality(out) <= Cardinality(bucket)
      /\ Cardinality(bucket) = Cardinality(out) => bucket = out
      /\ Cardinality(out) \in Nat /\ Cardinality(bucket) \in Nat
  BY FS_Subset, FS_CardinalityType DEF Sound
<1> QED
  BY <1>1 DEF Improves

\* Every bucket of the next table.
LEMMA ChangeBucketImproves ==
    ASSUME IInv, NEW b \in Bucket, NEW outcomes, NEW t,
           \A out \in outcomes : Improves(buckets[b], out, t),
           ChangeBucket(b, outcomes, t), peersLastChanged' = t
    PROVE  \A c \in Bucket : Improves(buckets[c], buckets'[c], peersLastChanged')
<1> SUFFICES ASSUME NEW c \in Bucket PROVE Improves(buckets[c], buckets'[c], t)
  OBVIOUS
<1>1. PICK out \in outcomes : buckets' = [buckets EXCEPT ![b] = out]
  BY DEF ChangeBucket
<1>2. DOMAIN buckets = Bucket /\ Sound(c, buckets[c])
  BY DEF IInv, TypeOK, TableSound
<1>3. CASE c = b
  BY <1>1, <1>2, <1>3
<1>4. CASE c # b
  <2>1. buckets'[c] = buckets[c]
    BY <1>1, <1>2, <1>4
  <2> QED
    BY <1>2, <2>1, SubsetImproves
<1> QED
  BY <1>3, <1>4

LEMMA AddPeerImproves ==
    ASSUME IInv, NEW r \in Record, NEW t \in Time, AddPeer(r, t)
    PROVE  \A c \in Bucket : Improves(buckets[c], buckets'[c], peersLastChanged')
<1> DEFINE b == BucketOf(r.id)
<1>1. b \in Bucket
  BY BucketType DEF Record
<1>2. Sound(b, buckets[b])
  BY <1>1 DEF IInv, TableSound
<1>3. \A out \in Added(buckets[b], r, t) : Improves(buckets[b], out, t)
  BY <1>1, <1>2, AddedImproves
<1>4. ChangeBucket(b, Added(buckets[b], r, t), t) /\ peersLastChanged' = t
  BY DEF AddPeer
<1> HIDE DEF b
<1> QED
  BY <1>1, <1>3, <1>4, ChangeBucketImproves

LEMMA RemovePeerImproves ==
    ASSUME IInv, NEW id \in Id, NEW t, RemovePeer(id, t)
    PROVE  \A c \in Bucket : Improves(buckets[c], buckets'[c], peersLastChanged')
<1> DEFINE b == BucketOf(id)
           out == {q \in buckets[b] : q.id # id}
<1>1. b \in Bucket
  BY BucketType
<1>2. Improves(buckets[b], out, t)
  BY <1>1, SubsetImproves DEF IInv, TableSound
<1>3. ChangeBucket(b, {out}, t) /\ peersLastChanged' = t
  BY DEF RemovePeer, RemoveFromBucket
<1> HIDE DEF b, out
<1> QED
  BY <1>1, <1>2, <1>3, ChangeBucketImproves

LEMMA KeptImproves ==
    ASSUME IInv, UNCHANGED buckets
    PROVE  \A c \in Bucket : Improves(buckets[c], buckets'[c], peersLastChanged')
BY SubsetImproves DEF IInv, TableSound

\* Every step but a restart, which has a new peer_self.
LEMMA StepImproves ==
    ASSUME IInv, [Next]_vars, peerSelf' = peerSelf
    PROVE  \A c \in Bucket : Improves(buckets[c], buckets'[c], peersLastChanged')
<1>1. ASSUME NEW r \in Around, Announce(r)
      PROVE  \A c \in Bucket : Improves(buckets[c], buckets'[c], peersLastChanged')
  <2>1. r \in Record /\ now \in Time
    BY AroundType DEF IInv, TypeOK
  <2> QED
    BY <1>1, <2>1, AddPeerImproves DEF Announce
<1>2. CASE AddTold
  <2>1. /\ task.adds \in Seq(Record) /\ task.adds # << >>
        /\ task.at \in Time
    BY <1>2 DEF AddTold, IInv, TypeOK, Task
  <2>2. Head(task.adds) \in Record
    BY <2>1
  <2> QED
    BY <1>2, <2>1, <2>2, AddPeerImproves DEF AddTold
<1>3. CASE AnnounceToSelf
  <2>1. task.self \in Record /\ task.at \in Time
    BY <1>3, AnnouncingType DEF AnnounceToSelf, AnnounceTask
  <2> QED
    BY <1>3, <2>1, AddPeerImproves DEF AnnounceToSelf
<1>4. CASE AnnounceFails
  <2>1. Head(task.queue).id \in Id
    BY <1>4, AnnouncingType DEF AnnounceFails, Record
  <2> QED
    BY <1>4, <2>1, RemovePeerImproves DEF AnnounceFails
<1>5. CASE Restart
  <2>1. peerSelf'.stamp = peerSelf.stamp + 1 /\ peerSelf.stamp \in Nat
    BY <1>5, KademliaAssumption DEF Restart, IInv, TypeOK, Record
  <2> QED
    BY <2>1
<1>6. CASE UNCHANGED buckets
  BY <1>6, KeptImproves
<1>7. ASSUME \/ \E pow \in Pow : UpgradeSelf(pow)
             \/ BeginRound
             \/ \E peers_random \in Told : Bootstrap(peers_random)
             \/ PickAnnouncePeers
             \/ AnnounceSkipped
             \/ \E r \in Around, peers_nearest \in Told : AnnounceAnswered(r, peers_nearest)
             \/ EndRound
             \/ Tick
             \/ UNCHANGED vars
      PROVE  UNCHANGED buckets
  <2>1. ASSUME NEW pow \in Pow, UpgradeSelf(pow) PROVE UNCHANGED buckets
    BY <2>1 DEF UpgradeSelf, table
  <2>2. ASSUME NEW peers_random \in Told, Bootstrap(peers_random) PROVE UNCHANGED buckets
    BY <2>2 DEF Bootstrap, table
  <2>3. ASSUME NEW r \in Around, NEW peers_nearest \in Told, AnnounceAnswered(r, peers_nearest)
        PROVE  UNCHANGED buckets
    BY <2>3 DEF AnnounceAnswered, table
  <2>4. CASE BeginRound \/ PickAnnouncePeers \/ AnnounceSkipped
    BY <2>4 DEF BeginRound, PickAnnouncePeers, AnnounceSkipped, table
  <2>5. CASE EndRound \/ Tick \/ UNCHANGED vars
    BY <2>5 DEF EndRound, Tick, table, vars
  <2> QED
    BY <1>7, <2>1, <2>2, <2>3, <2>4, <2>5
<1> QED
  BY <1>1, <1>2, <1>3, <1>4, <1>5, <1>6, <1>7 DEF Next

\* add_peer never leaves a worse table: a record gives way to a better one of the
\* same peer or, when it is the worst of its bucket, to a better one of another.
THEOREM OnlyWorseGiveWay == Spec => BetterReplaces
<1>1. IInv /\ [Next]_vars =>
        [peerSelf' = peerSelf =>
            \A b \in Bucket :
                Cardinality(buckets'[b]) >= Cardinality(buckets[b]) =>
                    \A r \in buckets[b] \ buckets'[b] :
                        \E q \in buckets'[b] \ buckets[b] :
                            /\ Worse(r, q, peersLastChanged')
                            /\ \/ q.id = r.id
                               \/ \A p \in buckets[b] : ~Worse(p, r, peersLastChanged')]_vars
  BY StepImproves DEF Improves
<1> QED
  BY <1>1, Inductive, PTL DEF Spec, BetterReplaces
-----------------------------------------------------------------------------
(***************************************************************************)
(* No change is taken for saved.                                           *)
(***************************************************************************)

\* How the times of the table, the task and the dump lie to each other: a round runs at
\* a time no earlier than the last dump and, once there is something unsaved, later.
TimesInOrder ==
    /\ lastDump <= dumpedAt /\ dumpedAt <= now /\ peersLastChanged <= now
    /\ task.stage # "sleep" => dumpedAt <= task.at /\ task.at <= now
    /\ unsaved => /\ now > dumpedAt
                  /\ task.stage # "sleep" => task.at > dumpedAt
                  /\ peersLastChanged > lastDump

\* All these are numbers.
LEMMA TimesAreNumbers ==
    ASSUME IInv
    PROVE  /\ now \in Nat /\ lastDump \in Nat /\ dumpedAt \in Nat /\ peersLastChanged \in Nat
           /\ task.stage # "sleep" => task.at \in Nat
           /\ unsaved \in BOOLEAN
<1>1. Time \subseteq Nat
  BY KademliaAssumption DEF Time
<1> QED
  BY <1>1 DEF IInv, TypeOK, Task

\* A change of the table at the time of a handler, or at that of the round.
LEMMA ChangeInOrder ==
    ASSUME IInv, TimesInOrder, NEW b, NEW outcomes, NEW t \in Nat, ChangeBucket(b, outcomes, t),
           t = now \/ (task.stage # "sleep" /\ t = task.at),
           peersLastChanged' = t, UNCHANGED <<now, lastDump, dumpedAt>>,
           \/ task'.stage = "sleep" /\ task.stage = "sleep"
           \/ task'.stage # "sleep" /\ task.stage # "sleep" /\ task'.at = task.at
    PROVE  TimesInOrder'
<1>1. unsaved' => unsaved \/ (t > dumpedAt /\ ~(task.stage # "sleep" /\ task.at = dumpedAt))
  BY TimesAreNumbers DEF ChangeBucket, RoundOfTheStart
<1> QED
  BY <1>1, TimesAreNumbers DEF TimesInOrder

\* A step of the task that leaves the table and the dump alone.
LEMMA RoundInOrder ==
    ASSUME IInv, TimesInOrder, UNCHANGED <<now, lastDump, dumpedAt, peersLastChanged, unsaved>>,
           task'.stage # "sleep" =>
               \/ task.stage # "sleep" /\ task'.at = task.at
               \/ task'.at = now
    PROVE  TimesInOrder'
  BY TimesAreNumbers DEF TimesInOrder

LEMMA StepInOrder ==
    ASSUME IInv, TimesInOrder, [Next]_vars
    PROVE  TimesInOrder'
<1>0. /\ now \in Nat /\ lastDump \in Nat /\ dumpedAt \in Nat /\ peersLastChanged \in Nat
      /\ task.stage # "sleep" => task.at \in Nat
  BY TimesAreNumbers
<1>1. ASSUME NEW r \in Around, Announce(r)
      PROVE  TimesInOrder'
  BY <1>0, <1>1, ChangeInOrder DEF Announce, AddPeer, disk
<1>2. ASSUME NEW pow \in Pow, UpgradeSelf(pow)
      PROVE  TimesInOrder'
  BY <1>2, RoundInOrder DEF UpgradeSelf, table, disk
<1>3. CASE BeginRound
  BY <1>3, RoundInOrder DEF BeginRound, table, disk
<1>4. ASSUME NEW peers_random \in Told, Bootstrap(peers_random)
      PROVE  TimesInOrder'
  <2>1. task \in [stage : {"bootstrap"}, at : Time, left : 0 .. MaxAddresses, adds : Seq(Record)]
    BY <1>4 DEF Bootstrap, Waiting, IInv, TypeOK, Task
  <2>2. task'.stage = task.stage /\ task'.at = task.at /\ task.stage # "sleep"
    BY <1>4, <2>1 DEF Bootstrap
  <2> QED
    BY <1>4, <2>2, RoundInOrder DEF Bootstrap, table, disk
<1>5. CASE AddTold
  <2>1. task.stage # "sleep" /\ \/ task' = [task EXCEPT !.adds = << >>, !.left = Left(@, Peers')]
                                \/ task' = [task EXCEPT !.adds = Tail(@)]
    BY <1>5 DEF AddTold
  <2>2. \/ task \in [stage : {"bootstrap"}, at : Time, left : 0 .. MaxAddresses, adds : Seq(Record)]
        \/ task \in AnnounceTask
    BY <2>1 DEF IInv, TypeOK, Task, AnnounceTask
  <2>3. task'.stage = task.stage /\ task'.at = task.at
    BY <2>1, <2>2 DEF AnnounceTask
  <2>4. /\ ChangeBucket(BucketOf(Head(task.adds).id),
                        Added(buckets[BucketOf(Head(task.adds).id)], Head(task.adds), task.at), task.at)
        /\ peersLastChanged' = task.at /\ UNCHANGED <<now, lastDump, dumpedAt>>
    BY <1>5 DEF AddTold, AddPeer, disk
  <2> QED
    BY <1>0, <2>1, <2>3, <2>4, ChangeInOrder
<1>6. CASE PickAnnouncePeers
  <2>1. task.stage # "sleep" /\ task'.at = task.at
    BY <1>6 DEF PickAnnouncePeers, Waiting
  <2> QED
    BY <1>6, <2>1, RoundInOrder DEF PickAnnouncePeers, table, disk
<1>7. ASSUME Announcing
      PROVE  /\ task.stage # "sleep" /\ task \in AnnounceTask
             /\ \A n : [task EXCEPT !.queue = n].stage = task.stage /\ [task EXCEPT !.queue = n].at = task.at
             /\ \A n, m : /\ [task EXCEPT !.queue = n, !.adds = m].stage = task.stage
                          /\ [task EXCEPT !.queue = n, !.adds = m].at = task.at
  <2>1. task \in AnnounceTask
    BY <1>7, AnnouncingType
  <2> QED
    BY <2>1 DEF AnnounceTask
<1>8. CASE AnnounceToSelf
  <2>1. task.stage # "sleep" /\ task'.stage = task.stage /\ task'.at = task.at
    BY <1>7, <1>8 DEF AnnounceToSelf
  <2>2. /\ ChangeBucket(BucketOf(task.self.id),
                        Added(buckets[BucketOf(task.self.id)], task.self, task.at), task.at)
        /\ peersLastChanged' = task.at /\ UNCHANGED <<now, lastDump, dumpedAt>>
    BY <1>8 DEF AnnounceToSelf, AddPeer, disk
  <2> QED
    BY <1>0, <2>1, <2>2, ChangeInOrder
<1>9. CASE AnnounceSkipped
  <2>1. task.stage # "sleep" /\ task'.stage = task.stage /\ task'.at = task.at
    BY <1>7, <1>9 DEF AnnounceSkipped
  <2> QED
    BY <1>9, <2>1, RoundInOrder DEF AnnounceSkipped, table, disk
<1>10. ASSUME NEW r \in Around, NEW peers_nearest \in Told, AnnounceAnswered(r, peers_nearest)
       PROVE  TimesInOrder'
  <2>1. task.stage # "sleep" /\ task'.stage = task.stage /\ task'.at = task.at
    BY <1>7, <1>10 DEF AnnounceAnswered
  <2> QED
    BY <1>10, <2>1, RoundInOrder DEF AnnounceAnswered, table, disk
<1>11. CASE AnnounceFails
  <2>1. task.stage # "sleep" /\ task'.stage = task.stage /\ task'.at = task.at
    BY <1>7, <1>11 DEF AnnounceFails
  <2>2. /\ ChangeBucket(BucketOf(Head(task.queue).id),
                        {{q \in buckets[BucketOf(Head(task.queue).id)] : q.id # Head(task.queue).id}}, task.at)
        /\ peersLastChanged' = task.at /\ UNCHANGED <<now, lastDump, dumpedAt>>
    BY <1>11 DEF AnnounceFails, RemovePeer, RemoveFromBucket, disk
  <2> QED
    BY <1>0, <2>1, <2>2, ChangeInOrder
<1>12. CASE EndRound
  <2>1. task'.stage = "sleep" /\ UNCHANGED <<now, peersLastChanged>>
    BY <1>12 DEF EndRound
  <2>2. \/ lastDump' = peersLastChanged /\ dumpedAt' = now /\ unsaved' = FALSE
        \/ UNCHANGED <<lastDump, dumpedAt, unsaved>>
    BY <1>12 DEF EndRound, disk
  <2> QED
    BY <1>0, <2>1, <2>2 DEF TimesInOrder
<1>13. CASE Restart
  BY <1>0, <1>13 DEF Restart, TimesInOrder
<1>14. CASE Tick
  BY <1>0, <1>14 DEF Tick, table, disk, TimesInOrder
<1>15. CASE UNCHANGED vars
  BY <1>15 DEF vars, table, disk, TimesInOrder
<1> QED
  BY <1>1, <1>2, <1>3, <1>4, <1>5, <1>6, <1>8, <1>9, <1>10, <1>11, <1>12, <1>13, <1>14, <1>15
  DEF Next

\* peers_last_changed may go back in time, yet what changed after the last dump is seen to
\* be unsaved, however the task and the handlers interleave.
THEOREM ChangeAlwaysNoticed == Spec => []ChangeIsNoticed
<1>1. Init => TimesInOrder
  BY DEF Init, TimesInOrder
<1>2. IInv /\ TimesInOrder /\ [Next]_vars => TimesInOrder'
  BY StepInOrder
<1>3. TimesInOrder => ChangeIsNoticed
  BY DEF TimesInOrder, ChangeIsNoticed
<1> QED
  BY <1>1, <1>2, <1>3, Inductive, PTL DEF Spec

-----------------------------------------------------------------------------
(***************************************************************************)
(* Identities, records and tokens (Credentials).                           *)
(***************************************************************************)
PeerFields == {"id", "key", "initial", "day", "month", "version", "address", "ts", "sig"}

TokenFields == {"kind", "peer", "place", "extra", "ids", "sig"}

IsPow(w) == w = [input |-> w.input, pow |-> w.pow]

\* A record somebody signed: whose key made the signature is part of it.
SignedRecord(p) ==
  /\ p = [f \in PeerFields |-> p[f]]
  /\ IsPow(p.initial) /\ IsPow(p.day) /\ IsPow(p.month)
  /\ p.sig = Sign(p.sig.key, SignatureHash(p))
  /\ VerifyServerId(p) /\ VerifyPows(p)

\* A token somebody issued for a place that is what it should be.
IssuedToken(t) ==
  /\ t = [f \in TokenFields |-> t[f]]
  /\ t.kind \in {"claim", "commit", "heal", "cache"}
  /\ t.kind \in {"claim", "commit"} => t.ids = <<>>
  /\ t.ids \in Seq(PostIds)
  /\ t.place = BucketPlace(t.place.base)
  /\ t.sig = Sign(t.sig.key, TokenHash(Unsigned(t)))

CredentialsInv ==
  /\ started = [k \in Holders |-> started[k]]
  /\ \A k \in Holders : started[k] # None => SignedRecord(started[k])
  /\ \A p \in records : SignedRecord(p)
  /\ \A t \in tokens : IssuedToken(t)
  /\ PeerGenuine /\ TokenGenuine

\* Signing puts the time and the signature in, and leaves the rest.
LEMMA SignPeerIs ==
  ASSUME NEW p, p = [f \in PeerFields |-> p[f]], NEW k, NEW at
  PROVE  LET q == SignPeer(p, k, at)
         IN /\ q = [f \in PeerFields |-> q[f]]
            /\ \A f \in PeerFields \ {"ts", "sig"} : q[f] = p[f]
            /\ q.ts = at /\ q.sig = Sign(k, SignatureHash(q))
<1> DEFINE q == [p EXCEPT !.ts = at]
           r == [q EXCEPT !.sig = Sign(k, SignatureHash(q))]
<1>1. q = [f \in PeerFields |-> q[f]] /\ (\A f \in PeerFields \ {"ts"} : q[f] = p[f]) /\ q.ts = at
  BY DEF PeerFields
<1> HIDE DEF q
<1>2. r = [f \in PeerFields |-> r[f]] /\ (\A f \in PeerFields \ {"sig"} : r[f] = q[f]) /\ r.sig = Sign(k, SignatureHash(q))
  BY <1>1 DEF PeerFields
<1> HIDE DEF r
<1>3. SignatureHash(r) = SignatureHash(q)
  BY <1>2 DEF SignatureHash, PeerFields
<1>4. \A f \in PeerFields \ {"ts", "sig"} : r[f] = p[f]
  BY <1>1, <1>2
<1>5. r.ts = at
  BY <1>1, <1>2 DEF PeerFields
<1>6. SignPeer(p, k, at) = r
  BY DEF SignPeer, r, q
<1> QED
  BY <1>2, <1>3, <1>4, <1>5, <1>6

\* A signed record keeps its worth: the id and the works are not what signing changes.
LEMMA SignPeerSigns ==
  ASSUME NEW p, p = [f \in PeerFields |-> p[f]], NEW k, NEW at,
         IsPow(p.initial), IsPow(p.day), IsPow(p.month), VerifyServerId(p), VerifyPows(p)
  PROVE  SignedRecord(SignPeer(p, k, at))
<1> DEFINE q == SignPeer(p, k, at)
<1>1. /\ q = [f \in PeerFields |-> q[f]]
      /\ \A f \in PeerFields \ {"ts", "sig"} : q[f] = p[f]
      /\ q.sig = Sign(k, SignatureHash(q))
  BY SignPeerIs
<1> HIDE DEF q
<1>2. q.sig.key = k
  BY <1>1 DEF Sign
<1>3. q.id = p.id /\ q.key = p.key /\ q.initial = p.initial /\ q.day = p.day /\ q.month = p.month
  BY <1>1 DEF PeerFields
<1>4. SignedRecord(q)
  BY <1>1, <1>2, <1>3 DEF SignedRecord, VerifyServerId, VerifyPows
<1> QED
  BY <1>4 DEF q

\* The record of an identity that verifies.
LEMMA StartedSigns ==
  ASSUME NEW d, Verify(d), NEW signer, NEW address, NEW first, NEW at, d.signer = signer
  PROVE  SignedRecord(SignPeer([ToPeer(d, first) EXCEPT !.address = address], signer, at))
<1> DEFINE w == [input |-> d.input, pow |-> d.pow]
           p0 == [id |-> d.id, key |-> d.key, initial |-> w, day |-> w, month |-> w,
                  version |-> CHOOSE v \in Versions : TRUE, address |-> "", ts |-> 0, sig |-> <<>>]
           p == ToPeer(d, first)
           q == [p EXCEPT !.address = address]
<1>1. p0 = [f \in PeerFields |-> p0[f]]
  <2> DEFINE v0 == CHOOSE v \in Versions : TRUE
  <2> HIDE DEF w, v0
  <2>1. \A x : LET r == [id |-> d.id, key |-> d.key, initial |-> w, day |-> w, month |-> w,
                        version |-> v0, address |-> "", ts |-> 0, sig |-> x]
               IN r = [f \in PeerFields |-> r[f]]
    BY DEF PeerFields
  <2> QED
    BY <2>1 DEF v0
<1>2. p0.id = d.id /\ p0.key = d.key /\ p0.initial = w /\ p0.day = w /\ p0.month = w
  OBVIOUS
<1>3. p = SignPeer(p0, d.signer, first)
  BY DEF ToPeer
<1> HIDE DEF p0, p
<1>4. p = [f \in PeerFields |-> p[f]] /\ (\A f \in PeerFields \ {"ts", "sig"} : p[f] = p0[f])
  BY <1>1, <1>3, SignPeerIs
<1>5. q = [f \in PeerFields |-> q[f]] /\ (\A f \in PeerFields \ {"address"} : q[f] = p[f])
  BY <1>4 DEF PeerFields
<1> HIDE DEF q
<1>6. q.id = d.id /\ q.key = d.key /\ q.initial = w /\ q.day = w /\ q.month = w
  BY <1>2, <1>4, <1>5 DEF PeerFields
<1>7. IsPow(w) /\ w.input = d.input /\ w.pow = d.pow
  BY DEF IsPow
<1> HIDE DEF w
<1>8. IsPow(q.initial) /\ IsPow(q.day) /\ IsPow(q.month) /\ VerifyServerId(q) /\ VerifyPows(q)
  BY <1>6, <1>7 DEF Verify, VerifyServerId, VerifyPows
<1> QED
  BY <1>5, <1>8, SignPeerSigns DEF q, p

\* A work is covered by the hash of its input and by the check of its pow.
LEMMA SamePow ==
  ASSUME NEW v, NEW w, NEW k, IsPow(v), IsPow(w), PowHash(k, v.input) = PowHash(k, w.input),
         v.pow = Worth[<<k, v.input>>], w.pow = Worth[<<k, w.input>>]
  PROVE  v = w
<1>1. v.input = w.input
  BY DEF PowHash
<1> QED
  BY <1>1 DEF IsPow

\* What verifies with the signature of a signed record is that record, but for the version.
LEMMA SignatureOfRecord ==
  ASSUME NEW m, NEW r, m = [f \in PeerFields |-> m[f]], IsPow(m.initial), IsPow(m.day), IsPow(m.month),
         SignedRecord(r), m.sig = r.sig, VerifyPeer(m)
  PROVE  SameButVersion(m, r)
<1>1. Sign(m.key, SignatureHash(m)) = Sign(r.sig.key, SignatureHash(r))
  BY DEF VerifyPeer, VerifySignature, SignedRecord
<1>2. SignatureHash(m) = SignatureHash(r)
  BY <1>1 DEF Sign
<1>3. /\ m.id = r.id /\ m.key = r.key /\ m.address = r.address /\ m.ts = r.ts
      /\ PowHash(m.key, m.initial.input) = PowHash(r.key, r.initial.input)
      /\ PowHash(m.key, m.day.input) = PowHash(r.key, r.day.input)
      /\ PowHash(m.key, m.month.input) = PowHash(r.key, r.month.input)
  BY <1>2 DEF SignatureHash
<1>4. m.initial = r.initial /\ m.day = r.day /\ m.month = r.month
  <2>1. \A w \in {m.initial, m.day, m.month} : w.pow = Worth[<<m.key, w.input>>]
    BY DEF VerifyPeer, VerifyPows
  <2>2. /\ IsPow(r.initial) /\ IsPow(r.day) /\ IsPow(r.month)
        /\ \A w \in {r.initial, r.day, r.month} : w.pow = Worth[<<r.key, w.input>>]
    BY DEF SignedRecord, VerifyPows
  <2>3. \A w \in {r.initial, r.day, r.month} : w.pow = Worth[<<m.key, w.input>>]
    BY <1>3, <2>2
  <2>4. /\ m.initial.pow = Worth[<<m.key, m.initial.input>>]
        /\ m.day.pow = Worth[<<m.key, m.day.input>>]
        /\ m.month.pow = Worth[<<m.key, m.month.input>>]
    BY <2>1
  <2>5. /\ r.initial.pow = Worth[<<m.key, r.initial.input>>]
        /\ r.day.pow = Worth[<<m.key, r.day.input>>]
        /\ r.month.pow = Worth[<<m.key, r.month.input>>]
    BY <2>3
  <2>6. /\ PowHash(m.key, m.initial.input) = PowHash(m.key, r.initial.input)
        /\ PowHash(m.key, m.day.input) = PowHash(m.key, r.day.input)
        /\ PowHash(m.key, m.month.input) = PowHash(m.key, r.month.input)
    BY <1>3
  <2>7. m.initial = r.initial
    BY <2>2, <2>4, <2>5, <2>6, SamePow
  <2>8. m.day = r.day
    BY <2>2, <2>4, <2>5, <2>6, SamePow
  <2>9. m.month = r.month
    BY <2>2, <2>4, <2>5, <2>6, SamePow
  <2> QED
    BY <2>7, <2>8, <2>9
<1>5. r = [f \in PeerFields |-> r[f]]
  BY DEF SignedRecord
<1>6. \A f \in PeerFields : m[f] = [r EXCEPT !.version = m.version][f]
  BY <1>3, <1>4, <1>5 DEF PeerFields
<1>7. [r EXCEPT !.version = m.version] = [f \in PeerFields |-> [r EXCEPT !.version = m.version][f]]
  BY <1>5 DEF PeerFields
<1> QED
  BY <1>6, <1>7 DEF SameButVersion

\* A list behind four fields.
LEMMA FourAndRest ==
  ASSUME NEW a, NEW b, NEW c, NEW d, NEW S, NEW s \in Seq(S)
  PROVE  LET h == <<a, b, c, d>> \o s
         IN /\ Len(h) = 4 + Len(s)
            /\ h[1] = a /\ h[2] = b /\ h[3] = c /\ h[4] = d
            /\ \A i \in 1 .. Len(s) : h[i + 4] = s[i]
<1> DEFINE X == {a, b, c, d} \cup S
           four == <<a, b, c, d>>
<1>1. four \in Seq(X) /\ Len(four) = 4 /\ four[1] = a /\ four[2] = b /\ four[3] = c /\ four[4] = d
  OBVIOUS
<1>2. s \in Seq(X)
  OBVIOUS
<1> HIDE DEF X, four
<1>3. /\ Len(four \o s) = 4 + Len(s)
      /\ \A i \in 1 .. 4 + Len(s) : (four \o s)[i] = IF i <= 4 THEN four[i] ELSE s[i - 4]
  <2>1. /\ Len(four \o s) = Len(four) + Len(s)
        /\ \A i \in 1 .. Len(four) + Len(s) :
              (four \o s)[i] = IF i <= Len(four) THEN four[i] ELSE s[i - Len(four)]
    BY <1>1, <1>2, ConcatProperties
  <2> QED
    BY <1>1, <2>1
<1>4. Len(s) \in Nat
  OBVIOUS
<1>5. ASSUME NEW i \in 1 .. Len(s) PROVE (four \o s)[i + 4] = s[i]
  <2>1. i + 4 \in 1 .. 4 + Len(s) /\ ~(i + 4 <= 4) /\ (i + 4) - 4 = i
    BY <1>4
  <2> QED
    BY <1>3, <2>1
<1>6. 1 \in 1 .. 4 + Len(s) /\ 2 \in 1 .. 4 + Len(s) /\ 3 \in 1 .. 4 + Len(s) /\ 4 \in 1 .. 4 + Len(s)
  BY <1>4
<1> QED
  BY <1>1, <1>3, <1>5, <1>6 DEF four

\* The tag that goes into the hash of a token.
TagOf(kind) ==
  CASE kind = "claim" -> "SubmitPostClaimTokenV1"
    [] kind = "commit" -> "SubmitPostCommitTokenV1"
    [] kind = "heal" -> "HealPostBundleClaimTokenV1"
    [] kind = "cache" -> "CacheRequestToken"

\* What is hashed of a token: the fourth field tells its kind.
LEMMA TokenHashIs ==
  ASSUME NEW t, t = [f \in TokenFields |-> t[f]], t.kind \in {"claim", "commit", "heal", "cache"}, t.ids \in Seq(PostIds)
  PROVE  LET h == TokenHash(Unsigned(t))
         IN /\ h[1] = t.peer.id /\ h[2] = t.place.base /\ h[3] = t.extra /\ h[4] = TagOf(t.kind)
            /\ t.kind \in {"heal", "cache"} =>
                  Len(h) = 4 + Len(t.ids) /\ \A i \in 1 .. Len(t.ids) : h[i + 4] = t.ids[i]
<1> DEFINE x == Unsigned(t)
<1>1. x.kind = t.kind /\ x.peer = t.peer /\ x.place = t.place /\ x.extra = t.extra /\ x.ids = t.ids
  BY DEF Unsigned, TokenFields
<1> HIDE DEF x
<1>2. CASE t.kind = "claim"
  <2>1. TokenHash(x) = <<t.peer.id, t.place.base, t.extra, "SubmitPostClaimTokenV1">>
    BY <1>1, <1>2 DEF TokenHash, ClaimHash
  <2> QED
    BY <1>2, <2>1 DEF TagOf, x
<1>3. CASE t.kind = "commit"
  <2>1. TokenHash(x) = <<t.peer.id, t.place.base, t.extra, "SubmitPostCommitTokenV1">>
    BY <1>1, <1>3 DEF TokenHash, CommitHash
  <2> QED
    BY <1>3, <2>1 DEF TagOf, x
<1>4. CASE t.kind = "heal"
  <2>1. TokenHash(x) = <<t.peer.id, t.place.base, t.extra, "HealPostBundleClaimTokenV1">> \o t.ids
    BY <1>1, <1>4 DEF TokenHash, HealHash
  <2>2. LET h == <<t.peer.id, t.place.base, t.extra, "HealPostBundleClaimTokenV1">> \o t.ids
        IN /\ Len(h) = 4 + Len(t.ids)
           /\ h[1] = t.peer.id /\ h[2] = t.place.base /\ h[3] = t.extra /\ h[4] = "HealPostBundleClaimTokenV1"
           /\ \A i \in 1 .. Len(t.ids) : h[i + 4] = t.ids[i]
    BY FourAndRest
  <2>3. TagOf(t.kind) = "HealPostBundleClaimTokenV1"
    BY <1>4 DEF TagOf
  <2> QED
    BY <2>1, <2>2, <2>3 DEF x
<1>5. CASE t.kind = "cache"
  <2>1. TokenHash(x) = <<t.peer.id, t.place.base, t.extra, "CacheRequestToken">> \o t.ids
    BY <1>1, <1>5 DEF TokenHash, CacheHash
  <2>2. LET h == <<t.peer.id, t.place.base, t.extra, "CacheRequestToken">> \o t.ids
        IN /\ Len(h) = 4 + Len(t.ids)
           /\ h[1] = t.peer.id /\ h[2] = t.place.base /\ h[3] = t.extra /\ h[4] = "CacheRequestToken"
           /\ \A i \in 1 .. Len(t.ids) : h[i + 4] = t.ids[i]
    BY FourAndRest
  <2>3. TagOf(t.kind) = "CacheRequestToken"
    BY <1>5 DEF TagOf
  <2> QED
    BY <2>1, <2>2, <2>3 DEF x
<1> QED
  BY <1>2, <1>3, <1>4, <1>5

LEMMA TagsDiffer ==
  \A k, l \in {"claim", "commit", "heal", "cache"} : TagOf(k) = TagOf(l) => k = l
BY DEF TagOf

\* What verifies with the signature of an issued token is that token, whichever record it carries.
LEMMA SignatureOfToken ==
  ASSUME NEW m, NEW r, m = [f \in TokenFields |-> m[f]], m.kind \in {"claim", "commit", "heal", "cache"},
         m.ids \in Seq(PostIds), m.kind \in {"claim", "commit"} => m.ids = <<>>,
         m.place = [base |-> m.place.base, location_id |-> m.place.location_id],
         IssuedToken(r), m.sig = r.sig, VerifyToken(m)
  PROVE  /\ r.peer.id = m.peer.id /\ r.kind = m.kind /\ r.extra = m.extra /\ r.ids = m.ids
         /\ r.place.base = m.place.base
         /\ m.kind \in {"heal", "cache"} => r.place = m.place
<1>1. Sign(m.peer.key, TokenHash(Unsigned(m))) = Sign(r.sig.key, TokenHash(Unsigned(r)))
  BY DEF VerifyToken, IssuedToken
<1>2. TokenHash(Unsigned(m)) = TokenHash(Unsigned(r))
  BY <1>1 DEF Sign
<1>3. /\ r = [f \in TokenFields |-> r[f]] /\ r.kind \in {"claim", "commit", "heal", "cache"} /\ r.ids \in Seq(PostIds)
      /\ r.kind \in {"claim", "commit"} => r.ids = <<>>
  BY DEF IssuedToken
<1> DEFINE h == TokenHash(Unsigned(m))
<1>4. /\ h[1] = m.peer.id /\ h[2] = m.place.base /\ h[3] = m.extra /\ h[4] = TagOf(m.kind)
      /\ m.kind \in {"heal", "cache"} => Len(h) = 4 + Len(m.ids) /\ \A i \in 1 .. Len(m.ids) : h[i + 4] = m.ids[i]
  BY TokenHashIs
<1>5. /\ h[1] = r.peer.id /\ h[2] = r.place.base /\ h[3] = r.extra /\ h[4] = TagOf(r.kind)
      /\ r.kind \in {"heal", "cache"} => Len(h) = 4 + Len(r.ids) /\ \A i \in 1 .. Len(r.ids) : h[i + 4] = r.ids[i]
  <2> DEFINE o == TokenHash(Unsigned(r))
  <2>1. /\ o[1] = r.peer.id /\ o[2] = r.place.base /\ o[3] = r.extra /\ o[4] = TagOf(r.kind)
        /\ r.kind \in {"heal", "cache"} => Len(o) = 4 + Len(r.ids) /\ \A i \in 1 .. Len(r.ids) : o[i + 4] = r.ids[i]
    BY <1>3, TokenHashIs
  <2>2. o = h
    BY <1>2
  <2> HIDE DEF o, h
  <2> QED
    BY <2>1, <2>2
<1> HIDE DEF h
<1>6. r.peer.id = m.peer.id /\ r.place.base = m.place.base /\ r.extra = m.extra /\ r.kind = m.kind
  BY <1>3, <1>4, <1>5, TagsDiffer
<1>7. r.ids = m.ids
  <2>1. CASE m.kind \in {"claim", "commit"}
    BY <1>3, <1>6, <2>1
  <2>2. CASE m.kind \in {"heal", "cache"}
    <3>1. Len(m.ids) = Len(r.ids) /\ Len(m.ids) \in Nat
      BY <1>3, <1>4, <1>5, <1>6, <2>2
    <3>2. \A i \in 1 .. Len(m.ids) : m.ids[i] = r.ids[i]
      BY <1>4, <1>5, <1>6, <2>2, <3>1
    <3> QED
      BY <1>3, <3>1, <3>2, SeqEqual
  <2> QED
    BY <2>1, <2>2
<1>8. ASSUME m.kind \in {"heal", "cache"} PROVE r.place = m.place
  <2>1. m.place.location_id = m.place.base
    BY <1>8 DEF VerifyToken, Validate
  <2>2. r.place = [base |-> r.place.base, location_id |-> r.place.base]
    BY DEF IssuedToken, BucketPlace
  <2> QED
    BY <1>6, <2>1, <2>2
<1> QED
  BY <1>6, <1>7, <1>8

-----------------------------------------------------------------------------
(***************************************************************************)
(* The steps of a server that signs.                                       *)
(***************************************************************************)
LEMMA StartNewStep ==
  ASSUME CredentialsInv, NEW k \in Holders, NEW input, NEW address, StartNew(k, input, address)
  PROVE  CredentialsInv'
<1> DEFINE d == NewServerId(k, input)
           p == SignPeer([ToPeer(d, 0) EXCEPT !.address = address], k, 0)
<1>1. Verify(d) /\ d.signer = k
  BY DEF StartNew, NewServerId, Verify
<1> HIDE DEF d
<1>2. SignedRecord(p)
  BY <1>1, StartedSigns
<1>3. /\ shown = None /\ UNCHANGED <<tokens, shown>> /\ started' = [started EXCEPT ![k] = p]
      /\ records' = records \cup {started'[k]}
  BY DEF StartNew, d
<1> HIDE DEF p
<1> QED
  BY <1>2, <1>3 DEF CredentialsInv, PeerGenuine, TokenGenuine

LEMMA StartAgainStep ==
  ASSUME CredentialsInv, NEW k \in Holders, NEW address, StartAgain(k, address)
  PROVE  CredentialsInv'
<1> DEFINE d == Decode(stored[k])
           p == SignPeer([ToPeer(d, 1) EXCEPT !.address = address], d.signer, 1)
<1>1. /\ Verify(d) /\ shown = None /\ UNCHANGED <<tokens, shown>> /\ started' = [started EXCEPT ![k] = p]
      /\ records' = records \cup {started'[k]}
  BY DEF StartAgain
<1> HIDE DEF d
<1>2. SignedRecord(p)
  BY <1>1, StartedSigns
<1> HIDE DEF p
<1> QED
  BY <1>1, <1>2 DEF CredentialsInv, PeerGenuine, TokenGenuine

LEMMA SignAgainStep ==
  ASSUME CredentialsInv, NEW k \in Holders, NEW input, NEW at, SignAgain(k, input, at)
  PROVE  CredentialsInv'
<1> DEFINE o == started[k]
           q == [o EXCEPT !.day = Work(o.key, input)]
           p == SignPeer(q, o.sig.key, at)
<1>1. /\ shown = None /\ UNCHANGED <<tokens, shown>> /\ started' = [started EXCEPT ![k] = p]
      /\ records' = records \cup {started'[k]}
  BY DEF SignAgain
<1>2. SignedRecord(o)
  BY DEF SignAgain, CredentialsInv
<1> HIDE DEF o
<1>3. /\ q = [f \in PeerFields |-> q[f]] /\ q.id = o.id /\ q.key = o.key /\ q.initial = o.initial
      /\ q.month = o.month /\ q.day = Work(o.key, input)
  BY <1>2 DEF SignedRecord, PeerFields
<1> HIDE DEF q
<1>4. IsPow(q.initial) /\ IsPow(q.day) /\ IsPow(q.month) /\ VerifyServerId(q) /\ VerifyPows(q)
  BY <1>2, <1>3 DEF SignedRecord, IsPow, Work, VerifyServerId, VerifyPows
<1>5. SignedRecord(p)
  BY <1>3, <1>4, SignPeerSigns
<1> HIDE DEF p
<1> QED
  BY <1>1, <1>5 DEF CredentialsInv, PeerGenuine, TokenGenuine

LEMMA IssueTokenStep ==
  ASSUME CredentialsInv, NEW k, NEW kind \in {"claim", "commit", "heal", "cache"}, NEW b, NEW extra,
         NEW ids \in Seq(PostIds), kind \in {"claim", "commit"} => ids = <<>>, IssueToken(k, kind, b, extra, ids)
  PROVE  CredentialsInv'
<1> DEFINE x == [kind |-> kind, peer |-> started[k], place |-> BucketPlace(b), extra |-> extra, ids |-> ids]
           over == TokenHash(x)
           t == [kind |-> kind, peer |-> started[k], place |-> BucketPlace(b), extra |-> extra, ids |-> ids,
                 sig |-> Sign(started[k].sig.key, over)]
<1>1. /\ shown = None /\ UNCHANGED <<stored, started, records, shown>> /\ tokens' = tokens \cup {t}
  BY DEF IssueToken, NewToken
<1>2. Unsigned(t) = x
  <2> HIDE DEF over
  <2> QED
    BY DEF Unsigned
<1>3. t.sig = Sign(t.sig.key, TokenHash(Unsigned(t)))
  BY <1>2 DEF Sign
<1>4. t.kind = kind /\ t.ids = ids /\ t.place = BucketPlace(t.place.base) /\ t = [f \in TokenFields |-> t[f]]
  <2> HIDE DEF over
  <2> QED
    BY DEF BucketPlace, TokenFields
<1> HIDE DEF t
<1>5. IssuedToken(t)
  BY <1>3, <1>4 DEF IssuedToken
<1> QED
  BY <1>1, <1>5 DEF CredentialsInv, PeerGenuine, TokenGenuine

-----------------------------------------------------------------------------
(***************************************************************************)
(* The steps of somebody that mixes what is signed.                        *)
(***************************************************************************)
\* What is presented carries the signature of a record that is there.
LEMMA ShowPeerStep ==
  ASSUME CredentialsInv, NEW p \in records, NEW q \in records, NEW field \in DOMAIN p, ShowPeer(p, q, field)
  PROVE  CredentialsInv'
<1> DEFINE m == [p EXCEPT ![field] = q[field]]
<1>1. shown' = [what |-> "peer", item |-> m, ok |-> VerifyPeer(m)] /\ UNCHANGED <<stored, started, records, tokens>>
  BY DEF ShowPeer
<1>2. SignedRecord(p) /\ SignedRecord(q)
  BY DEF CredentialsInv
<1>3. field \in PeerFields
  BY <1>2 DEF SignedRecord
<1>4. m = [f \in PeerFields |-> m[f]] /\ \A f \in PeerFields : m[f] = IF f = field THEN q[f] ELSE p[f]
  BY <1>2, <1>3 DEF SignedRecord
<1> HIDE DEF m
<1>5. IsPow(m.initial) /\ IsPow(m.day) /\ IsPow(m.month) /\ (m.sig = p.sig \/ m.sig = q.sig)
  BY <1>2, <1>4 DEF SignedRecord, PeerFields
<1>6. VerifyPeer(m) => \E r \in records : SameButVersion(m, r)
  BY <1>2, <1>4, <1>5, SignatureOfRecord
<1>7. PeerGenuine' /\ TokenGenuine'
  BY <1>1, <1>6 DEF PeerGenuine, TokenGenuine
<1> QED
  BY <1>1, <1>7 DEF CredentialsInv

LEMMA RelabelStep ==
  ASSUME CredentialsInv, NEW p \in records, NEW v, Relabel(p, v)
  PROVE  CredentialsInv'
<1> DEFINE m == [p EXCEPT !.version = v]
<1>1. shown' = [what |-> "peer", item |-> m, ok |-> VerifyPeer(m)] /\ UNCHANGED <<stored, started, records, tokens>>
  BY DEF Relabel
<1>2. SignedRecord(p)
  BY DEF CredentialsInv
<1>3. m = [f \in PeerFields |-> m[f]] /\ \A f \in PeerFields : m[f] = IF f = "version" THEN v ELSE p[f]
  BY <1>2 DEF SignedRecord, PeerFields
<1> HIDE DEF m
<1>4. IsPow(m.initial) /\ IsPow(m.day) /\ IsPow(m.month) /\ m.sig = p.sig
  BY <1>2, <1>3 DEF SignedRecord, PeerFields
<1>5. VerifyPeer(m) => \E r \in records : SameButVersion(m, r)
  BY <1>2, <1>3, <1>4, SignatureOfRecord
<1>6. PeerGenuine' /\ TokenGenuine'
  BY <1>1, <1>5 DEF PeerGenuine, TokenGenuine
<1> QED
  BY <1>1, <1>6 DEF CredentialsInv

\* A token that is presented with the signature of one that is there.
LEMMA TokenShown ==
  ASSUME CredentialsInv, NEW m, shown' = [what |-> "token", item |-> m, ok |-> VerifyToken(m)],
         UNCHANGED <<stored, started, records, tokens>>, NEW r \in tokens,
         m = [f \in TokenFields |-> m[f]], m.kind \in {"claim", "commit", "heal", "cache"},
         m.ids \in Seq(PostIds), m.kind \in {"claim", "commit"} => m.ids = <<>>,
         m.place = [base |-> m.place.base, location_id |-> m.place.location_id], m.sig = r.sig
  PROVE  CredentialsInv'
<1>1. IssuedToken(r)
  BY DEF CredentialsInv
<1>2. VerifyToken(m) => \E t \in tokens :
        /\ t.peer.id = m.peer.id
        /\ t.kind = m.kind /\ t.extra = m.extra /\ t.ids = m.ids
        /\ t.place.base = m.place.base
        /\ m.kind \in {"heal", "cache"} => t.place = m.place
  BY <1>1, SignatureOfToken
<1>3. PeerGenuine' /\ TokenGenuine'
  BY <1>2 DEF PeerGenuine, TokenGenuine
<1> QED
  BY <1>3 DEF CredentialsInv

LEMMA ShowTokenStep ==
  ASSUME CredentialsInv, NEW t \in tokens, NEW u \in tokens, NEW field \in DOMAIN t, ShowToken(t, u, field)
  PROVE  CredentialsInv'
<1> DEFINE m == [t EXCEPT ![field] = u[field]]
<1>1. shown' = [what |-> "token", item |-> m, ok |-> VerifyToken(m)] /\ UNCHANGED <<stored, started, records, tokens>>
  BY DEF ShowToken
<1>2. IssuedToken(t) /\ IssuedToken(u) /\ Parses(t, u, field)
  BY DEF ShowToken, CredentialsInv
<1>3. field \in TokenFields
  BY <1>2 DEF IssuedToken
<1>4. m = [f \in TokenFields |-> m[f]] /\ \A f \in TokenFields : m[f] = IF f = field THEN u[f] ELSE t[f]
  BY <1>2, <1>3 DEF IssuedToken
<1> HIDE DEF m
<1>5. /\ m.kind = IF field = "kind" THEN u.kind ELSE t.kind
      /\ m.ids = IF field = "ids" THEN u.ids ELSE t.ids
      /\ m.place = IF field = "place" THEN u.place ELSE t.place
      /\ m.sig = IF field = "sig" THEN u.sig ELSE t.sig
  BY <1>4 DEF TokenFields
<1>6. /\ m.kind \in {"claim", "commit", "heal", "cache"} /\ m.ids \in Seq(PostIds)
      /\ m.kind \in {"claim", "commit"} => m.ids = <<>>
  <2>1. t.kind = u.kind \/ {t.kind, u.kind} = {"claim", "commit"} \/ field \in {"peer", "place", "sig"}
    BY <1>2 DEF Parses
  <2>2. field \in {"kind", "ids"} => (u.kind \in {"claim", "commit"} <=> t.kind \in {"claim", "commit"})
    BY <2>1
  <2> QED
    BY <1>2, <1>5, <2>2 DEF IssuedToken
<1>7. m.place = [base |-> m.place.base, location_id |-> m.place.location_id]
  <2>1. t.place = [base |-> t.place.base, location_id |-> t.place.location_id]
    BY <1>2 DEF IssuedToken, BucketPlace
  <2>2. u.place = [base |-> u.place.base, location_id |-> u.place.location_id]
    BY <1>2 DEF IssuedToken, BucketPlace
  <2> QED
    BY <1>5, <2>1, <2>2
<1>8. PICK r \in tokens : m.sig = r.sig
  BY <1>5
<1> QED
  BY <1>1, <1>4, <1>6, <1>7, <1>8, TokenShown

LEMMA ShowMisplacedStep ==
  ASSUME CredentialsInv, NEW t \in tokens, NEW b, ShowMisplaced(t, b)
  PROVE  CredentialsInv'
<1> DEFINE m == [t EXCEPT !.place.location_id = b]
<1>1. shown' = [what |-> "token", item |-> m, ok |-> VerifyToken(m)] /\ UNCHANGED <<stored, started, records, tokens>>
  BY DEF ShowMisplaced
<1>2. IssuedToken(t)
  BY DEF CredentialsInv
<1>3. /\ m = [f \in TokenFields |-> m[f]]
      /\ m.kind = t.kind /\ m.ids = t.ids /\ m.sig = t.sig /\ m.place = [t.place EXCEPT !.location_id = b]
  BY <1>2 DEF IssuedToken, TokenFields
<1> HIDE DEF m
<1>4. m.place = [base |-> m.place.base, location_id |-> m.place.location_id]
  BY <1>2, <1>3 DEF IssuedToken, BucketPlace
<1>5. /\ m.kind \in {"claim", "commit", "heal", "cache"} /\ m.ids \in Seq(PostIds)
      /\ m.kind \in {"claim", "commit"} => m.ids = <<>>
  BY <1>2, <1>3 DEF IssuedToken
<1> QED
  BY <1>1, <1>3, <1>4, <1>5, TokenShown

LEMMA CredentialsStep == CredentialsInv /\ [CredentialsNext]_credentialsVars => CredentialsInv'
<1> SUFFICES ASSUME CredentialsInv, [CredentialsNext]_credentialsVars PROVE CredentialsInv'
  OBVIOUS
<1>1. CASE CredentialsRest \/ UNCHANGED credentialsVars
  BY <1>1 DEF CredentialsRest, credentialsVars, CredentialsInv, PeerGenuine, TokenGenuine
<1>2. CASE \E k \in Holders :
             \/ \E i \in Inputs, a \in Addresses : StartNew(k, i, a)
             \/ \E a \in Addresses : StartAgain(k, a)
             \/ \E i \in Inputs : SignAgain(k, i, 1)
  BY <1>2, StartNewStep, StartAgainStep, SignAgainStep
<1>3. CASE \E k \in Holders : Stop(k)
  BY <1>3 DEF Stop, CredentialsInv, PeerGenuine, TokenGenuine
<1>4. CASE \E k, other \in Holders, f \in 1 .. 5 : Rot(k, other, f)
  BY <1>4 DEF Rot, CredentialsInv, PeerGenuine, TokenGenuine
<1>5. CASE \E k \in Holders, b \in Bases, x \in PostIds : \E kind \in {"claim", "commit"} : IssueToken(k, kind, b, x, <<>>)
  <2>1. <<>> \in Seq(PostIds)
    OBVIOUS
  <2>2. PICK k \in Holders, b \in Bases, x \in PostIds : \E kind \in {"claim", "commit"} : IssueToken(k, kind, b, x, <<>>)
    BY <1>5
  <2>3. PICK kind \in {"claim", "commit"} : IssueToken(k, kind, b, x, <<>>)
    BY <2>2
  <2> QED
    BY <2>1, <2>3, IssueTokenStep
<1>6. CASE \E k \in Holders, b \in Bases, x \in PostIds, ids \in IdLists : \E kind \in {"heal", "cache"} : IssueToken(k, kind, b, x, ids)
  <2>1. IdLists \subseteq Seq(PostIds)
    <3>1. <<>> \in Seq(PostIds)
      OBVIOUS
    <3>2. ASSUME NEW i \in PostIds PROVE <<i>> \in Seq(PostIds)
      OBVIOUS
    <3> QED
      BY <3>1, <3>2 DEF IdLists
  <2>2. PICK k \in Holders, b \in Bases, x \in PostIds, ids \in IdLists : \E kind \in {"heal", "cache"} : IssueToken(k, kind, b, x, ids)
    BY <1>6
  <2>3. PICK kind \in {"heal", "cache"} : IssueToken(k, kind, b, x, ids)
    BY <2>2
  <2> QED
    BY <2>1, <2>3, IssueTokenStep
<1>7. CASE \/ \E p, q \in records : \E f \in DOMAIN p : ShowPeer(p, q, f)
           \/ \E p \in records, v \in Versions : Relabel(p, v)
  BY <1>7, ShowPeerStep, RelabelStep
<1>8. CASE \/ \E t, u \in tokens : \E f \in DOMAIN t : ShowToken(t, u, f)
           \/ \E t \in tokens, b \in Bases : ShowMisplaced(t, b)
  BY <1>8, ShowTokenStep, ShowMisplacedStep
<1> QED
  BY <1>1, <1>2, <1>3, <1>4, <1>5, <1>6, <1>7, <1>8 DEF CredentialsNext

\* Whatever was signed, whoever rotted a stored identity and however fields were mixed: a record
\* or a token that verifies is, up to the version of the record, one that its holder signed, for
\* that purpose; and a server that started runs with an identity its peers accept.
THEOREM CredentialsAlwaysGenuine == CredentialsSpec => []CredentialsGenuine
<1>1. CredentialsInit => CredentialsInv
  BY DEF CredentialsInit, CredentialsInv, PeerGenuine, TokenGenuine
<1>2. CredentialsInv => CredentialsGenuine
  <2> SUFFICES ASSUME CredentialsInv PROVE CredentialsGenuine
    OBVIOUS
  <2>1. ASSUME NEW k \in Holders, started[k] # None, started[k].sig.key = started[k].key PROVE VerifyPeer(started[k])
    BY <2>1 DEF CredentialsInv, SignedRecord, VerifyPeer, VerifySignature
  <2> QED
    BY <2>1 DEF CredentialsInv, CredentialsGenuine, IdentityKept
<1> QED
  BY <1>1, <1>2, CredentialsStep, PTL DEF CredentialsSpec
=============================================================================
