------------------------- MODULE BundleServersProofs --------------------------
(***************************************************************************)
(* Proofs about BundleServers, for every set of servers, clients and posts *)
(* and every value of the thresholds, about the stores the servers keep    *)
(* their bundles in (EnvironmentStores) and about the two stores a client  *)
(* may have (StorageBackends).  Each theorem is about the specification of *)
(* one of the three.                                                       *)
(***************************************************************************)
EXTENDS BundleServers, EnvironmentStores, StorageBackends, FiniteSetTheorems, TLAPS

-----------------------------------------------------------------------------
(***************************************************************************)
(* Arithmetic of the u8 counters and sizes of sets of posts.               *)
(***************************************************************************)

\* A counter reduced to a u8 is a u8.
LEMMA ModType == \A n \in Nat : n % U8 \in 0 .. (U8 - 1)
BY DEF U8

\* Incrementing a wrapped counter wraps like incrementing the counter itself:
\* num_posts += 1 and encoded_post_ids.len() as u8 agree.
LEMMA ModIncrement == \A n \in Nat : ((n % U8) + 1) % U8 = (n + 1) % U8
BY DEF U8

\* Every set of posts is finite.
LEMMA PostsFinite == \A S \in SUBSET Post : IsFiniteSet(S) /\ Cardinality(S) \in Nat
BY BoundsAssumption, FS_Subset, FS_CardinalityType

-----------------------------------------------------------------------------
(***************************************************************************)
(* Ranks.  Where the elements of a finite set come in an order, the number  *)
(* of those before an element tells it from every other.                   *)
(***************************************************************************)
\* below[k] is what comes before k.
Orders(D, below) ==
  /\ below \in [D -> SUBSET D]
  /\ \A k \in D : k \notin below[k]
  /\ \A k, l \in D : k \in below[l] => below[k] \subseteq below[l]
  /\ \A k, l \in D : k = l \/ k \in below[l] \/ l \in below[k]

LEMMA RankGrows ==
  ASSUME NEW D, IsFiniteSet(D), NEW below, Orders(D, below), NEW k \in D, NEW l \in D
  PROVE  /\ Cardinality(below[k]) \in 0 .. Cardinality(D) - 1
         /\ k \in below[l] <=> Cardinality(below[k]) < Cardinality(below[l])
<1>1. ASSUME NEW x \in D PROVE IsFiniteSet(below[x]) /\ Cardinality(below[x]) \in Nat /\ below[x] \subseteq D
  <2>1. below[x] \in SUBSET D
    BY DEF Orders
  <2> QED
    BY <2>1, FS_Subset, FS_CardinalityType
<1>2. ASSUME NEW x \in D, NEW y \in D, x \in below[y] PROVE Cardinality(below[x]) < Cardinality(below[y])
  <2>1. below[x] \in SUBSET below[y] /\ below[x] # below[y]
    BY <1>2 DEF Orders
  <2>2. Cardinality(below[x]) <= Cardinality(below[y]) /\ Cardinality(below[x]) # Cardinality(below[y])
    BY <1>1, <2>1, FS_Subset
  <2> QED
    BY <1>1, <2>2
<1>3. Cardinality(below[k]) < Cardinality(D)
  <2>1. below[k] \in SUBSET D /\ below[k] # D
    BY DEF Orders
  <2>2. Cardinality(below[k]) <= Cardinality(D) /\ Cardinality(below[k]) # Cardinality(D)
    BY <2>1, FS_Subset
  <2> QED
    BY <1>1, <2>2, FS_CardinalityType
<1>4. Cardinality(below[k]) \in 0 .. Cardinality(D) - 1
  BY <1>1, <1>3, FS_CardinalityType
<1>5. k = l \/ k \in below[l] \/ l \in below[k]
  BY DEF Orders
<1> QED
  BY <1>1, <1>2, <1>4, <1>5

\* The elements with the lowest ranks are as many as there are ranks.
LEMMA LowRanks ==
  ASSUME NEW D, IsFiniteSet(D), NEW below, Orders(D, below), NEW m \in Nat, m <= Cardinality(D)
  PROVE  Cardinality({k \in D : Cardinality(below[k]) < m}) = m
<1> DEFINE n == Cardinality(D)
           V == {k \in D : Cardinality(below[k]) < m}
           rank == [k \in D |-> Cardinality(below[k])]
           low == [k \in V |-> Cardinality(below[k])]
<1>1. \A k, l \in D : rank[k] \in 0 .. n - 1 /\ (k \in below[l] <=> rank[k] < rank[l])
  BY RankGrows
<1>2. \A k, l \in D : k = l \/ k \in below[l] \/ l \in below[k]
  BY DEF Orders
<1>3. n \in Nat
  BY FS_CardinalityType
<1>4. \A k, l \in D : rank[k] = rank[l] => k = l
  BY <1>1, <1>2
<1>5. rank \in Injection(D, 0 .. n - 1)
  <2>1. rank \in [D -> 0 .. n - 1]
    BY <1>1
  <2> HIDE DEF rank
  <2> QED
    BY <1>4, <2>1 DEF Injection, IsInjective
<1>6. IsFiniteSet(0 .. n - 1) /\ Cardinality(0 .. n - 1) = n
  <2> HIDE DEF n
  <2>1. 0 \in Int /\ n - 1 \in Int /\ (0 > n - 1 => n = 0)
    BY <1>3
  <2>2. IsFiniteSet(0 .. n - 1) /\ Cardinality(0 .. n - 1) = IF 0 > n - 1 THEN 0 ELSE n - 1 - 0 + 1
    BY <2>1, FS_Interval
  <2> QED
    BY <1>3, <2>1, <2>2
<1>7. rank \in Surjection(D, 0 .. n - 1)
  BY <1>5, <1>6, FS_Injection
<1>8. \A r \in 0 .. m - 1 : \E k \in V : low[k] = r
  <2> TAKE r \in 0 .. m - 1
  <2>1. r \in 0 .. n - 1 /\ r < m
    BY <1>3
  <2>2. PICK k \in D : rank[k] = r
    BY <1>7, <2>1 DEF Surjection
  <2> QED
    BY <2>1, <2>2
<1>9. low \in Bijection(V, 0 .. m - 1)
  <2>1. \A k \in V : low[k] \in 0 .. m - 1
    <3> TAKE k \in V
    <3>1. rank[k] \in 0 .. n - 1 /\ low[k] = rank[k] /\ low[k] < m
      BY <1>1
    <3> QED
      BY <1>3, <3>1
  <2>2. low \in [V -> 0 .. m - 1]
    BY <2>1
  <2>3. \A k, l \in V : low[k] = low[l] => k = l
    BY <1>4
  <2> HIDE DEF low, V
  <2> QED
    BY <1>8, <2>2, <2>3 DEF Bijection, Injection, Surjection, IsInjective
<1>10. IsFiniteSet(V)
  <2>1. V \in SUBSET D
    OBVIOUS
  <2> QED
    BY <2>1, FS_Subset
<1>11. ExistsBijection(V, 0 .. m - 1)
  BY <1>9 DEF ExistsBijection
<1>12. Cardinality(0 .. m - 1) = m
  BY FS_Interval
<1> QED
  BY <1>10, <1>11, <1>12, FS_Bijection

-----------------------------------------------------------------------------
(***************************************************************************)
(* What the operators of PostBundle return.                                *)
(***************************************************************************)

\* The two Option types are disjoint unions.
LEMMA NoneDistinct ==
    /\ \A m \in Metadata : m # None
    /\ \A h \in Header : h # None
BY NoneAssumption

\* The defaults the handlers start from have the right type.
LEMMA DefaultTypes ==
    /\ ZeroMetadata \in Metadata
    /\ \A o, z \in BOOLEAN : /\ EmptyHeader(o, z) \in Header
                             /\ HeaderVerifies(EmptyHeader(o, z))
                             /\ EmptyHeader(o, z).ids = {}
BY FS_EmptySet DEF ZeroMetadata, EmptyHeader, Metadata, Header, HeaderVerifies, U8

\* Updating fields of a header with values of their types gives a header.
LEMMA HeaderUpdate ==
    ASSUME NEW h \in Header, NEW n \in 0 .. (U8 - 1), NEW ids \in SUBSET Post,
           NEW l \in Nat, NEW o \in BOOLEAN, NEW z \in BOOLEAN,
           NEW healed \in SUBSET Post
    PROVE  /\ [h EXCEPT !.num_posts = n, !.overflowed = o, !.sealed = z,
                         !.ids = ids, !.len = l] \in Header
           /\ [h EXCEPT !.num_posts = n, !.ids = ids, !.len = l,
                         !.healed = healed] \in Header
           /\ [h EXCEPT !.sealed = z] \in Header
BY DEF Header

\* Sealing a header again changes nothing that is verified.
LEMMA ResealedHeader ==
    ASSUME NEW h \in Header
    PROVE  LET r == [h EXCEPT !.sealed = TRUE]
           IN  /\ r \in Header
               /\ r.ids = h.ids /\ r.sealed
               /\ HeaderVerifies(h) => HeaderVerifies(r)
<1> DEFINE r == [h EXCEPT !.sealed = TRUE]
<1>1. r \in Header
  BY DEF Header
<1>2. r.ids = h.ids /\ r.len = h.len /\ r.num_posts = h.num_posts
      /\ r.healed = h.healed /\ r.sealed
  BY DEF Header
<1> HIDE DEF r
<1> QED
  BY <1>1, <1>2 DEF HeaderVerifies, r

\* Sealing a metadata row changes nothing else.
LEMMA ResealedMetadata ==
    ASSUME NEW m \in Metadata
    PROVE  LET r == [m EXCEPT !.sealed = TRUE]
           IN  /\ r \in Metadata
               /\ r.num_posts_granted = m.num_posts_granted
               /\ r.sealed
BY DEF Metadata

\* A claim keeps the granted count within one of its limit, and seals when it
\* passes the limit.
LEMMA ClaimMetadataLemma ==
    ASSUME NEW m \in Metadata, NEW t \in Nat,
           m.num_posts_granted <= MaxGranted + 1,
           m.num_posts_granted > MaxGranted => m.sealed
    PROVE  LET n == ClaimMetadata(m, t)
           IN  /\ n \in Metadata
               /\ n.num_posts_granted <= MaxGranted + 1
               /\ n.num_posts_granted > MaxGranted => n.sealed
               /\ m.sealed => n = m
               /\ ~m.sealed => n.num_posts_granted = m.num_posts_granted + 1
<1> DEFINE granted == (m.num_posts_granted + 1) % U8
           o == Overflowed(m.num_posts, granted)
           z == o \/ Elapsed(t)
           n == ClaimMetadata(m, t)
<1>1. CASE m.sealed
  BY <1>1 DEF ClaimMetadata
<1>2. CASE ~m.sealed
  <2>1. m.num_posts_granted \in Nat /\ m.num_posts_granted <= MaxGranted
    BY <1>2, BoundsAssumption DEF Metadata
  <2>2. granted = m.num_posts_granted + 1 /\ granted \in 0 .. (U8 - 1)
    BY <2>1, BoundsAssumption DEF U8
  <2>3. n = [m EXCEPT !.num_posts_granted = granted, !.overflowed = o, !.sealed = z]
    BY <1>2 DEF ClaimMetadata
  <2>4. o \in BOOLEAN /\ z \in BOOLEAN
    BY DEF Overflowed, Elapsed
  <2>5. granted > MaxGranted => o
    BY DEF Overflowed
  <2> HIDE DEF o, z, granted, n
  <2>6. n \in Metadata /\ n.num_posts_granted = granted /\ n.sealed = z
    BY <2>2, <2>3, <2>4 DEF Metadata
  <2>7. granted > MaxGranted => z
    BY <2>5 DEF z
  <2> QED
    BY <1>2, <2>1, <2>2, <2>6, <2>7, BoundsAssumption DEF n
<1> QED
  BY <1>1, <1>2

\* A commit pushes exactly one new post and keeps the header verifiable.
LEMMA CommitHeaderLemma ==
    ASSUME NEW h \in Header, HeaderVerifies(h), NEW m \in Metadata,
           NEW p \in Post, p \notin h.ids, NEW t \in Nat
    PROVE  LET g == CommitHeader(h, m, p, t)
           IN  /\ g \in Header
               /\ HeaderVerifies(g)
               /\ g.ids = h.ids \cup {p}
               /\ g.overflowed = Overflowed(g.num_posts, m.num_posts_granted)
               /\ g.sealed = (g.overflowed \/ Elapsed(t))
<1> DEFINE n == (h.num_posts + 1) % U8
           o == Overflowed(n, m.num_posts_granted)
           z == o \/ Elapsed(t)
           g == CommitHeader(h, m, p, t)
<1>a. g = [h EXCEPT !.num_posts = n, !.overflowed = o, !.sealed = z,
                    !.ids = h.ids \cup {p}, !.len = h.len + 1]
  BY DEF CommitHeader
<1>b. o \in BOOLEAN /\ z \in BOOLEAN
  BY DEF Overflowed, Elapsed
<1>c. n = (h.num_posts + 1) % U8
  OBVIOUS
<1>d. o = Overflowed(n, m.num_posts_granted) /\ z = (o \/ Elapsed(t))
  OBVIOUS
<1> HIDE DEF n, o, z, g
<1>1. /\ g.ids = h.ids \cup {p} /\ g.len = h.len + 1 /\ g.healed = h.healed
      /\ g.num_posts = n /\ g.overflowed = o /\ g.sealed = z
  BY <1>a DEF Header
<1>2. h.ids \in SUBSET Post /\ h.len \in Nat /\ h.num_posts = h.len % U8
  BY DEF Header, HeaderVerifies
<1>3. Cardinality(h.ids \cup {p}) = h.len + 1
  BY <1>2, PostsFinite, FS_AddElement DEF HeaderVerifies
<1>4. g.num_posts = g.len % U8 /\ g.num_posts \in 0 .. (U8 - 1)
  BY <1>1, <1>2, <1>c, ModIncrement, ModType
<1>5. HeaderVerifies(g)
  BY <1>1, <1>3, <1>4 DEF HeaderVerifies
<1>6. g \in Header
  <2>1. h.ids \cup {p} \in SUBSET Post /\ h.len + 1 \in Nat /\ n \in 0 .. (U8 - 1)
    BY <1>1, <1>2, <1>4
  <2>2. [h EXCEPT !.num_posts = n, !.overflowed = o, !.sealed = z,
                  !.ids = h.ids \cup {p}, !.len = h.len + 1] \in Header
    BY <1>b, <2>1 DEF Header
  <2> QED
    BY <1>a, <2>2
<1> QED
  BY <1>1, <1>5, <1>6, <1>d DEF g

\* A heal pushes exactly the needed posts that are missing and keeps the
\* header verifiable and its flags as they were.
LEMMA HealHeaderLemma ==
    ASSUME NEW h \in Header, HeaderVerifies(h), NEW needed \in SUBSET Post
    PROVE  LET g == HealHeader(h, needed)
           IN  /\ g \in Header
               /\ HeaderVerifies(g)
               /\ g.ids = h.ids \cup needed
               /\ g.sealed = h.sealed
<1> DEFINE g == HealHeader(h, needed)
           missing == HealMissing(h, needed)
           len == h.len + Cardinality(missing)
<1>a. g = [h EXCEPT !.num_posts = len % U8, !.ids = h.ids \cup missing,
                    !.len = len, !.healed = h.healed \cup missing]
  BY DEF HealHeader
<1>b. missing = needed \ h.ids
  BY DEF HealMissing
<1>c. len = h.len + Cardinality(missing)
  OBVIOUS
<1> HIDE DEF g, missing, len
<1>1. g.ids = h.ids \cup missing /\ g.len = h.len + Cardinality(missing)
      /\ g.healed = h.healed \cup missing /\ g.num_posts = g.len % U8
      /\ g.sealed = h.sealed /\ g.overflowed = h.overflowed
  BY <1>a, <1>c DEF Header
<1>2. h.ids \in SUBSET Post /\ h.len \in Nat /\ missing \in SUBSET Post
  BY <1>b DEF Header
<1>3. Cardinality(missing) \in Nat /\ IsFiniteSet(missing) /\ IsFiniteSet(h.ids)
  BY <1>2, PostsFinite
<1>4. h.ids \cap missing = {}
  BY <1>b
<1>5. Cardinality(h.ids \cup missing) = h.len + Cardinality(missing)
  <2>1. Cardinality(h.ids \cup missing)
          = Cardinality(h.ids) + Cardinality(missing) - Cardinality(h.ids \cap missing)
    BY <1>3, FS_Union
  <2>2. Cardinality(h.ids \cap missing) = 0
    BY <1>4, FS_EmptySet
  <2>3. Cardinality(h.ids) = h.len
    BY DEF HeaderVerifies
  <2> QED
    BY <2>1, <2>2, <2>3, <1>2, <1>3
<1>6. g.num_posts \in 0 .. (U8 - 1)
  BY <1>1, <1>2, <1>3, ModType
<1>7. HeaderVerifies(g)
  BY <1>1, <1>5, <1>c DEF HeaderVerifies
<1>8. g \in Header
  <2>1. /\ h.ids \cup missing \in SUBSET Post
        /\ h.healed \cup missing \in SUBSET Post
        /\ len \in Nat
        /\ len % U8 \in 0 .. (U8 - 1)
    BY <1>1, <1>2, <1>3, <1>c, ModType DEF Header
  <2> QED
    BY <1>a, <2>1, HeaderUpdate
<1> QED
  BY <1>1, <1>7, <1>8, <1>b DEF g

\* Updating fields of a metadata row keeps its type and its granted count.
LEMMA MetadataUpdate ==
    ASSUME NEW m \in Metadata, NEW h \in Header
    PROVE  /\ CommitMetadata(m, h) \in Metadata
           /\ CommitMetadata(m, h).num_posts_granted = m.num_posts_granted
           /\ CommitMetadata(m, h).sealed = h.sealed
           /\ HealMetadata(m, h) \in Metadata
           /\ HealMetadata(m, h).num_posts_granted = m.num_posts_granted
           /\ HealMetadata(m, h).sealed = m.sealed
BY DEF Metadata, Header, CommitMetadata, HealMetadata

-----------------------------------------------------------------------------
(***************************************************************************)
(* What the handlers load.                                                 *)
(***************************************************************************)

\* The metadata a handler works with is well-typed and within the grant limit.
LEMMA LoadedMetadata ==
    ASSUME IInv, NEW s \in Server
    PROVE  LET m == StoredMetadata(s)
           IN  /\ m \in Metadata
               /\ m.num_posts_granted <= MaxGranted + 1
               /\ m.num_posts_granted > MaxGranted => m.sealed
               /\ grants[s] <= m.num_posts_granted
               /\ grants[s] <= MaxGranted
               /\ grants[s] \in Nat
<1>1. CASE metadata[s] = None
  <2>1. ZeroMetadata.num_posts_granted = 0 /\ ZeroMetadata \in Metadata
    BY DefaultTypes DEF ZeroMetadata
  <2> QED
    BY <1>1, <2>1, BoundsAssumption DEF StoredMetadata, IInv, GrantsSound
<1>2. CASE metadata[s] # None
  BY <1>2 DEF StoredMetadata, IInv, GrantsSound, TypeOK
<1> QED
  BY <1>1, <1>2

\* The header a handler works with is verifiable and lists accepted posts.
LEMMA LoadedHeader ==
    ASSUME IInv, NEW s \in Server, NEW o \in BOOLEAN, NEW z \in BOOLEAN
    PROVE  LET h == StoredHeader(s, EmptyHeader(o, z))
           IN  /\ h \in Header
               /\ HeaderVerifies(h)
               /\ h.ids = StoredIds(s)
               /\ h.ids \subseteq accepted
<1>1. CASE bundle[s] = None
  BY <1>1, DefaultTypes DEF StoredHeader, StoredIds
<1>2. CASE bundle[s] # None
  BY <1>2 DEF StoredHeader, StoredIds, IInv, TypeOK, HeadersSound, Sound
<1> QED
  BY <1>1, <1>2

-----------------------------------------------------------------------------
(***************************************************************************)
(* Each action preserves the inductive invariant.                          *)
(***************************************************************************)

\* A claim changes one metadata row, the tokens and the count of grants.
LEMMA ClaimPreserves ==
    ASSUME IInv, NEW s \in Server, NEW p \in Post, SubmitPostClaim(s, p)
    PROVE  IInv'
<1> DEFINE m == StoredMetadata(s)
           n == ClaimMetadata(m, now)
<1>1. /\ m \in Metadata
      /\ m.num_posts_granted <= MaxGranted + 1
      /\ m.num_posts_granted > MaxGranted => m.sealed
      /\ grants[s] <= m.num_posts_granted /\ grants[s] <= MaxGranted
      /\ grants[s] \in Nat
  BY LoadedMetadata
<1>2. /\ n \in Metadata
      /\ n.num_posts_granted <= MaxGranted + 1
      /\ n.num_posts_granted > MaxGranted => n.sealed
      /\ m.sealed => n = m
      /\ ~m.sealed => n.num_posts_granted = m.num_posts_granted + 1
  BY <1>1, ClaimMetadataLemma DEF IInv, TypeOK
<1>3. /\ metadata' = [metadata EXCEPT ![s] = IF m.sealed THEN metadata[s] ELSE n]
      /\ claimTokens' = IF n.sealed THEN claimTokens ELSE claimTokens \cup {<<s, p>>}
      /\ grants' = [grants EXCEPT ![s] = IF n.sealed THEN grants[s] ELSE grants[s] + 1]
      /\ UNCHANGED <<now, bundle, healInProgress, healTokens, held, accepted, faults>>
      /\ deleting' = deleting \/ deleting' = [deleting EXCEPT ![s] = FALSE]
  BY DEF SubmitPostClaim, RowsRemovedMeanwhile
<1>4. n # None /\ (m.sealed => metadata[s] = m)
  BY <1>2, NoneDistinct DEF StoredMetadata, ZeroMetadata
<1> HIDE DEF m, n
<1>5. metadata'[s] = IF m.sealed THEN metadata[s] ELSE n
  BY <1>3 DEF IInv, TypeOK
<1>6. grants'[s] = IF n.sealed THEN grants[s] ELSE grants[s] + 1
  BY <1>3 DEF IInv, TypeOK
<1>7. TypeOK'
  <2>1. deleting' \in [Server -> BOOLEAN]
    BY <1>3 DEF IInv, TypeOK
  <2>2. /\ metadata' \in [Server -> Metadata \cup {None}]
        /\ claimTokens' \in SUBSET (Server \X Post)
        /\ grants' \in [Server -> Nat]
    BY <1>1, <1>2, <1>3 DEF IInv, TypeOK
  <2> QED
    BY <1>3, <2>1, <2>2 DEF IInv, TypeOK
<1>8. HeadersSound' /\ TokensSound'
  BY <1>3 DEF IInv, HeadersSound, TokensSound, Sound
<1>9. GrantsSound'
  <2>1. CASE m.sealed
    <3>1. metadata' = metadata /\ grants' = grants
      BY <2>1, <1>2, <1>3 DEF IInv, TypeOK
    <3> QED
      BY <3>1 DEF IInv, GrantsSound
  <2>2. CASE ~m.sealed
    <3>1. metadata'[s] = n /\ grants'[s] <= n.num_posts_granted /\ grants'[s] <= MaxGranted
      BY <2>2, <1>1, <1>2, <1>5, <1>6, BoundsAssumption DEF Metadata
    <3>2. \A r \in Server \ {s} : metadata'[r] = metadata[r] /\ grants'[r] = grants[r]
      BY <1>3 DEF IInv, TypeOK
    <3> QED
      BY <3>1, <3>2, <1>2, <1>4 DEF IInv, GrantsSound
  <2> QED
    BY <2>1, <2>2
<1> QED
  BY <1>7, <1>8, <1>9 DEF IInv

\* Writing a sound bundle, and then a row that keeps the granted count and is
\* sealed when the count is past its limit, preserves the invariant.
LEMMA PutPreserves ==
    ASSUME IInv, NEW s \in Server, NEW h \in Header \cup {None}, NEW m \in Metadata,
           PutBundleAndMetadata(s, h, m),
           Sound(h, accepted'),
           m.num_posts_granted = StoredMetadata(s).num_posts_granted,
           StoredMetadata(s).num_posts_granted > MaxGranted => m.sealed,
           healInProgress' \in [Server -> BOOLEAN],
           accepted \subseteq accepted', accepted' \in SUBSET Post,
           held' \in [Client -> Header \cup {None}],
           \A c \in Client : Sound(held'[c], accepted'),
           UNCHANGED <<now, tokens, grants>>
    PROVE  IInv'
<1>1. /\ bundle' = [bundle EXCEPT ![s] = h]
      /\ metadata' = [metadata EXCEPT ![s] = m]
      /\ UNCHANGED <<now, claimTokens, healTokens, grants>>
  BY DEF PutBundleAndMetadata, tokens
<1>a. deleting' \in [Server -> BOOLEAN] /\ faults' \in 0 .. MaxFaults
  <2>1. CASE UNCHANGED <<deleting, faults>>
    BY <2>1 DEF IInv, TypeOK
  <2>2. CASE FileRemovedMeanwhile(s)
    BY <2>2, ClockAssumption DEF FileRemovedMeanwhile, Fault, IInv, TypeOK
  <2>3. CASE RowsRemovedMeanwhile(s)
    BY <2>3 DEF RowsRemovedMeanwhile, IInv, TypeOK
  <2> QED
    BY <2>1, <2>2, <2>3 DEF PutBundleAndMetadata
<1>2. TypeOK'
  BY <1>1, <1>a DEF IInv, TypeOK
<1>3. HeadersSound'
  <2>1. bundle'[s] = h /\ \A r \in Server \ {s} : bundle'[r] = bundle[r]
    BY <1>1 DEF IInv, TypeOK
  <2> QED
    BY <2>1 DEF IInv, HeadersSound, Sound
<1>4. TokensSound'
  BY <1>1 DEF IInv, TokensSound
<1>5. GrantsSound'
  <2>1. /\ metadata'[s] = m /\ m # None
        /\ \A r \in Server \ {s} : metadata'[r] = metadata[r]
    BY <1>1, NoneDistinct DEF IInv, TypeOK
  <2>2. /\ StoredMetadata(s).num_posts_granted <= MaxGranted + 1
        /\ grants[s] <= StoredMetadata(s).num_posts_granted
        /\ grants[s] <= MaxGranted
    BY LoadedMetadata
  <2> QED
    BY <1>1, <2>1, <2>2 DEF IInv, GrantsSound
<1> QED
  BY <1>2, <1>3, <1>4, <1>5 DEF IInv

\* A crash after the bundle file was written preserves the invariant.
LEMMA CrashPreserves ==
    ASSUME IInv, NEW s \in Server, NEW h \in Header,
           CrashAfterBundlePut(s, h),
           Sound(h, accepted'),
           accepted \subseteq accepted', accepted' \in SUBSET Post,
           UNCHANGED <<now, tokens, held, grants>>
    PROVE  IInv'
<1>1. /\ bundle' = [bundle EXCEPT ![s] = h]
      /\ healInProgress' = [healInProgress EXCEPT ![s] = FALSE]
      /\ deleting' = [deleting EXCEPT ![s] = FALSE]
      /\ faults < MaxFaults /\ faults' = faults + 1
      /\ UNCHANGED <<metadata, now, claimTokens, healTokens, held, grants>>
  BY DEF CrashAfterBundlePut, Fault, tokens
<1>2. TypeOK'
  BY <1>1, ClockAssumption DEF IInv, TypeOK
<1>3. HeadersSound'
  <2>1. bundle'[s] = h /\ \A r \in Server \ {s} : bundle'[r] = bundle[r]
    BY <1>1 DEF IInv, TypeOK
  <2> QED
    BY <1>1, <2>1 DEF IInv, HeadersSound, Sound
<1>4. TokensSound' /\ GrantsSound'
  BY <1>1 DEF IInv, TokensSound, GrantsSound
<1> QED
  BY <1>2, <1>3, <1>4 DEF IInv

\* A commit stores a header with one more, now accepted, post.
LEMMA CommitPreserves ==
    ASSUME IInv, NEW s \in Server, NEW p \in Post, SubmitPostCommit(s, p)
    PROVE  IInv'
<1> DEFINE m == StoredMetadata(s)
           old == StoredHeader(s, EmptyHeader(FALSE, FALSE))
           h == CommitHeader(old, m, p, now)
<1>1. old \in Header /\ HeaderVerifies(old) /\ old.ids \subseteq accepted
  BY LoadedHeader
<1>2. m \in Metadata
  BY LoadedMetadata
<1>3. /\ p \notin old.ids
      /\ \/ PutBundleAndMetadata(s, h, CommitMetadata(m, h)) /\ UNCHANGED healInProgress
         \/ CrashAfterBundlePut(s, h)
      /\ accepted' = accepted \cup {p}
      /\ UNCHANGED <<now, tokens, held, grants>>
  BY DEF SubmitPostCommit
<1> HIDE DEF m, old
<1>a. now \in Nat
  BY DEF IInv, TypeOK
<1>4. /\ h \in Header /\ HeaderVerifies(h) /\ h.ids = old.ids \cup {p}
      /\ h.overflowed = Overflowed(h.num_posts, m.num_posts_granted)
      /\ h.sealed = (h.overflowed \/ Elapsed(now))
  BY <1>a, <1>1, <1>2, <1>3, CommitHeaderLemma
<1> HIDE DEF h
<1>5. m.num_posts_granted > MaxGranted => h.sealed
  BY <1>4 DEF Overflowed
<1>6. Sound(h, accepted')
  BY <1>1, <1>3, <1>4 DEF Sound
<1>7. accepted' \in SUBSET Post /\ accepted \subseteq accepted'
  BY <1>3 DEF IInv, TypeOK
<1>8. /\ held' \in [Client -> Header \cup {None}]
      /\ healInProgress \in [Server -> BOOLEAN]
      /\ \A c \in Client : Sound(held'[c], accepted')
  BY <1>3, <1>7 DEF IInv, TypeOK, HeadersSound, Sound
<1>9. /\ CommitMetadata(m, h) \in Metadata
      /\ CommitMetadata(m, h).num_posts_granted = m.num_posts_granted
      /\ CommitMetadata(m, h).sealed = h.sealed
  BY <1>2, <1>4, MetadataUpdate
<1>10. CASE PutBundleAndMetadata(s, h, CommitMetadata(m, h)) /\ UNCHANGED healInProgress
  BY <1>3, <1>4, <1>5, <1>6, <1>7, <1>8, <1>9, <1>10, PutPreserves DEF m
<1>11. CASE CrashAfterBundlePut(s, h)
  BY <1>3, <1>4, <1>6, <1>7, <1>11, CrashPreserves
<1> QED
  BY <1>3, <1>10, <1>11

\* A GET hands out a sound header, and re-seals the stored one when it is time.
LEMMA GetPreserves ==
    ASSUME IInv, NEW c \in Client, NEW s \in Server, GetPostBundle(c, s)
    PROVE  IInv'
<1> DEFINE m == metadata[s]
           h == bundle[s]
           fresh == EmptyHeader(FALSE, Elapsed(now))
           resealed == [h EXCEPT !.sealed = TRUE]
           sealNow == m # None /\ ~m.sealed /\ Elapsed(now)
           response == IF m = None \/ h = None THEN fresh
                       ELSE IF sealNow THEN resealed ELSE h
           stored == IF h = None THEN None ELSE resealed
<1>1. /\ \/ ~sealNow /\ held' = [held EXCEPT ![c] = response]
            /\ UNCHANGED <<stores, healInProgress, deleting, faults>>
         \/ sealNow /\ held' = [held EXCEPT ![c] = response]
            /\ PutBundleAndMetadata(s, stored, [m EXCEPT !.sealed = TRUE])
            /\ UNCHANGED healInProgress
         \/ h # None /\ CrashAfterBundlePut(s, resealed) /\ UNCHANGED held
      /\ UNCHANGED <<now, tokens, history>>
  BY DEF GetPostBundle
<1>2. fresh \in Header /\ Sound(fresh, accepted)
  <2>1. Elapsed(now) \in BOOLEAN
    BY DEF Elapsed
  <2> QED
    BY <2>1, DefaultTypes DEF Sound
<1>3. h # None => /\ h \in Header /\ Sound(h, accepted)
                  /\ resealed \in Header /\ Sound(resealed, accepted)
  <2>1. h \in Header \cup {None} /\ Sound(h, accepted)
    BY DEF IInv, TypeOK, HeadersSound
  <2> HIDE DEF h
  <2> SUFFICES ASSUME h # None
               PROVE  h \in Header /\ Sound(h, accepted)
                      /\ resealed \in Header /\ Sound(resealed, accepted)
    OBVIOUS
  <2>2. h \in Header /\ HeaderVerifies(h) /\ h.ids \subseteq accepted
    BY <2>1 DEF Sound
  <2>3. resealed \in Header /\ resealed.ids = h.ids /\ HeaderVerifies(resealed)
    BY <2>2, ResealedHeader
  <2> QED
    BY <2>1, <2>2, <2>3 DEF Sound
<1>4. m # None => /\ m \in Metadata /\ m = StoredMetadata(s)
                  /\ [m EXCEPT !.sealed = TRUE] \in Metadata
                  /\ [m EXCEPT !.sealed = TRUE].num_posts_granted = m.num_posts_granted
                  /\ [m EXCEPT !.sealed = TRUE].sealed
  <2>1. m \in Metadata \cup {None}
    BY DEF IInv, TypeOK
  <2>2. m # None => m = StoredMetadata(s)
    BY DEF StoredMetadata
  <2> HIDE DEF m
  <2> QED
    BY <2>1, <2>2, ResealedMetadata
<1>5. response \in Header /\ Sound(response, accepted)
  BY <1>2, <1>3
<1>6. UNCHANGED <<accepted, grants>> /\ accepted \in SUBSET Post
  BY <1>1 DEF history, IInv, TypeOK
<1>7. ASSUME held' = [held EXCEPT ![c] = response]
      PROVE  /\ held' \in [Client -> Header \cup {None}]
             /\ \A d \in Client : Sound(held'[d], accepted')
  <2> HIDE DEF response
  <2> QED
    BY <1>5, <1>6, <1>7 DEF IInv, TypeOK, HeadersSound
<1>8. CASE ~sealNow /\ held' = [held EXCEPT ![c] = response]
           /\ UNCHANGED <<stores, healInProgress, deleting, faults>>
  <2> HIDE DEF response
  <2>1. UNCHANGED <<metadata, bundle, claimTokens, healTokens, now, healInProgress,
                    deleting, faults, accepted, grants>>
    BY <1>1, <1>6, <1>8 DEF stores, tokens
  <2>2. TypeOK' /\ HeadersSound' /\ TokensSound' /\ GrantsSound'
    BY <1>7, <1>8, <2>1 DEF IInv, TypeOK, HeadersSound, TokensSound, GrantsSound
  <2> QED
    BY <2>2 DEF IInv
<1>9. CASE sealNow /\ held' = [held EXCEPT ![c] = response]
           /\ PutBundleAndMetadata(s, stored, [m EXCEPT !.sealed = TRUE])
           /\ UNCHANGED healInProgress
  <2>1. stored \in Header \cup {None} /\ Sound(stored, accepted')
    BY <1>3, <1>6 DEF Sound
  <2>2. m # None
    BY <1>9
  <2>3. healInProgress' \in [Server -> BOOLEAN]
    BY <1>9 DEF IInv, TypeOK
  <2> HIDE DEF response, stored, m, h
  <2> QED
    BY <1>1, <1>4, <1>6, <1>7, <1>9, <2>1, <2>2, <2>3, PutPreserves
<1>10. CASE h # None /\ CrashAfterBundlePut(s, resealed) /\ UNCHANGED held
  <2> HIDE DEF resealed, m, h
  <2> QED
    BY <1>1, <1>3, <1>6, <1>10, CrashPreserves
<1> QED
  BY <1>1, <1>8, <1>9, <1>10

\* A heal token names posts of a header a client holds.
LEMMA HealClaimPreserves ==
    ASSUME IInv, NEW c \in Client, NEW s \in Server, HealPostBundleClaim(c, s)
    PROVE  IInv'
<1> DEFINE needed == held[c].ids \ StoredIds(s)
           t == [server |-> s, needed |-> needed,
                 overflowed |-> held[c].overflowed, sealed |-> held[c].sealed]
<1>1. /\ held[c] # None
      /\ healInProgress' = [healInProgress EXCEPT ![s] = TRUE]
      /\ healTokens' = healTokens \cup {t}
      /\ UNCHANGED <<now, metadata, bundle, deleting, claimTokens, held, accepted,
                     grants, faults>>
  BY DEF HealPostBundleClaim, stores, history
<1>2. held[c] \in Header /\ held[c].ids \subseteq accepted
  BY <1>1 DEF IInv, TypeOK, HeadersSound, Sound
<1>3. t \in HealToken /\ t.needed \subseteq accepted
  BY <1>2 DEF Header, HealToken
<1> HIDE DEF t
<1>4. TypeOK' /\ HeadersSound' /\ TokensSound' /\ GrantsSound'
  BY <1>1, <1>3 DEF IInv, TypeOK, HeadersSound, TokensSound, GrantsSound
<1> QED
  BY <1>4 DEF IInv

\* A heal commit stores a header with the token's posts added.
LEMMA HealCommitPreserves ==
    ASSUME IInv, NEW t \in healTokens, HealPostBundleCommit(t)
    PROVE  IInv'
<1> DEFINE s == t.server
           m == StoredMetadata(s)
           old == StoredHeader(s, EmptyHeader(t.overflowed, t.sealed))
           h == HealHeader(old, t.needed)
<1>1. /\ s \in Server /\ t.needed \in SUBSET Post /\ t.needed \subseteq accepted
      /\ t.overflowed \in BOOLEAN /\ t.sealed \in BOOLEAN
  BY DEF IInv, TypeOK, HealToken, TokensSound
<1>2. /\ \/ /\ PutBundleAndMetadata(s, h, HealMetadata(m, h))
            /\ healInProgress' = [healInProgress EXCEPT ![s] = FALSE]
         \/ CrashAfterBundlePut(s, h)
         \/ /\ healInProgress' = [healInProgress EXCEPT ![s] = FALSE]
            /\ UNCHANGED <<stores, deleting, faults>>
      /\ UNCHANGED <<now, tokens, held, history>>
  BY DEF HealPostBundleCommit
<1> HIDE DEF s
<1>3. old \in Header /\ HeaderVerifies(old) /\ old.ids \subseteq accepted
  BY <1>1, LoadedHeader
<1>4. m \in Metadata /\ (m.num_posts_granted > MaxGranted => m.sealed)
  BY <1>1, LoadedMetadata
<1> HIDE DEF m, old
<1>5. h \in Header /\ HeaderVerifies(h) /\ h.ids = old.ids \cup t.needed
  BY <1>1, <1>3, HealHeaderLemma
<1> HIDE DEF h
<1>6. /\ UNCHANGED <<accepted, grants>> /\ accepted \in SUBSET Post
      /\ Sound(h, accepted')
  BY <1>1, <1>2, <1>3, <1>5 DEF history, Sound, IInv, TypeOK
<1>7. /\ HealMetadata(m, h) \in Metadata
      /\ HealMetadata(m, h).num_posts_granted = m.num_posts_granted
      /\ HealMetadata(m, h).sealed = m.sealed
  BY <1>4, <1>5, MetadataUpdate
<1>8. held' \in [Client -> Header \cup {None}] /\ \A c \in Client : Sound(held'[c], accepted')
  BY <1>2, <1>6 DEF IInv, TypeOK, HeadersSound
<1>9. CASE /\ PutBundleAndMetadata(s, h, HealMetadata(m, h))
           /\ healInProgress' = [healInProgress EXCEPT ![s] = FALSE]
  <2>1. healInProgress' \in [Server -> BOOLEAN]
    BY <1>1, <1>9 DEF IInv, TypeOK
  <2> QED
    BY <1>1, <1>2, <1>4, <1>5, <1>6, <1>7, <1>8, <1>9, <2>1, PutPreserves DEF m
<1>10. CASE CrashAfterBundlePut(s, h)
  BY <1>1, <1>2, <1>5, <1>6, <1>10, CrashPreserves
<1>11. CASE /\ healInProgress' = [healInProgress EXCEPT ![s] = FALSE]
            /\ UNCHANGED <<stores, deleting, faults>>
  <2>1. UNCHANGED <<metadata, bundle, claimTokens, healTokens, now, held, deleting,
                    faults, accepted, grants>>
    BY <1>2, <1>6, <1>11 DEF stores, tokens
  <2>2. TypeOK' /\ HeadersSound' /\ TokensSound' /\ GrantsSound'
    BY <1>1, <1>11, <2>1 DEF IInv, TypeOK, HeadersSound, TokensSound, GrantsSound
  <2> QED
    BY <2>2 DEF IInv
<1> QED
  BY <1>2, <1>9, <1>10, <1>11

\* The steps outside the handlers: expiry, decimation, restart and the clock.
LEMMA BackgroundPreserves ==
    ASSUME IInv,
           \/ \E s \in Server : \/ HealInProgressExpires(s) \/ DecimateBundle(s)
                                \/ DecimateMetadata(s) \/ Restart(s)
           \/ Tick
    PROVE  IInv'
<1> USE DEF stores, tokens, history, Fault
<1>1. ASSUME NEW s \in Server, HealInProgressExpires(s)
      PROVE  IInv'
  BY <1>1, ClockAssumption DEF HealInProgressExpires, IInv, TypeOK, HeadersSound, TokensSound, GrantsSound
<1>2. ASSUME NEW s \in Server, DecimateBundle(s)
      PROVE  IInv'
  <2>1. TypeOK' /\ TokensSound' /\ GrantsSound'
    BY <1>2, ClockAssumption DEF DecimateBundle, IInv, TypeOK, TokensSound, GrantsSound
  <2>2. HeadersSound'
    BY <1>2 DEF DecimateBundle, IInv, TypeOK, HeadersSound, Sound
  <2> QED
    BY <2>1, <2>2 DEF IInv
<1>3. ASSUME NEW s \in Server, DecimateMetadata(s)
      PROVE  IInv'
  <2>1. TypeOK' /\ TokensSound' /\ HeadersSound'
    BY <1>3 DEF DecimateMetadata, IInv, TypeOK, TokensSound, HeadersSound
  <2>2. GrantsSound'
    BY <1>3 DEF DecimateMetadata, IInv, TypeOK, GrantsSound
  <2> QED
    BY <2>1, <2>2 DEF IInv
<1>4. ASSUME NEW s \in Server, Restart(s)
      PROVE  IInv'
  BY <1>4, ClockAssumption DEF Restart, IInv, TypeOK, HeadersSound, TokensSound, GrantsSound
<1>5. CASE Tick
  BY <1>5 DEF Tick, IInv, TypeOK, HeadersSound, TokensSound, GrantsSound
<1> QED
  BY <1>1, <1>2, <1>3, <1>4, <1>5
-----------------------------------------------------------------------------
(***************************************************************************)
(* The theorems.                                                           *)
(***************************************************************************)

\* The empty store satisfies the inductive invariant.
LEMMA InitIInv == Init => IInv
<1> SUFFICES ASSUME Init PROVE IInv
  OBVIOUS
<1>1. TypeOK
  BY ClockAssumption DEF Init, TypeOK
<1>2. HeadersSound /\ TokensSound /\ GrantsSound
  BY DEF Init, HeadersSound, Sound, TokensSound, GrantsSound
<1> QED
  BY <1>1, <1>2 DEF IInv

\* Every step of the system preserves the inductive invariant.
LEMMA NextIInv == IInv /\ [Next]_vars => IInv'
<1> SUFFICES ASSUME IInv, [Next]_vars PROVE IInv'
  OBVIOUS
<1>1. ASSUME NEW s \in Server, NEW p \in Post, SubmitPostClaim(s, p) PROVE IInv'
  BY <1>1, ClaimPreserves
<1>2. ASSUME NEW s \in Server, NEW p \in Post, SubmitPostCommit(s, p) PROVE IInv'
  BY <1>2, CommitPreserves
<1>3. ASSUME NEW s \in Server, NEW c \in Client, GetPostBundle(c, s) PROVE IInv'
  BY <1>3, GetPreserves
<1>4. ASSUME NEW s \in Server, NEW c \in Client, HealPostBundleClaim(c, s) PROVE IInv'
  BY <1>4, HealClaimPreserves
<1>5. ASSUME NEW t \in healTokens, HealPostBundleCommit(t) PROVE IInv'
  BY <1>5, HealCommitPreserves
<1>6. CASE \/ \E s \in Server : \/ HealInProgressExpires(s) \/ DecimateBundle(s)
                                 \/ DecimateMetadata(s) \/ Restart(s)
           \/ Tick
  BY <1>6, BackgroundPreserves
<1>7. CASE UNCHANGED vars
  BY <1>7 DEF vars, IInv, TypeOK, HeadersSound, TokensSound, GrantsSound
<1> QED
  BY <1>1, <1>2, <1>3, <1>4, <1>5, <1>6, <1>7 DEF Next

\* The inductive invariant holds throughout.
THEOREM Inductive == Spec => []IInv
BY InitIInv, NextIInv, PTL DEF Spec

\* Every value the handlers store or hand out has its type: in particular the
\* wrapped u8 counts stay u8s and no header is left half-written.
THEOREM TypeCorrect == Spec => []TypeOK
<1>1. IInv => TypeOK
  BY DEF IInv
<1> QED
  BY <1>1, Inductive, PTL

\* Every header a server stores or a client holds verifies and lists no post
\* twice, for any number of servers, clients and posts, any age and reuse of
\* tokens, and crashes and decimations anywhere between two writes.
THEOREM HeadersAlwaysVerify == Spec => []HeadersVerify
<1>1. IInv => HeadersVerify
  BY DEF IInv, HeadersSound, Sound, HeadersVerify, Headers
<1> QED
  BY <1>1, Inductive, PTL

\* A metadata row never grants more tokens than its limit, and its u8 count
\* never wraps.
THEOREM GrantsAlwaysBounded == Spec => []GrantsBounded
<1>1. IInv => GrantsBounded
  BY BoundsAssumption DEF IInv, GrantsSound, GrantsBounded
<1> QED
  BY <1>1, Inductive, PTL
-----------------------------------------------------------------------------
(***************************************************************************)
(* What one step does to the stored posts, from which the action           *)
(* properties and the refinement follow.                                   *)
(***************************************************************************)

\* The abstract state: the posts each server stores.
Stored == [s \in Server |-> StoredIds(s)]

\* Writing the bundle of one server changes its stored posts only.
LEMMA StoredAfterPut ==
    ASSUME IInv, NEW s \in Server, NEW h \in Header \cup {None},
           bundle' = [bundle EXCEPT ![s] = h]
    PROVE  Stored' = [Stored EXCEPT ![s] = IF h = None THEN {} ELSE h.ids]
<1> DEFINE ids == IF h = None THEN {} ELSE h.ids
<1>1. bundle'[s] = h /\ \A r \in Server : r # s => bundle'[r] = bundle[r]
  BY DEF IInv, TypeOK
<1>2. StoredIds(s)' = ids
  BY <1>1 DEF StoredIds
<1>3. \A r \in Server : r # s => StoredIds(r)' = StoredIds(r)
  BY <1>1 DEF StoredIds
<1>4. Stored' = [r \in Server |-> StoredIds(r)']
  BY DEF Stored
<1>5. [r \in Server |-> StoredIds(r)']
        = [r \in Server |-> IF r = s THEN ids ELSE StoredIds(r)]
  BY <1>2, <1>3
<1>6. [Stored EXCEPT ![s] = ids] = [r \in Server |-> IF r = s THEN ids ELSE StoredIds(r)]
  BY DEF Stored
<1> QED
  BY <1>4, <1>5, <1>6

\* Leaving the bundles alone leaves the stored posts alone.
LEMMA StoredUnchanged ==
    ASSUME UNCHANGED bundle
    PROVE  Stored' = Stored
BY DEF Stored, StoredIds

\* A commit writes one more post of a server, which then counts as accepted.
LEMMA CommitStores ==
    ASSUME IInv, NEW s \in Server, NEW p \in Post, SubmitPostCommit(s, p)
    PROVE  /\ <<s, p>> \in claimTokens
           /\ p \notin Stored[s]
           /\ Stored' = [Stored EXCEPT ![s] = Stored[s] \cup {p}]
           /\ accepted' = accepted \cup {p}
           /\ UNCHANGED claimTokens
           /\ \E h \in Header : /\ bundle' = [bundle EXCEPT ![s] = h]
                               /\ h.sealed = (h.overflowed \/ Elapsed(now))
<1> DEFINE m == StoredMetadata(s)
           old == StoredHeader(s, EmptyHeader(FALSE, FALSE))
           h == CommitHeader(old, m, p, now)
<1>1. old \in Header /\ HeaderVerifies(old) /\ old.ids = StoredIds(s)
  BY LoadedHeader
<1>2. m \in Metadata
  BY LoadedMetadata
<1>3. /\ <<s, p>> \in claimTokens
      /\ p \notin old.ids
      /\ bundle' = [bundle EXCEPT ![s] = h]
      /\ accepted' = accepted \cup {p}
      /\ UNCHANGED claimTokens
  BY DEF SubmitPostCommit, PutBundleAndMetadata, CrashAfterBundlePut, tokens
<1>4. now \in Nat
  BY DEF IInv, TypeOK
<1> HIDE DEF m, old
<1>5. h \in Header /\ h.ids = old.ids \cup {p} /\ h.sealed = (h.overflowed \/ Elapsed(now))
  BY <1>1, <1>2, <1>3, <1>4, CommitHeaderLemma
<1> HIDE DEF h
<1>6. Stored[s] = StoredIds(s)
  BY DEF Stored
<1>7. h # None
  BY <1>5, NoneDistinct
<1>8. Stored' = [Stored EXCEPT ![s] = h.ids]
  BY <1>3, <1>5, <1>7, StoredAfterPut
<1> QED
  BY <1>1, <1>3, <1>5, <1>6, <1>8

\* A heal commit writes the token's posts, which are accepted ones, and keeps
\* the seal of a bundle that was stored.
LEMMA HealStores ==
    ASSUME IInv, NEW t \in healTokens, HealPostBundleCommit(t)
    PROVE  /\ UNCHANGED <<claimTokens, accepted>>
           /\ t.server \in Server /\ t.needed \in SUBSET Post
           /\ t.needed \subseteq accepted
           /\ Stored' = [Stored EXCEPT ![t.server] = Stored[t.server] \cup t.needed]
           /\ \/ UNCHANGED bundle
              \/ \E h \in Header : 
                    /\ bundle' = [bundle EXCEPT ![t.server] = h]
                    /\ bundle[t.server] # None => h.sealed = bundle[t.server].sealed
<1> DEFINE s == t.server
           old == StoredHeader(s, EmptyHeader(t.overflowed, t.sealed))
           h == HealHeader(old, t.needed)
<1>1. /\ s \in Server /\ t.needed \in SUBSET Post /\ t.needed \subseteq accepted
      /\ t.overflowed \in BOOLEAN /\ t.sealed \in BOOLEAN
  BY DEF IInv, TypeOK, HealToken, TokensSound
<1>2. /\ \/ bundle' = [bundle EXCEPT ![s] = h]
         \/ HealMissing(old, t.needed) = {} /\ UNCHANGED bundle
      /\ UNCHANGED <<claimTokens, accepted>>
  BY DEF HealPostBundleCommit, PutBundleAndMetadata, CrashAfterBundlePut, tokens,
         history, stores
<1>3. bundle[s] # None => old = bundle[s]
  BY DEF StoredHeader
<1> HIDE DEF s
<1>4. old \in Header /\ HeaderVerifies(old) /\ old.ids = StoredIds(s)
  BY <1>1, LoadedHeader
<1> HIDE DEF old
<1>5. h \in Header /\ h.ids = old.ids \cup t.needed /\ h.sealed = old.sealed
  BY <1>1, <1>4, HealHeaderLemma
<1> HIDE DEF h
<1>6. Stored[s] = StoredIds(s) /\ Stored = [Stored EXCEPT ![s] = StoredIds(s)]
  BY <1>1 DEF Stored
<1>7. CASE bundle' = [bundle EXCEPT ![s] = h]
  <2>1. h # None
    BY <1>5, NoneDistinct
  <2>2. Stored' = [Stored EXCEPT ![s] = h.ids]
    BY <1>1, <1>5, <1>7, <2>1, StoredAfterPut
  <2> QED
    BY <1>1, <1>2, <1>3, <1>4, <1>5, <1>6, <1>7, <2>2 DEF s
<1>8. CASE HealMissing(old, t.needed) = {} /\ UNCHANGED bundle
  <2>1. t.needed \subseteq old.ids
    BY <1>8 DEF HealMissing
  <2>2. StoredIds(s) \cup t.needed = StoredIds(s)
    BY <2>1, <1>4
  <2> QED
    BY <1>1, <1>2, <1>6, <1>8, <2>2, StoredUnchanged DEF s
<1> QED
  BY <1>2, <1>7, <1>8

\* A GET changes at most the seal of a stored bundle, and only sets it.
LEMMA GetStores ==
    ASSUME IInv, NEW c \in Client, NEW s \in Server, GetPostBundle(c, s)
    PROVE  /\ UNCHANGED <<claimTokens, accepted>>
           /\ Stored' = Stored
           /\ \/ UNCHANGED bundle
              \/ \E h \in Header : bundle' = [bundle EXCEPT ![s] = h] /\ h.sealed
<1> DEFINE resealed == [bundle[s] EXCEPT !.sealed = TRUE]
<1>1. /\ \/ UNCHANGED bundle
         \/ bundle[s] = None /\ bundle' = [bundle EXCEPT ![s] = None]
         \/ bundle[s] # None /\ bundle' = [bundle EXCEPT ![s] = resealed]
      /\ UNCHANGED <<claimTokens, accepted>>
  BY DEF GetPostBundle, PutBundleAndMetadata, CrashAfterBundlePut, stores, tokens,
         history
<1>2. CASE UNCHANGED bundle
  BY <1>1, <1>2, StoredUnchanged
<1>3. CASE bundle[s] = None /\ bundle' = [bundle EXCEPT ![s] = None]
  <2>1. bundle' = bundle
    BY <1>3 DEF IInv, TypeOK
  <2> QED
    BY <1>1, <2>1, StoredUnchanged
<1>4. CASE bundle[s] # None /\ bundle' = [bundle EXCEPT ![s] = resealed]
  <2>1. bundle[s] \in Header
    BY <1>4 DEF IInv, TypeOK
  <2>2. resealed \in Header /\ resealed.ids = bundle[s].ids /\ resealed.sealed
    BY <2>1, ResealedHeader
  <2> HIDE DEF resealed
  <2>3. resealed # None
    BY <2>2, NoneDistinct
  <2>4. Stored' = [Stored EXCEPT ![s] = resealed.ids]
    BY <1>4, <2>2, <2>3, StoredAfterPut
  <2>5. Stored = [Stored EXCEPT ![s] = bundle[s].ids]
    BY <1>4 DEF Stored, StoredIds
  <2> QED
    BY <1>1, <1>4, <2>2, <2>4, <2>5
<1> QED
  BY <1>1, <1>2, <1>3, <1>4

\* Decimation empties one server's file; the other steps outside the commit,
\* the heal commit and the GET leave every file alone.
LEMMA OtherStores ==
    ASSUME IInv, Next
    PROVE  \/ \E s \in Server, p \in Post : SubmitPostCommit(s, p)
           \/ \E s \in Server, c \in Client : GetPostBundle(c, s)
           \/ \E t \in healTokens : HealPostBundleCommit(t)
           \/ \E s \in Server : /\ bundle' = [bundle EXCEPT ![s] = None]
                              /\ UNCHANGED <<claimTokens, accepted>>
           \/ /\ UNCHANGED <<bundle, accepted>>
              /\ \/ UNCHANGED claimTokens
                 \/ \E s \in Server, p \in Post :
                        claimTokens' = claimTokens \cup {<<s, p>>}
<1> USE DEF stores, tokens, history
<1>1. ASSUME NEW s \in Server, NEW p \in Post, SubmitPostClaim(s, p)
      PROVE  /\ UNCHANGED <<bundle, accepted>>
             /\ \/ UNCHANGED claimTokens
                \/ claimTokens' = claimTokens \cup {<<s, p>>}
  BY <1>1 DEF SubmitPostClaim
<1>2. ASSUME NEW s \in Server, NEW c \in Client, HealPostBundleClaim(c, s)
      PROVE  UNCHANGED <<bundle, accepted, claimTokens>>
  BY <1>2 DEF HealPostBundleClaim
<1>3. ASSUME NEW s \in Server, HealInProgressExpires(s) \/ DecimateMetadata(s) \/ Restart(s)
      PROVE  UNCHANGED <<bundle, accepted, claimTokens>>
  BY <1>3 DEF HealInProgressExpires, DecimateMetadata, Restart
<1>4. ASSUME NEW s \in Server, DecimateBundle(s)
      PROVE  bundle' = [bundle EXCEPT ![s] = None] /\ UNCHANGED <<claimTokens, accepted>>
  BY <1>4 DEF DecimateBundle
<1>5. CASE Tick
  BY <1>5 DEF Tick
<1> QED
  BY <1>1, <1>2, <1>3, <1>4, <1>5 DEF Next

\* One step loses a stored post only by removing the whole file.
LEMMA StepKeepsPosts ==
    ASSUME IInv, [Next]_vars
    PROVE  \A s \in Server : bundle'[s] = None \/ Stored[s] \subseteq Stored'[s]
<1>1. CASE UNCHANGED vars
  BY <1>1, StoredUnchanged DEF vars
<1>2. ASSUME NEW s \in Server, NEW p \in Post, SubmitPostCommit(s, p)
      PROVE  \A r \in Server : Stored[r] \subseteq Stored'[r]
  <2>1. Stored' = [Stored EXCEPT ![s] = Stored[s] \cup {p}]
    BY <1>2, CommitStores
  <2>2. DOMAIN Stored = Server
    BY DEF Stored
  <2> QED
    BY <2>1, <2>2
<1>3. ASSUME NEW s \in Server, NEW c \in Client, GetPostBundle(c, s)
      PROVE  \A r \in Server : Stored[r] \subseteq Stored'[r]
  BY <1>3, GetStores
<1>4. ASSUME NEW t \in healTokens, HealPostBundleCommit(t)
      PROVE  \A r \in Server : Stored[r] \subseteq Stored'[r]
  <2>1. t.server \in Server /\ Stored' = [Stored EXCEPT ![t.server] = Stored[t.server] \cup t.needed]
    BY <1>4, HealStores
  <2>2. DOMAIN Stored = Server
    BY DEF Stored
  <2> QED
    BY <2>1, <2>2
<1>5. ASSUME NEW s \in Server, bundle' = [bundle EXCEPT ![s] = None]
      PROVE  \A r \in Server : bundle'[r] = None \/ Stored[r] \subseteq Stored'[r]
  <2> TAKE r \in Server
  <2>1. bundle'[s] = None /\ (r # s => bundle'[r] = bundle[r])
    BY <1>5 DEF IInv, TypeOK
  <2>2. r # s => StoredIds(r)' = StoredIds(r)
    BY <2>1 DEF StoredIds
  <2>3. Stored[r] = StoredIds(r) /\ Stored'[r] = StoredIds(r)'
    BY DEF Stored
  <2> QED
    BY <2>1, <2>2, <2>3
<1>6. CASE UNCHANGED bundle
  BY <1>6, StoredUnchanged
<1> QED
  BY <1>1, <1>2, <1>3, <1>4, <1>5, <1>6, OtherStores

\* No commit, heal, re-seal or crash drops a stored post.
THEOREM PostsAlwaysStay == Spec => PostsStay
<1>1. IInv /\ [Next]_vars =>
          [\A s \in Server : \/ bundle'[s] = None
                             \/ StoredIds(s) \subseteq StoredIds(s)']_vars
  BY StepKeepsPosts DEF Stored
<1> QED
  BY <1>1, Inductive, PTL DEF Spec, PostsStay

\* One step after the bucket's time is over never unseals a stored bundle.
LEMMA StepKeepsSeal ==
    ASSUME IInv, [Next]_vars, NEW r \in Server, Elapsed(now),
           bundle[r] # None, bundle'[r] # None, bundle[r].sealed
    PROVE  bundle'[r].sealed
<1>0. bundle \in [Server -> Header \cup {None}]
  BY DEF IInv, TypeOK
<1>1. CASE UNCHANGED bundle
  BY <1>1
<1>2. ASSUME NEW s \in Server, NEW h \in Header \cup {None},
             bundle' = [bundle EXCEPT ![s] = h],
             r = s => h = None \/ h.sealed
      PROVE  bundle'[r].sealed
  <2>1. CASE r = s
    <3>1. bundle'[r] = h
      BY <1>0, <1>2, <2>1
    <3> QED
      BY <1>2, <2>1, <3>1
  <2>2. CASE r # s
    <3>1. bundle'[r] = bundle[r]
      BY <1>0, <1>2, <2>2
    <3> QED
      BY <3>1
  <2> QED
    BY <2>1, <2>2
<1>3. ASSUME NEW s \in Server, NEW p \in Post, SubmitPostCommit(s, p)
      PROVE  bundle'[r].sealed
  <2>1. PICK h \in Header : /\ bundle' = [bundle EXCEPT ![s] = h]
                            /\ h.sealed = (h.overflowed \/ Elapsed(now))
    BY <1>3, CommitStores
  <2> QED
    BY <1>2, <2>1
<1>4. ASSUME NEW s \in Server, NEW c \in Client, GetPostBundle(c, s)
      PROVE  bundle'[r].sealed
  BY <1>1, <1>2, <1>4, GetStores
<1>5. ASSUME NEW t \in healTokens, HealPostBundleCommit(t)
      PROVE  bundle'[r].sealed
  BY <1>1, <1>2, <1>5, HealStores
<1>6. ASSUME NEW s \in Server, bundle' = [bundle EXCEPT ![s] = None]
      PROVE  bundle'[r].sealed
  BY <1>2, <1>6
<1>7. CASE UNCHANGED vars
  BY <1>1, <1>7 DEF vars
<1> QED
  BY <1>1, <1>3, <1>4, <1>5, <1>6, <1>7, OtherStores

\* After its time a sealed bundle stays sealed on the server that stores it.
THEOREM SealAlwaysStays == Spec => ElapsedSealStays
<1>1. IInv /\ [Next]_vars =>
          [\A s \in Server :
              /\ bundle[s] # None /\ bundle'[s] # None
              /\ bundle[s].sealed /\ Elapsed(now)
              => bundle'[s].sealed]_vars
  BY StepKeepsSeal
<1> QED
  BY <1>1, Inductive, PTL DEF Spec, ElapsedSealStays

\* Every step of the servers is a step, or a stutter, of the replicated set.
LEMMA StepRefines ==
    ASSUME IInv, [Next]_vars
    PROVE  [Replicated!Next]_(Replicated!vars)
<1> DEFINE rnext == [Replicated!Next]_(Replicated!vars)
<1> USE DEF Replicated!Next, Replicated!vars
<1>1. ASSUME NEW s \in Server, NEW p \in Post, SubmitPostCommit(s, p)
      PROVE  rnext
  <2>1. Replicated!Accept(s, p)
    BY <1>1, CommitStores DEF Replicated!Accept, Stored
  <2> QED
    BY <2>1
<1>2. ASSUME NEW s \in Server, NEW c \in Client, GetPostBundle(c, s)
      PROVE  rnext
  BY <1>2, GetStores DEF Stored
<1>3. ASSUME NEW t \in healTokens, HealPostBundleCommit(t)
      PROVE  rnext
  <2>1. t.server \in Server /\ t.needed \in SUBSET Post
    BY <1>3, HealStores
  <2>2. Replicated!Copy(t.server, t.needed)
    BY <1>3, HealStores DEF Replicated!Copy, Stored
  <2> QED
    BY <2>1, <2>2
<1>4. ASSUME NEW s \in Server, bundle' = [bundle EXCEPT ![s] = None],
             UNCHANGED <<claimTokens, accepted>>
      PROVE  rnext
  <2>1. Replicated!Lose(s)
    BY <1>4, StoredAfterPut DEF Replicated!Lose, Stored
  <2> QED
    BY <2>1
<1>5. ASSUME UNCHANGED <<bundle, accepted>>, UNCHANGED claimTokens
      PROVE  rnext
  BY <1>5, StoredUnchanged DEF Stored
<1>6. ASSUME NEW s \in Server, NEW p \in Post, UNCHANGED <<bundle, accepted>>,
             claimTokens' = claimTokens \cup {<<s, p>>}
      PROVE  rnext
  <2>1. Replicated!Admit(s, p)
    BY <1>6, StoredUnchanged DEF Replicated!Admit, Stored
  <2> QED
    BY <2>1
<1>7. CASE UNCHANGED vars
  BY <1>5, <1>7 DEF vars
<1> QED
  BY <1>1, <1>2, <1>3, <1>4, <1>5, <1>6, <1>7, OtherStores

\* The servers implement the replicated set of posts: whatever is stored
\* anywhere was committed at a server that had granted a claim for it, and is
\* lost only a bundle at a time.
THEOREM ServersRefineReplicatedPosts == Spec => ReplicatedSpec
<1>1. Init => Replicated!Init
  BY DEF Init, Replicated!Init, StoredIds
<1>2. IInv /\ [Next]_vars => [Replicated!Next]_(Replicated!vars)
  BY StepRefines
<1> QED
  BY <1>1, <1>2, Inductive, PTL DEF Spec, ReplicatedSpec, Replicated!Spec
-----------------------------------------------------------------------------
(***************************************************************************)
(* The disk store and the memory store: the inductive invariant.           *)
(***************************************************************************)
Values == BundleTexts \cup {Absent}

\* The feedback rows of one location.
RowSets == UNION {[keys -> FeedbackValues] : keys \in SUBSET FeedbackKeys}

DiskStore ==
  [file : [BundleIds -> Values], temp : [BundleIds -> Values \cup {Torn}], metadata : [BundleIds -> Values],
   accessed : [BundleIds -> Values], feedback : [BundleIds -> RowSets]]

FeedbackEntry == [key : FeedbackKeys, value : FeedbackValues]

MemStore ==
  [bytes : [BundleIds -> Values], metadata : [BundleIds -> Values], accessed : [BundleIds -> Values],
   feedbacks : [BundleIds -> Seq(FeedbackEntry)]]

StoreCall ==
  [op : {"none"}] \cup [op : {"write", "rename"}, l : BundleIds, v : BundleTexts] \cup
  [op : {"delete"}, ls : SUBSET BundleIds, left : SUBSET BundleIds, keys : SUBSET (BundleIds \X FeedbackKeys)]

StoresTypeOK ==
  /\ trying \in [Processes -> 0 .. MaxEnvironments + 1]
  /\ holding \in [Processes -> 0 .. MaxEnvironments]
  /\ underway \in [Processes -> StoreCall]
  /\ disk \in [Environments -> DiskStore]
  /\ mem \in [Environments -> MemStore]
  /\ crashes \in [Environments -> Nat]

RowEntries(rows) == {[key |-> k, value |-> rows[k]] : k \in DOMAIN rows}

\* The rows of one location hold what the list of the memory store holds, a key once.
SameFeedback(rows, entries) ==
  /\ RowEntries(rows) = ToSet(entries)
  /\ \A i, j \in 1 .. Len(entries) : entries[i].key = entries[j].key => i = j

SameRows(d, m) ==
  /\ d.metadata = m.metadata
  /\ d.accessed = m.accessed
  /\ \A l \in BundleIds : SameFeedback(d.feedback[l], m.feedbacks[l])

\* A file is what was put last, or missing: in a deletion, or after a crash.
FilesKept(d, m, u, crashed) ==
  \A l \in BundleIds :
    d.file[l] # m.bytes[l] => d.file[l] = Absent /\ ((u.op = "delete" /\ l \in u.ls) \/ crashed > 0)

\* What a call has done so far: the whole text is in the temporary file before it is renamed, and
\* a deletion has collected the rows that are there.
Halfway(u, d) ==
  /\ u.op = "rename" => d.temp[u.l] = u.v
  /\ u.op = "delete" =>
       /\ u.left \subseteq u.ls
       /\ \A l \in u.ls \ u.left : d.file[l] = Absent
       /\ u.keys = FeedbackKeysToDelete(d.feedback, u.ls)

\* Of the process that holds an environment, when one does: it looks for no other one.
HeldWell ==
  \A p \in Processes :
    /\ underway[p].op # "none" => holding[p] # 0
    /\ trying[p] # 0 => holding[p] = 0
    /\ holding[p] # 0 => Halfway(underway[p], disk[holding[p]])

StoresInd ==
  /\ StoresTypeOK
  /\ OneHolder
  /\ HeldWell
  /\ \A e \in Environments : SameRows(disk[e], mem[e])
  /\ \A e \in Environments, l \in BundleIds :
       disk[e].file[l] # mem[e].bytes[l] => disk[e].file[l] = Absent /\ (BeingDeleted(e, l) \/ crashes[e] > 0)

LEMMA StoresBounds ==
  MaxEnvironments \in Nat /\ BundleTexts \subseteq Nat \ {0} /\ Environments = 1 .. MaxEnvironments
BY EnvironmentStoresAssumption DEF Environments

LEMMA StoresStart == EnvironmentStoresInit => StoresInd
<1> SUFFICES ASSUME EnvironmentStoresInit PROVE StoresInd
  OBVIOUS
<1> DEFINE none == [k \in {} |-> Absent]
<1>1. none \in [{} -> FeedbackValues] /\ DOMAIN none = {}
  OBVIOUS
<1>2. none \in RowSets
  BY <1>1 DEF RowSets
<1> HIDE DEF none
<1>3. EmptyDisk \in DiskStore /\ \A l \in BundleIds : EmptyDisk.feedback[l] = none
  BY <1>2 DEF EmptyDisk, DiskStore, Values, none
<1>4. EmptyMem \in MemStore
  BY DEF EmptyMem, MemStore, Values
<1>5. SameFeedback(none, <<>>)
  BY <1>1 DEF SameFeedback, RowEntries, ToSet
<1>6. SameRows(EmptyDisk, EmptyMem)
  BY <1>3, <1>5 DEF EmptyDisk, EmptyMem, SameRows
<1>7. StoresTypeOK
  <2>1. Quiet \in StoreCall
    BY DEF Quiet, StoreCall
  <2> QED
    BY <1>3, <1>4, <2>1, StoresBounds DEF EnvironmentStoresInit, StoresTypeOK
<1>8. OneHolder /\ HeldWell
  BY DEF EnvironmentStoresInit, OneHolder, HeldWell, Quiet
<1>9. \A e \in Environments : SameRows(disk[e], mem[e]) /\ \A l \in BundleIds : disk[e].file[l] = mem[e].bytes[l]
  BY <1>6 DEF EnvironmentStoresInit, EmptyDisk, EmptyMem
<1> QED
  BY <1>7, <1>8, <1>9 DEF StoresInd
-----------------------------------------------------------------------------
(***************************************************************************)
(* The stores: a step of the process that holds an environment.            *)
(***************************************************************************)
LEMMA Holding ==
  ASSUME StoresInd, NEW p \in Processes, holding[p] # 0
  PROVE  LET e == holding[p] IN
         /\ e \in Environments
         /\ disk[e] \in DiskStore /\ mem[e] \in MemStore /\ underway[p] \in StoreCall /\ crashes[e] \in Nat
         /\ SameRows(disk[e], mem[e])
         /\ FilesKept(disk[e], mem[e], underway[p], crashes[e])
         /\ Halfway(underway[p], disk[e])
<1> DEFINE e == holding[p]
<1>1. e \in Environments
  BY StoresBounds DEF StoresInd, StoresTypeOK
<1>2. /\ disk[e] \in DiskStore /\ mem[e] \in MemStore /\ underway[p] \in StoreCall /\ crashes[e] \in Nat
      /\ SameRows(disk[e], mem[e])
      /\ Halfway(underway[p], disk[e])
  BY <1>1 DEF StoresInd, StoresTypeOK, HeldWell
<1>3. FilesKept(disk[e], mem[e], underway[p], crashes[e])
  <2> SUFFICES ASSUME NEW l \in BundleIds, disk[e].file[l] # mem[e].bytes[l]
               PROVE  disk[e].file[l] = Absent /\ ((underway[p].op = "delete" /\ l \in underway[p].ls) \/ crashes[e] > 0)
    BY DEF FilesKept
  <2>1. disk[e].file[l] = Absent /\ (BeingDeleted(e, l) \/ crashes[e] > 0)
    BY <1>1 DEF StoresInd
  <2>2. BeingDeleted(e, l) => underway[p].op = "delete" /\ l \in underway[p].ls
    BY DEF BeingDeleted, StoresInd, OneHolder
  <2> QED
    BY <2>1, <2>2
<1> QED
  BY <1>1, <1>2, <1>3

LEMMA HolderStep ==
  ASSUME StoresInd, NEW p \in Processes, holding[p] # 0,
         NEW d \in DiskStore, NEW m \in MemStore, NEW u \in StoreCall,
         disk' = [disk EXCEPT ![holding[p]] = d], mem' = [mem EXCEPT ![holding[p]] = m],
         underway' = [underway EXCEPT ![p] = u], UNCHANGED <<trying, holding, crashes>>,
         SameRows(d, m), FilesKept(d, m, u, crashes[holding[p]]), Halfway(u, d)
  PROVE  StoresInd'
<1> DEFINE e == holding[p]
<1>1. e \in Environments
  BY Holding
<1>2. /\ \A f \in Environments : disk'[f] = IF f = e THEN d ELSE disk[f]
      /\ \A f \in Environments : mem'[f] = IF f = e THEN m ELSE mem[f]
      /\ \A q \in Processes : underway'[q] = IF q = p THEN u ELSE underway[q]
  BY DEF StoresInd, StoresTypeOK
<1>3. StoresTypeOK'
  BY DEF StoresInd, StoresTypeOK
<1>4. OneHolder'
  BY DEF StoresInd, OneHolder
<1>5. HeldWell'
  <2> SUFFICES ASSUME NEW q \in Processes
               PROVE  /\ underway'[q].op # "none" => holding[q] # 0
                      /\ trying[q] # 0 => holding[q] = 0
                      /\ holding[q] # 0 => Halfway(underway'[q], disk'[holding[q]])
    BY DEF HeldWell, Halfway, FeedbackKeysToDelete
  <2>1. CASE q = p
    <3>1. underway'[q] = u /\ disk'[holding[q]] = d
      BY <2>1, <1>1, <1>2
    <3>2. trying[q] # 0 => holding[q] = 0
      BY DEF StoresInd, HeldWell
    <3> QED
      BY <2>1, <3>1, <3>2
  <2>2. CASE q # p
    <3>1. underway'[q] = underway[q]
      BY <2>2, <1>2
    <3>2. holding[q] # 0 => holding[q] \in Environments /\ holding[q] # e
      BY <2>2, Holding DEF StoresInd, OneHolder
    <3>3. holding[q] # 0 => disk'[holding[q]] = disk[holding[q]]
      BY <3>2, <1>2
    <3> QED
      BY <3>1, <3>3 DEF StoresInd, HeldWell
  <2> QED
    BY <2>1, <2>2
<1>6. ASSUME NEW f \in Environments PROVE SameRows(disk'[f], mem'[f])
  <2>1. CASE f = e
    BY <2>1, <1>2
  <2>2. CASE f # e
    BY <2>2, <1>2 DEF StoresInd
  <2> QED
    BY <2>1, <2>2
<1>7. ASSUME NEW f \in Environments, NEW l \in BundleIds, disk'[f].file[l] # mem'[f].bytes[l]
      PROVE  disk'[f].file[l] = Absent /\ (BeingDeleted(f, l)' \/ crashes[f] > 0)
  <2>1. CASE f = e
    <3>1. disk'[f].file[l] = Absent /\ ((u.op = "delete" /\ l \in u.ls) \/ crashes[f] > 0)
      BY <2>1, <1>2, <1>7 DEF FilesKept
    <3>2. u.op = "delete" /\ l \in u.ls => BeingDeleted(f, l)'
      BY <2>1, <1>2 DEF BeingDeleted
    <3> QED
      BY <3>1, <3>2
  <2>2. CASE f # e
    <3>1. disk'[f].file[l] = Absent /\ (BeingDeleted(f, l) \/ crashes[f] > 0) /\ disk'[f] = disk[f]
      BY <2>2, <1>2, <1>7 DEF StoresInd
    <3>2. BeingDeleted(f, l) => BeingDeleted(f, l)'
      BY <2>2, <1>2 DEF BeingDeleted
    <3> QED
      BY <3>1, <3>2
  <2> QED
    BY <2>1, <2>2
<1>8. UNCHANGED crashes
  OBVIOUS
<1>9. \A f \in Environments : SameRows(disk[f], mem[f])'
  BY <1>6 DEF SameRows, SameFeedback, RowEntries, ToSet
<1> QED
  BY <1>3, <1>4, <1>5, <1>7, <1>8, <1>9 DEF StoresInd
\* The fields of a store, and those of a store in which one was changed.
LEMMA StoreFields ==
  ASSUME NEW d \in DiskStore, NEW m \in MemStore
  PROVE  /\ d.file \in [BundleIds -> Values] /\ d.temp \in [BundleIds -> Values \cup {Torn}]
         /\ d.metadata \in [BundleIds -> Values] /\ d.accessed \in [BundleIds -> Values]
         /\ d.feedback \in [BundleIds -> RowSets]
         /\ m.bytes \in [BundleIds -> Values] /\ m.metadata \in [BundleIds -> Values]
         /\ m.accessed \in [BundleIds -> Values] /\ m.feedbacks \in [BundleIds -> Seq(FeedbackEntry)]
BY DEF DiskStore, MemStore

LEMMA PutStep ==
  ASSUME StoresInd, NEW p \in Processes, NEW l \in BundleIds, NEW v \in BundleTexts, Put(p, l, v)
  PROVE  StoresInd'
<1> DEFINE e == holding[p]
           d == disk[e]
           m == mem[e]
           nd == [d EXCEPT !.metadata = [d.metadata EXCEPT ![l] = v]]
           nm == [m EXCEPT !.metadata = [m.metadata EXCEPT ![l] = v]]
<1>1. /\ e # 0 /\ underway[p] = Quiet
      /\ disk' = [disk EXCEPT ![e] = nd] /\ mem' = [mem EXCEPT ![e] = nm]
      /\ UNCHANGED <<trying, holding, underway, crashes>>
  BY DEF Put, Begins, Ready, MemPutMetadata
<1>2. /\ e \in Environments /\ d \in DiskStore /\ m \in MemStore
      /\ SameRows(d, m) /\ FilesKept(d, m, underway[p], crashes[e])
      /\ underway[p] \in StoreCall
  BY <1>1, Holding
<1>3. underway' = [underway EXCEPT ![p] = Quiet] /\ Quiet \in StoreCall /\ Quiet.op = "none"
  BY <1>1 DEF StoresInd, StoresTypeOK, StoreCall, Quiet
<1> HIDE DEF d, m
<1>4. [d.metadata EXCEPT ![l] = v] \in [BundleIds -> Values] /\ [m.metadata EXCEPT ![l] = v] \in [BundleIds -> Values]
  BY <1>2, StoreFields DEF Values
<1>5. /\ nd \in DiskStore /\ nd.file = d.file /\ nd.feedback = d.feedback /\ nd.accessed = d.accessed
      /\ nd.metadata = [d.metadata EXCEPT ![l] = v]
  BY <1>2, <1>4 DEF DiskStore
<1>6. /\ nm \in MemStore /\ nm.bytes = m.bytes /\ nm.feedbacks = m.feedbacks /\ nm.accessed = m.accessed
      /\ nm.metadata = [m.metadata EXCEPT ![l] = v]
  BY <1>2, <1>4 DEF MemStore
<1> HIDE DEF nd, nm
<1>7. SameRows(nd, nm) /\ FilesKept(nd, nm, Quiet, crashes[e]) /\ Halfway(Quiet, nd)
  BY <1>1, <1>2, <1>3, <1>5, <1>6 DEF SameRows, FilesKept, Halfway
<1> QED
  BY <1>1, <1>3, <1>5, <1>6, <1>7, HolderStep

LEMMA LastAccessedFlushStep ==
  ASSUME StoresInd, NEW p \in Processes, NEW ls \in SUBSET BundleIds, NEW t \in BundleTexts,
         LastAccessedFlush(p, [l \in ls |-> t])
  PROVE  StoresInd'
<1> DEFINE e == holding[p]
           d == disk[e]
           m == mem[e]
           times == [l \in ls |-> t]
           da == [l \in BundleIds |-> IF l \in DOMAIN times THEN times[l] ELSE d.accessed[l]]
           ma == [l \in BundleIds |-> IF l \in DOMAIN times THEN times[l] ELSE m.accessed[l]]
           nd == [d EXCEPT !.accessed = da]
           nm == [m EXCEPT !.accessed = ma]
<1>1. /\ e # 0 /\ underway[p] = Quiet
      /\ disk' = [disk EXCEPT ![e] = nd] /\ mem' = [mem EXCEPT ![e] = nm]
      /\ UNCHANGED <<trying, holding, underway, crashes>>
  BY DEF LastAccessedFlush, Begins, Ready, MemFlush
<1>2. /\ e \in Environments /\ d \in DiskStore /\ m \in MemStore
      /\ SameRows(d, m) /\ FilesKept(d, m, underway[p], crashes[e])
  BY <1>1, Holding
<1>3. underway' = [underway EXCEPT ![p] = Quiet] /\ Quiet \in StoreCall /\ Quiet.op = "none"
  BY <1>1 DEF StoresInd, StoresTypeOK, StoreCall, Quiet
<1> HIDE DEF d, m
<1>4. da \in [BundleIds -> Values] /\ ma \in [BundleIds -> Values] /\ da = ma
  BY <1>2, StoreFields DEF Values, SameRows
<1> HIDE DEF da, ma
<1>5. /\ nd \in DiskStore /\ nd.file = d.file /\ nd.feedback = d.feedback /\ nd.metadata = d.metadata
      /\ nd.accessed = da
  BY <1>2, <1>4 DEF DiskStore
<1>6. /\ nm \in MemStore /\ nm.bytes = m.bytes /\ nm.feedbacks = m.feedbacks /\ nm.metadata = m.metadata
      /\ nm.accessed = ma
  BY <1>2, <1>4 DEF MemStore
<1> HIDE DEF nd, nm
<1>7. SameRows(nd, nm) /\ FilesKept(nd, nm, Quiet, crashes[e]) /\ Halfway(Quiet, nd)
  BY <1>1, <1>2, <1>3, <1>4, <1>5, <1>6 DEF SameRows, FilesKept, Halfway
<1> QED
  BY <1>1, <1>3, <1>5, <1>6, <1>7, HolderStep

\* The temporary file is cut to nothing; what is stored is not touched.
LEMMA BytesPutBeginStep ==
  ASSUME StoresInd, NEW p \in Processes, NEW l \in BundleIds, NEW v \in BundleTexts, BytesPutBegin(p, l, v)
  PROVE  StoresInd'
<1> DEFINE e == holding[p]
           d == disk[e]
           m == mem[e]
           nd == [d EXCEPT !.temp = [d.temp EXCEPT ![l] = Torn]]
           u == [op |-> "write", l |-> l, v |-> v]
<1>1. /\ e # 0 /\ underway[p] = Quiet
      /\ disk' = [disk EXCEPT ![e] = nd]
      /\ underway' = [underway EXCEPT ![p] = u]
      /\ UNCHANGED <<trying, holding, mem, crashes>>
  BY DEF BytesPutBegin, Begins, Ready
<1>2. /\ e \in Environments /\ d \in DiskStore /\ m \in MemStore
      /\ SameRows(d, m) /\ FilesKept(d, m, underway[p], crashes[e])
  BY <1>1, Holding
<1>3. u \in StoreCall /\ u.op = "write" /\ Quiet.op = "none"
  BY DEF StoreCall, Quiet
<1>4. mem' = [mem EXCEPT ![e] = m]
  BY <1>1 DEF StoresInd, StoresTypeOK
<1> HIDE DEF d, m, u
<1>5. [d.temp EXCEPT ![l] = Torn] \in [BundleIds -> Values \cup {Torn}]
  BY <1>2, StoreFields
<1>6. /\ nd \in DiskStore /\ nd.file = d.file /\ nd.feedback = d.feedback /\ nd.metadata = d.metadata
      /\ nd.accessed = d.accessed
  BY <1>2, <1>5 DEF DiskStore
<1> HIDE DEF nd
<1>7. SameRows(nd, m) /\ FilesKept(nd, m, u, crashes[e]) /\ Halfway(u, nd)
  BY <1>1, <1>2, <1>3, <1>6 DEF SameRows, FilesKept, Halfway
<1> QED
  BY <1>1, <1>2, <1>3, <1>4, <1>6, <1>7, HolderStep

LEMMA BytesPutWrittenStep ==
  ASSUME StoresInd, NEW p \in Processes, BytesPutWritten(p)
  PROVE  StoresInd'
<1> DEFINE e == holding[p]
           d == disk[e]
           m == mem[e]
           w == underway[p]
           nd == [d EXCEPT !.temp = [d.temp EXCEPT ![w.l] = w.v]]
           u == [w EXCEPT !.op = "rename"]
<1>1. /\ w.op = "write"
      /\ disk' = [disk EXCEPT ![e] = nd]
      /\ underway' = [underway EXCEPT ![p] = u]
      /\ UNCHANGED <<trying, holding, mem, crashes>>
  BY DEF BytesPutWritten
<1>2. e # 0
  BY <1>1 DEF StoresInd, HeldWell
<1>3. /\ e \in Environments /\ d \in DiskStore /\ m \in MemStore
      /\ SameRows(d, m) /\ FilesKept(d, m, w, crashes[e])
      /\ w \in StoreCall
  BY <1>2, Holding
<1>4. w.l \in BundleIds /\ w.v \in BundleTexts /\ w \in [op : {"write", "rename"}, l : BundleIds, v : BundleTexts]
  BY <1>1, <1>3 DEF StoreCall
<1>5. mem' = [mem EXCEPT ![e] = m]
  BY <1>1 DEF StoresInd, StoresTypeOK
<1> HIDE DEF d, m, w
<1>6. u \in StoreCall /\ u.op = "rename" /\ u.l = w.l /\ u.v = w.v
  BY <1>4 DEF StoreCall
<1>7. /\ [d.temp EXCEPT ![w.l] = w.v] \in [BundleIds -> Values \cup {Torn}]
      /\ [d.temp EXCEPT ![w.l] = w.v][w.l] = w.v
  BY <1>3, <1>4, StoreFields DEF Values
<1>8. /\ nd \in DiskStore /\ nd.file = d.file /\ nd.feedback = d.feedback /\ nd.metadata = d.metadata
      /\ nd.accessed = d.accessed /\ nd.temp = [d.temp EXCEPT ![w.l] = w.v]
  BY <1>3, <1>7 DEF DiskStore
<1> HIDE DEF nd, u
<1>9. SameRows(nd, m) /\ FilesKept(nd, m, u, crashes[e]) /\ Halfway(u, nd)
  BY <1>1, <1>3, <1>6, <1>7, <1>8 DEF SameRows, FilesKept, Halfway
<1> QED
  BY <1>1, <1>2, <1>3, <1>5, <1>6, <1>8, <1>9, HolderStep
\* The rename puts the whole text in place of the file: it was in the temporary file.
LEMMA BytesPutRenameStep ==
  ASSUME StoresInd, NEW p \in Processes, BytesPutRename(p)
  PROVE  StoresInd'
<1> DEFINE e == holding[p]
           d == disk[e]
           m == mem[e]
           w == underway[p]
           placed == [d EXCEPT !.file = [d.file EXCEPT ![w.l] = w.v]]
           nd == [placed EXCEPT !.temp = [d.temp EXCEPT ![w.l] = Absent]]
           nm == [m EXCEPT !.bytes = [m.bytes EXCEPT ![w.l] = w.v]]
<1>1. /\ w.op = "rename"
      /\ disk' = [disk EXCEPT ![e].file[w.l] = disk[e].temp[w.l], ![e].temp[w.l] = Absent]
      /\ mem' = [mem EXCEPT ![e] = nm]
      /\ underway' = [underway EXCEPT ![p] = Quiet]
      /\ UNCHANGED <<trying, holding, crashes>>
  BY DEF BytesPutRename, MemPutBytes
<1>2. e # 0
  BY <1>1 DEF StoresInd, HeldWell
<1>3. /\ e \in Environments /\ d \in DiskStore /\ m \in MemStore
      /\ SameRows(d, m) /\ FilesKept(d, m, w, crashes[e])
      /\ w \in StoreCall /\ Halfway(w, d)
  BY <1>2, Holding
<1>4. w.l \in BundleIds /\ w.v \in BundleTexts /\ d.temp[w.l] = w.v
  BY <1>1, <1>3 DEF StoreCall, Halfway
<1>5. disk' = [disk EXCEPT ![e] = nd]
  <2> DEFINE mid == [disk EXCEPT ![e] = placed]
  <2>1. disk \in [Environments -> DiskStore]
    BY DEF StoresInd, StoresTypeOK
  <2>2. mid[e] = placed /\ placed.temp = d.temp
    BY <1>3, <2>1 DEF DiskStore
  <2>3. disk' = [mid EXCEPT ![e] = [mid[e] EXCEPT !.temp = [mid[e].temp EXCEPT ![w.l] = Absent]]]
    BY <1>1, <1>4
  <2>4. disk' = [mid EXCEPT ![e] = nd]
    BY <2>2, <2>3
  <2> QED
    BY <2>1, <2>4, <1>3
<1>6. Quiet \in StoreCall /\ Quiet.op = "none"
  BY DEF StoreCall, Quiet
<1> HIDE DEF d, m, w
<1>7. /\ [d.file EXCEPT ![w.l] = w.v] \in [BundleIds -> Values]
      /\ [d.temp EXCEPT ![w.l] = Absent] \in [BundleIds -> Values \cup {Torn}]
      /\ [m.bytes EXCEPT ![w.l] = w.v] \in [BundleIds -> Values]
  BY <1>3, <1>4, StoreFields DEF Values
<1>8. /\ placed \in DiskStore /\ placed.feedback = d.feedback /\ placed.metadata = d.metadata
      /\ placed.accessed = d.accessed /\ placed.file = [d.file EXCEPT ![w.l] = w.v]
  BY <1>3, <1>7 DEF DiskStore
<1> HIDE DEF placed
<1>9. /\ nd \in DiskStore /\ nd.feedback = d.feedback /\ nd.metadata = d.metadata
      /\ nd.accessed = d.accessed /\ nd.file = [d.file EXCEPT ![w.l] = w.v]
  BY <1>7, <1>8 DEF DiskStore
<1>10. /\ nm \in MemStore /\ nm.feedbacks = m.feedbacks /\ nm.metadata = m.metadata
       /\ nm.accessed = m.accessed /\ nm.bytes = [m.bytes EXCEPT ![w.l] = w.v]
  BY <1>3, <1>7 DEF MemStore
<1> HIDE DEF nd, nm
<1>11. SameRows(nd, nm) /\ Halfway(Quiet, nd)
  BY <1>3, <1>6, <1>9, <1>10 DEF SameRows, Halfway
<1>12. FilesKept(nd, nm, Quiet, crashes[e])
  BY <1>1, <1>3, <1>4, <1>9, <1>10, StoreFields DEF FilesKept
<1> QED
  BY <1>1, <1>2, <1>5, <1>6, <1>9, <1>10, <1>11, <1>12, HolderStep

\* A deletion begins: nothing is removed, every row to remove is known.
LEMMA DeleteBeginStep ==
  ASSUME StoresInd, NEW p \in Processes, NEW ls \in SUBSET BundleIds, DeleteBegin(p, ls)
  PROVE  StoresInd'
<1> DEFINE e == holding[p]
           d == disk[e]
           m == mem[e]
           keys == FeedbackKeysToDelete(d.feedback, ls)
           u == [op |-> "delete", ls |-> ls, left |-> ls, keys |-> keys]
<1>1. /\ e # 0 /\ underway[p] = Quiet
      /\ underway' = [underway EXCEPT ![p] = u]
      /\ UNCHANGED <<trying, holding, disk, mem, crashes>>
  BY DEF DeleteBegin, Begins, Ready
<1>2. /\ e \in Environments /\ d \in DiskStore /\ m \in MemStore
      /\ SameRows(d, m) /\ FilesKept(d, m, underway[p], crashes[e])
  BY <1>1, Holding
<1>3. disk' = [disk EXCEPT ![e] = d] /\ mem' = [mem EXCEPT ![e] = m]
  BY <1>1 DEF StoresInd, StoresTypeOK
<1>4. keys \in SUBSET (BundleIds \X FeedbackKeys)
  BY DEF FeedbackKeysToDelete
<1> HIDE DEF d, m
<1>5. u \in StoreCall /\ u.op = "delete" /\ u.ls = ls /\ u.left = ls /\ u.keys = keys /\ Quiet.op = "none"
  <2> HIDE DEF keys
  <2> QED
    BY <1>4 DEF StoreCall, Quiet
<1> HIDE DEF u
<1>6. FilesKept(d, m, u, crashes[e]) /\ Halfway(u, d)
  BY <1>1, <1>2, <1>5 DEF FilesKept, Halfway
<1> QED
  BY <1>1, <1>2, <1>3, <1>5, <1>6, HolderStep
LEMMA DeleteFileStep ==
  ASSUME StoresInd, NEW p \in Processes, DeleteFile(p)
  PROVE  StoresInd'
<1> DEFINE e == holding[p]
           d == disk[e]
           m == mem[e]
           w == underway[p]
<1>1. w.op = "delete" /\ UNCHANGED <<trying, holding, mem, crashes>>
  BY DEF DeleteFile
<1>2. PICK l \in w.left : /\ disk' = [disk EXCEPT ![e].file[l] = Absent]
                          /\ underway' = [underway EXCEPT ![p].left = w.left \ {l}]
  BY DEF DeleteFile
<1> DEFINE nd == [d EXCEPT !.file = [d.file EXCEPT ![l] = Absent]]
           u == [w EXCEPT !.left = w.left \ {l}]
<1>3. disk' = [disk EXCEPT ![e] = nd] /\ underway' = [underway EXCEPT ![p] = u]
  BY <1>2
<1>4. e # 0
  BY <1>1 DEF StoresInd, HeldWell
<1>5. /\ e \in Environments /\ d \in DiskStore /\ m \in MemStore
      /\ SameRows(d, m) /\ FilesKept(d, m, w, crashes[e])
      /\ w \in StoreCall /\ Halfway(w, d)
  BY <1>4, Holding
<1>6. mem' = [mem EXCEPT ![e] = m]
  BY <1>1 DEF StoresInd, StoresTypeOK
<1> HIDE DEF d, m, w
<1>7. /\ w.left \in SUBSET BundleIds /\ l \in BundleIds /\ w.ls \in SUBSET BundleIds
      /\ w \in [op : {"delete"}, ls : SUBSET BundleIds, left : SUBSET BundleIds,
                keys : SUBSET (BundleIds \X FeedbackKeys)]
  BY <1>1, <1>2, <1>5 DEF StoreCall
<1>8. /\ u \in StoreCall /\ u.op = "delete" /\ u.ls = w.ls /\ u.left = w.left \ {l} /\ u.keys = w.keys
  BY <1>7 DEF StoreCall
<1>9. [d.file EXCEPT ![l] = Absent] \in [BundleIds -> Values]
  BY <1>5, <1>7, StoreFields DEF Values
<1>10. /\ nd \in DiskStore /\ nd.feedback = d.feedback /\ nd.metadata = d.metadata
       /\ nd.accessed = d.accessed /\ nd.file = [d.file EXCEPT ![l] = Absent]
  BY <1>5, <1>9 DEF DiskStore
<1> HIDE DEF nd, u
<1>11. \A x \in BundleIds : nd.file[x] = IF x = l THEN Absent ELSE d.file[x]
  BY <1>5, <1>10, StoreFields
<1>12. SameRows(nd, m)
  BY <1>5, <1>10 DEF SameRows
<1>13. Halfway(u, nd)
  <2>1. \A x \in u.ls \ u.left : nd.file[x] = Absent
    BY <1>1, <1>5, <1>7, <1>8, <1>11 DEF Halfway
  <2>2. u.left \subseteq u.ls
    BY <1>1, <1>5, <1>8 DEF Halfway
  <2>3. u.keys = FeedbackKeysToDelete(nd.feedback, u.ls)
    BY <1>1, <1>5, <1>8, <1>10 DEF Halfway
  <2> QED
    BY <1>8, <2>1, <2>2, <2>3 DEF Halfway
<1>14. FilesKept(nd, m, u, crashes[e])
  <2> SUFFICES ASSUME NEW x \in BundleIds, nd.file[x] # m.bytes[x]
               PROVE  nd.file[x] = Absent /\ ((u.op = "delete" /\ x \in u.ls) \/ crashes[e] > 0)
    BY DEF FilesKept
  <2>1. CASE x = l
    <3>1. l \in w.ls
      BY <1>1, <1>2, <1>5 DEF Halfway, w
    <3> QED
      BY <1>8, <1>11, <2>1, <3>1
  <2>2. CASE x # l
    BY <1>1, <1>5, <1>8, <1>11, <2>2 DEF FilesKept
  <2> QED
    BY <2>1, <2>2
<1> QED
  BY <1>1, <1>3, <1>4, <1>5, <1>6, <1>8, <1>10, <1>12, <1>13, <1>14, HolderStep
\* The batch removes the rows of the locations; their files are gone already.
LEMMA DeleteCommitStep ==
  ASSUME StoresInd, NEW p \in Processes, DeleteCommit(p)
  PROVE  StoresInd'
<1> DEFINE e == holding[p]
           d == disk[e]
           m == mem[e]
           w == underway[p]
           rowsLeft == [l \in BundleIds |-> IF l \in w.ls THEN Absent ELSE d.metadata[l]]
           accessed == [l \in BundleIds |-> IF l \in w.ls THEN Absent ELSE d.accessed[l]]
           kept(l) == {x \in DOMAIN d.feedback[l] : <<l, x>> \notin w.keys}
           feedback == [l \in BundleIds |-> [k \in kept(l) |-> d.feedback[l][k]]]
           one == [d EXCEPT !.metadata = rowsLeft]
           two == [one EXCEPT !.accessed = accessed]
           nd == [two EXCEPT !.feedback = feedback]
           nm == MemDelete(m, w.ls)
<1>1. /\ w.op = "delete" /\ w.left = {}
      /\ mem' = [mem EXCEPT ![e] = nm]
      /\ underway' = [underway EXCEPT ![p] = Quiet]
      /\ UNCHANGED <<trying, holding, crashes>>
  BY DEF DeleteCommit
<1>2. e # 0
  BY <1>1 DEF StoresInd, HeldWell
<1>3. /\ e \in Environments /\ d \in DiskStore /\ m \in MemStore
      /\ SameRows(d, m) /\ FilesKept(d, m, w, crashes[e])
      /\ w \in StoreCall /\ Halfway(w, d)
  BY <1>2, Holding
<1>4. disk' = [disk EXCEPT ![e] = nd]
  <2> DEFINE first == [disk EXCEPT ![e] = one]
             second == [first EXCEPT ![e] = two]
  <2>1. disk \in [Environments -> DiskStore]
    BY DEF StoresInd, StoresTypeOK
  <2>2. first[e] = one /\ one.accessed = d.accessed
    BY <1>3, <2>1 DEF DiskStore
  <2>3. second[e] = two /\ two.feedback = d.feedback
    BY <1>3, <2>1 DEF DiskStore
  <2>4. disk' = [disk EXCEPT
          ![e].metadata = rowsLeft,
          ![e].accessed = [l \in BundleIds |-> IF l \in w.ls THEN Absent ELSE @[l]],
          ![e].feedback = [l \in BundleIds |->
               [k \in {x \in DOMAIN @[l] : <<l, x>> \notin w.keys} |-> @[l][k]]]]
    BY DEF DeleteCommit
  <2> QED
    BY <2>1, <2>2, <2>3, <2>4, <1>3
<1>5. Quiet \in StoreCall /\ Quiet.op = "none"
  BY DEF StoreCall, Quiet
<1>6. w.ls \in SUBSET BundleIds /\ w.keys = FeedbackKeysToDelete(d.feedback, w.ls)
  BY <1>1, <1>3 DEF StoreCall, Halfway
<1> HIDE DEF d, m, w
<1>7. ASSUME NEW l \in BundleIds
      PROVE  /\ d.feedback[l] \in [DOMAIN d.feedback[l] -> FeedbackValues]
             /\ DOMAIN d.feedback[l] \in SUBSET FeedbackKeys
  <2>1. d.feedback[l] \in RowSets
    BY <1>3, StoreFields
  <2> QED
    BY <2>1 DEF RowSets
<1>8. ASSUME NEW l \in BundleIds
      PROVE  kept(l) = IF l \in w.ls THEN {} ELSE DOMAIN d.feedback[l]
  BY <1>6, <1>7 DEF FeedbackKeysToDelete
<1>9. ASSUME NEW l \in BundleIds
      PROVE  /\ DOMAIN feedback[l] = IF l \in w.ls THEN {} ELSE DOMAIN d.feedback[l]
             /\ feedback[l] \in [DOMAIN feedback[l] -> FeedbackValues]
             /\ l \notin w.ls => feedback[l] = d.feedback[l]
  <2> DEFINE rows == [k \in kept(l) |-> d.feedback[l][k]]
  <2>1. feedback[l] = rows
    OBVIOUS
  <2>2. DOMAIN rows = kept(l)
    OBVIOUS
  <2>3. rows \in [kept(l) -> FeedbackValues]
    BY <1>7, <1>8
  <2>4. l \notin w.ls => rows = d.feedback[l]
    BY <1>7, <1>8
  <2> HIDE DEF rows, feedback, kept
  <2> QED
    BY <1>8, <2>1, <2>2, <2>3, <2>4
<1>10. feedback \in [BundleIds -> RowSets]
  <2>1. ASSUME NEW l \in BundleIds PROVE feedback[l] \in RowSets
    <3> HIDE DEF feedback, kept
    <3>1. DOMAIN feedback[l] \in SUBSET FeedbackKeys
      BY <1>7, <1>9
    <3> QED
      BY <1>9, <3>1 DEF RowSets
  <2> QED
    BY <2>1
<1>11. rowsLeft \in [BundleIds -> Values] /\ accessed \in [BundleIds -> Values]
  BY <1>3, StoreFields DEF Values
<1> HIDE DEF feedback, kept, rowsLeft, accessed
<1>12. one \in DiskStore /\ one.metadata = rowsLeft /\ one.file = d.file
  BY <1>3, <1>11 DEF DiskStore
<1> HIDE DEF one
<1>13. two \in DiskStore /\ two.metadata = rowsLeft /\ two.accessed = accessed /\ two.file = d.file
  BY <1>12, <1>11 DEF DiskStore
<1> HIDE DEF two
<1>14. /\ nd \in DiskStore /\ nd.metadata = rowsLeft /\ nd.accessed = accessed /\ nd.file = d.file
       /\ nd.feedback = feedback
  BY <1>13, <1>10 DEF DiskStore
<1>15. nm \in MemStore
  <2>1. \A l \in BundleIds : (IF l \in w.ls THEN <<>> ELSE m.feedbacks[l]) \in Seq(FeedbackEntry)
    BY <1>3, StoreFields
  <2>2. /\ [l \in BundleIds |-> IF l \in w.ls THEN Absent ELSE m.bytes[l]] \in [BundleIds -> Values]
        /\ [l \in BundleIds |-> IF l \in w.ls THEN Absent ELSE m.metadata[l]] \in [BundleIds -> Values]
        /\ [l \in BundleIds |-> IF l \in w.ls THEN Absent ELSE m.accessed[l]] \in [BundleIds -> Values]
        /\ [l \in BundleIds |-> IF l \in w.ls THEN <<>> ELSE m.feedbacks[l]] \in [BundleIds -> Seq(FeedbackEntry)]
    BY <1>3, <2>1, StoreFields DEF Values
  <2> QED
    BY <2>2 DEF MemDelete, MemStore
<1>16. /\ nm.metadata = rowsLeft /\ nm.accessed = accessed
       /\ \A l \in BundleIds : /\ nm.bytes[l] = IF l \in w.ls THEN Absent ELSE m.bytes[l]
                               /\ nm.feedbacks[l] = IF l \in w.ls THEN <<>> ELSE m.feedbacks[l]
  BY <1>3 DEF MemDelete, rowsLeft, accessed, SameRows
<1> HIDE DEF nd, nm
<1>17. ASSUME NEW l \in BundleIds PROVE SameFeedback(nd.feedback[l], nm.feedbacks[l])
  <2>1. CASE l \in w.ls
    <3>1. DOMAIN nd.feedback[l] = {} /\ nm.feedbacks[l] = <<>>
      BY <1>9, <1>14, <1>16, <2>1
    <3> QED
      BY <3>1 DEF SameFeedback, RowEntries, ToSet
  <2>2. CASE l \notin w.ls
    <3>1. nd.feedback[l] = d.feedback[l] /\ nm.feedbacks[l] = m.feedbacks[l]
      BY <1>9, <1>14, <1>16, <2>2
    <3> QED
      BY <1>3, <3>1 DEF SameRows
  <2> QED
    BY <2>1, <2>2
<1>18. SameRows(nd, nm) /\ Halfway(Quiet, nd)
  BY <1>5, <1>14, <1>16, <1>17 DEF SameRows, Halfway
<1>19. FilesKept(nd, nm, Quiet, crashes[e])
  <2> SUFFICES ASSUME NEW l \in BundleIds, nd.file[l] # nm.bytes[l]
               PROVE  nd.file[l] = Absent /\ crashes[e] > 0
    BY DEF FilesKept
  <2>1. l \notin w.ls
    BY <1>1, <1>3, <1>14, <1>16 DEF Halfway
  <2> QED
    BY <1>3, <1>14, <1>16, <2>1 DEF FilesKept
<1> QED
  BY <1>1, <1>2, <1>4, <1>5, <1>14, <1>15, <1>18, <1>19, HolderStep
-----------------------------------------------------------------------------
(***************************************************************************)
(* The stores: a feedback is put if it is more powerful.                   *)
(***************************************************************************)
\* Every entry of the list is a row, and every row an entry of the list.
LEMMA RowsAndEntries ==
  ASSUME NEW rows, NEW entries \in Seq(FeedbackEntry)
  PROVE  RowEntries(rows) = ToSet(entries)
         <=> /\ \A i \in 1 .. Len(entries) :
                  entries[i].key \in DOMAIN rows /\ rows[entries[i].key] = entries[i].value
             /\ \A k \in DOMAIN rows :
                  \E i \in 1 .. Len(entries) : entries[i].key = k /\ entries[i].value = rows[k]
<1> DEFINE all == {[key |-> k, value |-> rows[k]] : k \in DOMAIN rows}
<1>1. ToSet(entries) = {entries[i] : i \in 1 .. Len(entries)}
  BY DEF ToSet
<1>2. \A i \in 1 .. Len(entries) : entries[i] = [key |-> entries[i].key, value |-> entries[i].value]
  <2>1. \A x \in FeedbackEntry : x = [key |-> x.key, value |-> x.value]
    BY DEF FeedbackEntry
  <2>2. \A i \in 1 .. Len(entries) : entries[i] \in FeedbackEntry
    OBVIOUS
  <2> QED
    BY <2>1, <2>2
<1>3. ASSUME all = ToSet(entries), NEW i \in 1 .. Len(entries)
      PROVE  entries[i].key \in DOMAIN rows /\ rows[entries[i].key] = entries[i].value
  <2>1. entries[i] \in all
    BY <1>1, <1>3
  <2> QED
    BY <2>1
<1>4. ASSUME all = ToSet(entries), NEW k \in DOMAIN rows
      PROVE  \E i \in 1 .. Len(entries) : entries[i].key = k /\ entries[i].value = rows[k]
  <2>1. [key |-> k, value |-> rows[k]] \in ToSet(entries)
    BY <1>4
  <2>2. PICK i \in 1 .. Len(entries) : [key |-> k, value |-> rows[k]] = entries[i]
    BY <2>1, <1>1
  <2> QED
    BY <2>2
<1>5. ASSUME \A i \in 1 .. Len(entries) :
               entries[i].key \in DOMAIN rows /\ rows[entries[i].key] = entries[i].value,
             \A k \in DOMAIN rows :
               \E i \in 1 .. Len(entries) : entries[i].key = k /\ entries[i].value = rows[k]
      PROVE  all = ToSet(entries)
  <2>1. ASSUME NEW x \in all PROVE x \in ToSet(entries)
    <3>1. PICK k \in DOMAIN rows : x = [key |-> k, value |-> rows[k]]
      BY <2>1
    <3>2. PICK i \in 1 .. Len(entries) : entries[i].key = k /\ entries[i].value = rows[k]
      BY <1>5
    <3> QED
      BY <1>1, <1>2, <3>1, <3>2
  <2>2. ASSUME NEW x \in ToSet(entries) PROVE x \in all
    <3>1. PICK i \in 1 .. Len(entries) : x = entries[i]
      BY <1>1, <2>2
    <3> QED
      BY <1>2, <1>5, <3>1
  <2> QED
    BY <2>1, <2>2
<1> QED
  BY <1>3, <1>4, <1>5 DEF RowEntries

LEMMA AppendedRow ==
  ASSUME NEW rows \in RowSets, NEW entries \in Seq(FeedbackEntry), NEW k \in FeedbackKeys, NEW v \in FeedbackValues,
         SameFeedback(rows, entries), \A i \in 1 .. Len(entries) : entries[i].key # k
  PROVE  LET after == Append(entries, [key |-> k, value |-> v]) IN
         after \in Seq(FeedbackEntry) /\ SameFeedback(DiskPutFeedback(rows, k, v), after)
<1> DEFINE entry == [key |-> k, value |-> v]
           after == Append(entries, entry)
           put == [x \in DOMAIN rows \cup {k} |-> IF x = k THEN v ELSE rows[x]]
<1>1. entry \in FeedbackEntry
  BY DEF FeedbackEntry
<1>2. /\ after \in Seq(FeedbackEntry) /\ Len(after) = Len(entries) + 1 /\ Len(entries) \in Nat
      /\ after[Len(entries) + 1] = entry
      /\ \A i \in 1 .. Len(entries) : after[i] = entries[i]
  BY <1>1
<1>3. /\ \A i \in 1 .. Len(entries) :
           entries[i].key \in DOMAIN rows /\ rows[entries[i].key] = entries[i].value
      /\ \A x \in DOMAIN rows :
           \E i \in 1 .. Len(entries) : entries[i].key = x /\ entries[i].value = rows[x]
  BY RowsAndEntries DEF SameFeedback
<1>4. k \notin DOMAIN rows
  BY <1>3
<1>5. DiskPutFeedback(rows, k, v) = put
  BY <1>4 DEF DiskPutFeedback
<1>6. DOMAIN put = DOMAIN rows \cup {k} /\ put[k] = v /\ \A x \in DOMAIN rows : put[x] = rows[x]
  BY <1>4
<1>7. entry.key = k /\ entry.value = v
  OBVIOUS
<1> HIDE DEF after, put, entry
<1>8. ASSUME NEW i \in 1 .. Len(after)
      PROVE  after[i].key \in DOMAIN put /\ put[after[i].key] = after[i].value
  <2>1. CASE i \in 1 .. Len(entries)
    <3>1. after[i] = entries[i] /\ entries[i].key \in DOMAIN rows /\ rows[entries[i].key] = entries[i].value
      BY <1>2, <1>3, <2>1
    <3> QED
      BY <1>6, <3>1
  <2>2. CASE i = Len(entries) + 1
    <3>1. after[i].key = k /\ after[i].value = v
      BY <1>2, <1>7, <2>2
    <3> QED
      BY <1>6, <3>1
  <2> QED
    BY <1>2, <2>1, <2>2
<1>9. ASSUME NEW x \in DOMAIN put
      PROVE  \E i \in 1 .. Len(after) : after[i].key = x /\ after[i].value = put[x]
  <2>1. CASE x = k
    BY <1>2, <1>6, <1>7, <2>1
  <2>2. CASE x \in DOMAIN rows
    <3>1. PICK i \in 1 .. Len(entries) : entries[i].key = x /\ entries[i].value = rows[x]
      BY <1>3, <2>2
    <3>2. i \in 1 .. Len(after) /\ after[i] = entries[i]
      BY <1>2
    <3> QED
      BY <1>6, <2>2, <3>1, <3>2
  <2> QED
    BY <1>6, <2>1, <2>2
<1>10. \A i, j \in 1 .. Len(after) : after[i].key = after[j].key => i = j
  <2>1. \A i, j \in 1 .. Len(entries) : entries[i].key = entries[j].key => i = j
    BY DEF SameFeedback
  <2> SUFFICES ASSUME NEW i \in 1 .. Len(after), NEW j \in 1 .. Len(after), after[i].key = after[j].key
               PROVE  i = j
    OBVIOUS
  <2>2. (i \in 1 .. Len(entries) \/ i = Len(entries) + 1) /\ (j \in 1 .. Len(entries) \/ j = Len(entries) + 1)
    BY <1>2
  <2> QED
    BY <1>2, <1>7, <2>1, <2>2
<1>11. RowEntries(put) = ToSet(after)
  BY <1>2, <1>8, <1>9, RowsAndEntries
<1> QED
  BY <1>2, <1>5, <1>10, <1>11 DEF SameFeedback, after, entry
LEMMA ReplacedRow ==
  ASSUME NEW rows \in RowSets, NEW entries \in Seq(FeedbackEntry), NEW k \in FeedbackKeys, NEW v \in FeedbackValues,
         SameFeedback(rows, entries), NEW i \in 1 .. Len(entries), entries[i].key = k,
         ~(entries[i].value.pow >= v.pow)
  PROVE  LET after == [entries EXCEPT ![i] = [entries[i] EXCEPT !.value = v]] IN
         after \in Seq(FeedbackEntry) /\ SameFeedback(DiskPutFeedback(rows, k, v), after)
<1> DEFINE entry == [entries[i] EXCEPT !.value = v]
           after == [entries EXCEPT ![i] = entry]
           put == [x \in DOMAIN rows \cup {k} |-> IF x = k THEN v ELSE rows[x]]
<1>1. /\ entries[i] \in FeedbackEntry /\ Len(entries) \in Nat /\ entries \in [1 .. Len(entries) -> FeedbackEntry]
  OBVIOUS
<1>2. entry \in FeedbackEntry /\ entry.key = k /\ entry.value = v
  BY <1>1 DEF FeedbackEntry
<1>3. /\ \A j \in 1 .. Len(entries) :
           entries[j].key \in DOMAIN rows /\ rows[entries[j].key] = entries[j].value
      /\ \A x \in DOMAIN rows :
           \E j \in 1 .. Len(entries) : entries[j].key = x /\ entries[j].value = rows[x]
      /\ \A j, h \in 1 .. Len(entries) : entries[j].key = entries[h].key => j = h
  BY RowsAndEntries DEF SameFeedback
<1>4. k \in DOMAIN rows /\ rows[k] = entries[i].value
  BY <1>3
<1>5. DiskPutFeedback(rows, k, v) = put
  BY <1>4 DEF DiskPutFeedback
<1>6. DOMAIN put = DOMAIN rows /\ put[k] = v /\ \A x \in DOMAIN rows : x # k => put[x] = rows[x]
  BY <1>4
<1> HIDE DEF entry
<1>7. /\ after \in Seq(FeedbackEntry) /\ Len(after) = Len(entries)
      /\ after[i] = entry
      /\ \A j \in 1 .. Len(entries) : j # i => after[j] = entries[j]
  BY <1>1, <1>2
<1> HIDE DEF after, put
<1>8. \A j \in 1 .. Len(after) : after[j].key = entries[j].key
  BY <1>2, <1>7
<1>9. ASSUME NEW j \in 1 .. Len(after)
      PROVE  after[j].key \in DOMAIN put /\ put[after[j].key] = after[j].value
  <2>1. CASE j = i
    <3>1. after[j].key = k /\ after[j].value = v
      BY <1>2, <1>7, <2>1
    <3> QED
      BY <1>4, <1>6, <3>1
  <2>2. CASE j # i
    <3>1. /\ after[j] = entries[j] /\ entries[j].key \in DOMAIN rows /\ rows[entries[j].key] = entries[j].value
          /\ entries[j].key # k
      BY <1>3, <1>7, <2>2
    <3> QED
      BY <1>6, <3>1
  <2> QED
    BY <2>1, <2>2
<1>10. ASSUME NEW x \in DOMAIN put
       PROVE  \E j \in 1 .. Len(after) : after[j].key = x /\ after[j].value = put[x]
  <2>1. CASE x = k
    <3>1. after[i].key = k /\ after[i].value = put[k]
      BY <1>2, <1>6, <1>7
    <3> QED
      BY <1>7, <2>1, <3>1
  <2>2. CASE x # k
    <3>1. PICK j \in 1 .. Len(entries) : entries[j].key = x /\ entries[j].value = rows[x]
      BY <1>3, <1>6
    <3>2. j # i
      BY <2>2, <3>1
    <3>3. j \in 1 .. Len(after) /\ after[j] = entries[j]
      BY <1>7, <3>2
    <3>4. put[x] = rows[x]
      BY <1>6, <2>2
    <3> QED
      BY <3>1, <3>3, <3>4
  <2> QED
    BY <2>1, <2>2
<1>11. \A j, h \in 1 .. Len(after) : after[j].key = after[h].key => j = h
  BY <1>3, <1>7, <1>8
<1>12. RowEntries(put) = ToSet(after)
  BY <1>7, <1>9, <1>10, RowsAndEntries
<1> QED
  BY <1>5, <1>7, <1>11, <1>12 DEF SameFeedback, after, entry

\* What both stores do with a feedback: append it, replace the weaker one, or keep the stronger one.
LEMMA FeedbackPut ==
  ASSUME NEW d \in DiskStore, NEW m \in MemStore, NEW l \in BundleIds, NEW k \in FeedbackKeys,
         NEW v \in FeedbackValues, SameFeedback(d.feedback[l], m.feedbacks[l])
  PROVE  \E after \in Seq(FeedbackEntry) :
           /\ MemPutFeedback(m, l, k, v) = [m EXCEPT !.feedbacks = [m.feedbacks EXCEPT ![l] = after]]
           /\ SameFeedback(DiskPutFeedback(d.feedback[l], k, v), after)
<1> DEFINE rows == d.feedback[l]
           entries == m.feedbacks[l]
           at == {i \in 1 .. Len(entries) : entries[i].key = k}
           chosen == CHOOSE i \in at : TRUE
<1>1. rows \in RowSets /\ entries \in Seq(FeedbackEntry) /\ m.feedbacks \in [BundleIds -> Seq(FeedbackEntry)]
  BY StoreFields
<1>2. CASE at = {}
  <2> DEFINE after == Append(entries, [key |-> k, value |-> v])
  <2>1. MemPutFeedback(m, l, k, v) = [m EXCEPT !.feedbacks = [m.feedbacks EXCEPT ![l] = after]]
    BY <1>2 DEF MemPutFeedback
  <2>2. \A i \in 1 .. Len(entries) : entries[i].key # k
    BY <1>2
  <2>3. after \in Seq(FeedbackEntry) /\ SameFeedback(DiskPutFeedback(rows, k, v), after)
    BY <1>1, <2>2, AppendedRow
  <2> QED
    BY <2>1, <2>3
<1>3. CASE at # {}
  <2>1. chosen \in 1 .. Len(entries) /\ entries[chosen].key = k
    BY <1>3
  <2>2. k \in DOMAIN rows /\ rows[k] = entries[chosen].value
    <3> HIDE DEF rows, entries, chosen
    <3>1. \A i \in 1 .. Len(entries) : entries[i].key \in DOMAIN rows /\ rows[entries[i].key] = entries[i].value
      BY <1>1, RowsAndEntries DEF SameFeedback, rows, entries
    <3> QED
      BY <2>1, <3>1
  <2>3. CASE entries[chosen].value.pow >= v.pow
    <3>1. MemPutFeedback(m, l, k, v) = m
      BY <1>3, <2>3 DEF MemPutFeedback
    <3>2. m = [m EXCEPT !.feedbacks = [m.feedbacks EXCEPT ![l] = entries]]
      BY <1>1 DEF MemStore
    <3>3. DiskPutFeedback(rows, k, v) = rows
      BY <2>2, <2>3 DEF DiskPutFeedback
    <3> QED
      BY <1>1, <3>1, <3>2, <3>3
  <2>4. CASE ~(entries[chosen].value.pow >= v.pow)
    <3> DEFINE after == [entries EXCEPT ![chosen] = [entries[chosen] EXCEPT !.value = v]]
    <3>1. MemPutFeedback(m, l, k, v) = [m EXCEPT !.feedbacks[l][chosen].value = v]
      BY <1>3, <2>4 DEF MemPutFeedback
    <3>2. MemPutFeedback(m, l, k, v) = [m EXCEPT !.feedbacks = [m.feedbacks EXCEPT ![l] = after]]
      BY <3>1
    <3>3. after \in Seq(FeedbackEntry) /\ SameFeedback(DiskPutFeedback(rows, k, v), after)
      <4> HIDE DEF chosen
      <4> QED
        BY <1>1, <2>1, <2>4, ReplacedRow
    <3> QED
      BY <3>2, <3>3
  <2> QED
    BY <2>3, <2>4
<1> QED
  BY <1>2, <1>3
LEMMA PutFeedbackStep ==
  ASSUME StoresInd, NEW p \in Processes, NEW l \in BundleIds, NEW k \in FeedbackKeys, NEW v \in FeedbackValues,
         PutFeedback(p, l, k, v)
  PROVE  StoresInd'
<1> DEFINE e == holding[p]
           d == disk[e]
           m == mem[e]
           rows == DiskPutFeedback(d.feedback[l], k, v)
           nd == [d EXCEPT !.feedback = [d.feedback EXCEPT ![l] = rows]]
           nm == MemPutFeedback(m, l, k, v)
<1>1. /\ e # 0 /\ underway[p] = Quiet
      /\ disk' = [disk EXCEPT ![e] = nd] /\ mem' = [mem EXCEPT ![e] = nm]
      /\ UNCHANGED <<trying, holding, underway, crashes>>
  BY DEF PutFeedback, Begins, Ready
<1>2. /\ e \in Environments /\ d \in DiskStore /\ m \in MemStore
      /\ SameRows(d, m) /\ FilesKept(d, m, underway[p], crashes[e])
  BY <1>1, Holding
<1>3. underway' = [underway EXCEPT ![p] = Quiet] /\ Quiet \in StoreCall /\ Quiet.op = "none"
  BY <1>1 DEF StoresInd, StoresTypeOK, StoreCall, Quiet
<1> HIDE DEF d, m
<1>4. rows \in RowSets
  <2>1. d.feedback[l] \in RowSets
    BY <1>2, StoreFields
  <2>2. PICK keys \in SUBSET FeedbackKeys : d.feedback[l] \in [keys -> FeedbackValues]
    BY <2>1 DEF RowSets
  <2>3. rows \in [keys -> FeedbackValues] \/ rows \in [keys \cup {k} -> FeedbackValues]
    BY <2>2 DEF DiskPutFeedback
  <2>4. keys \cup {k} \in SUBSET FeedbackKeys
    OBVIOUS
  <2> HIDE DEF rows
  <2> QED
    BY <2>3, <2>4 DEF RowSets
<1> HIDE DEF rows
<1>5. PICK after \in Seq(FeedbackEntry) :
           /\ nm = [m EXCEPT !.feedbacks = [m.feedbacks EXCEPT ![l] = after]]
           /\ SameFeedback(rows, after)
  BY <1>2, FeedbackPut DEF SameRows, rows
<1> HIDE DEF nm
<1>6. /\ [d.feedback EXCEPT ![l] = rows] \in [BundleIds -> RowSets]
      /\ [m.feedbacks EXCEPT ![l] = after] \in [BundleIds -> Seq(FeedbackEntry)]
      /\ \A x \in BundleIds : /\ [d.feedback EXCEPT ![l] = rows][x] = IF x = l THEN rows ELSE d.feedback[x]
                              /\ [m.feedbacks EXCEPT ![l] = after][x] = IF x = l THEN after ELSE m.feedbacks[x]
  BY <1>2, <1>4, <1>5, StoreFields
<1>7. /\ nd \in DiskStore /\ nd.file = d.file /\ nd.metadata = d.metadata /\ nd.accessed = d.accessed
      /\ nd.feedback = [d.feedback EXCEPT ![l] = rows]
  BY <1>2, <1>6 DEF DiskStore
<1>8. /\ nm \in MemStore /\ nm.bytes = m.bytes /\ nm.metadata = m.metadata /\ nm.accessed = m.accessed
      /\ nm.feedbacks = [m.feedbacks EXCEPT ![l] = after]
  BY <1>2, <1>5, <1>6 DEF MemStore
<1> HIDE DEF nd
<1>9. ASSUME NEW x \in BundleIds PROVE SameFeedback(nd.feedback[x], nm.feedbacks[x])
  <2>1. CASE x = l
    BY <1>5, <1>6, <1>7, <1>8, <2>1
  <2>2. CASE x # l
    <3>1. nd.feedback[x] = d.feedback[x] /\ nm.feedbacks[x] = m.feedbacks[x]
      BY <1>6, <1>7, <1>8, <2>2
    <3> QED
      BY <1>2, <3>1 DEF SameRows
  <2> QED
    BY <2>1, <2>2
<1>10. SameRows(nd, nm) /\ FilesKept(nd, nm, Quiet, crashes[e]) /\ Halfway(Quiet, nd)
  BY <1>1, <1>2, <1>3, <1>7, <1>8, <1>9 DEF SameRows, FilesKept, Halfway
<1> QED
  BY <1>1, <1>3, <1>7, <1>8, <1>10, HolderStep
-----------------------------------------------------------------------------
(***************************************************************************)
(* The stores: opening, and the death of a process.                        *)
(***************************************************************************)
LEMMA OpenNextAvailableStep ==
  ASSUME StoresInd, NEW p \in Processes, OpenNextAvailable(p)
  PROVE  StoresInd'
<1>1. trying[p] \in Environments /\ holding[p] = 0 /\ underway[p].op = "none" /\ trying[p] \in Nat
      /\ trying[p] # 0 /\ trying[p] + 1 \in 0 .. MaxEnvironments + 1
  BY StoresBounds DEF OpenNextAvailable, StoresInd, StoresTypeOK, HeldWell
<1>2. UNCHANGED <<underway, disk, mem, crashes>>
  BY DEF OpenNextAvailable
<1>3. CASE TryLock(trying[p]) /\ holding' = [holding EXCEPT ![p] = trying[p]] /\ trying' = [trying EXCEPT ![p] = 0]
  <2>1. /\ \A q \in Processes : holding'[q] = IF q = p THEN trying[p] ELSE holding[q]
        /\ \A q \in Processes : trying'[q] = IF q = p THEN 0 ELSE trying[q]
    BY <1>3 DEF StoresInd, StoresTypeOK
  <2>2. StoresTypeOK'
    BY <1>1, <1>2, <1>3, StoresBounds DEF StoresInd, StoresTypeOK
  <2>3. OneHolder'
    BY <1>3, <2>1 DEF StoresInd, OneHolder, TryLock
  <2>4. ASSUME NEW q \in Processes
        PROVE  /\ underway[q].op # "none" => holding'[q] # 0
               /\ trying'[q] # 0 => holding'[q] = 0
               /\ holding'[q] # 0 => Halfway(underway[q], disk[holding'[q]])
    <3>1. CASE q = p
      <4>1. Halfway(underway[q], disk[holding'[q]])
        BY <1>1, <3>1 DEF Halfway
      <4> QED
        BY <1>1, <2>1, <3>1, <4>1
    <3>2. CASE q # p
      BY <2>1, <3>2 DEF StoresInd, HeldWell
    <3> QED
      BY <3>1, <3>2
  <2>5. ASSUME NEW f \in Environments, NEW l \in BundleIds, BeingDeleted(f, l) PROVE BeingDeleted(f, l)'
    BY <1>1, <1>2, <2>1, <2>5 DEF BeingDeleted
  <2>6. HeldWell'
    BY <1>2, <2>4 DEF HeldWell, Halfway, FeedbackKeysToDelete
  <2>7. \A f \in Environments : SameRows(disk[f], mem[f])'
    BY <1>2 DEF StoresInd
  <2> QED
    BY <1>2, <2>2, <2>3, <2>5, <2>6, <2>7 DEF StoresInd
<1>4. CASE trying' = [trying EXCEPT ![p] = trying[p] + 1] /\ UNCHANGED holding
  <2>1. StoresTypeOK'
    BY <1>1, <1>2, <1>4 DEF StoresInd, StoresTypeOK
  <2>2. HeldWell'
    BY <1>1, <1>2, <1>4 DEF StoresInd, StoresTypeOK, HeldWell
  <2> QED
    BY <1>2, <1>4, <2>1, <2>2 DEF StoresInd, OneHolder, BeingDeleted
<1> QED
  BY <1>3, <1>4 DEF OpenNextAvailable

LEMMA NoneAvailableStep ==
  ASSUME StoresInd, NEW p \in Processes, NoneAvailable(p)
  PROVE  StoresInd'
<1>1. trying' = [trying EXCEPT ![p] = 1] /\ UNCHANGED <<holding, underway, disk, mem, crashes>> /\ trying[p] # 0
  BY StoresBounds DEF NoneAvailable
<1>2. 1 \in 0 .. MaxEnvironments + 1
  BY StoresBounds
<1>3. StoresTypeOK'
  BY <1>1, <1>2 DEF StoresInd, StoresTypeOK
<1>4. HeldWell'
  BY <1>1 DEF StoresInd, StoresTypeOK, HeldWell
<1> QED
  BY <1>1, <1>3, <1>4 DEF StoresInd, OneHolder, BeingDeleted

\* A death leaves what is on disk; the environment it held counts it.
LEMMA CrashStep ==
  ASSUME StoresInd, NEW p \in Processes, Crash(p)
  PROVE  StoresInd'
<1> DEFINE e == holding[p]
<1>1. /\ e # 0 /\ crashes' = [crashes EXCEPT ![e] = crashes[e] + 1] /\ holding' = [holding EXCEPT ![p] = 0]
      /\ underway' = [underway EXCEPT ![p] = Quiet] /\ trying' = [trying EXCEPT ![p] = 1]
      /\ UNCHANGED <<disk, mem>>
  BY DEF Crash
<1>2. e \in Environments /\ crashes[e] \in Nat
  BY <1>1, Holding
<1>3. Quiet \in StoreCall /\ Quiet.op = "none" /\ 1 \in 0 .. MaxEnvironments + 1 /\ 0 \in 0 .. MaxEnvironments
  BY StoresBounds DEF StoreCall, Quiet
<1>4. /\ \A q \in Processes : holding'[q] = IF q = p THEN 0 ELSE holding[q]
      /\ \A q \in Processes : trying'[q] = IF q = p THEN 1 ELSE trying[q]
      /\ \A q \in Processes : underway'[q] = IF q = p THEN Quiet ELSE underway[q]
      /\ \A f \in Environments : crashes'[f] = IF f = e THEN crashes[e] + 1 ELSE crashes[f]
  BY <1>1 DEF StoresInd, StoresTypeOK
<1>5. StoresTypeOK'
  BY <1>1, <1>2, <1>3 DEF StoresInd, StoresTypeOK
<1>6. OneHolder'
  BY <1>4 DEF StoresInd, OneHolder
<1>7. HeldWell'
  <2> SUFFICES ASSUME NEW q \in Processes
               PROVE  /\ underway'[q].op # "none" => holding'[q] # 0
                      /\ trying'[q] # 0 => holding'[q] = 0
                      /\ holding'[q] # 0 => Halfway(underway'[q], disk[holding'[q]])
    BY <1>1 DEF HeldWell, Halfway, FeedbackKeysToDelete
  <2>1. CASE q = p
    BY <1>3, <1>4, <2>1
  <2>2. CASE q # p
    BY <1>4, <2>2 DEF StoresInd, HeldWell
  <2> QED
    BY <2>1, <2>2
<1>8. ASSUME NEW f \in Environments, NEW l \in BundleIds, disk[f].file[l] # mem[f].bytes[l]
      PROVE  disk[f].file[l] = Absent /\ (BeingDeleted(f, l)' \/ crashes'[f] > 0)
  <2>1. disk[f].file[l] = Absent /\ (BeingDeleted(f, l) \/ crashes[f] > 0)
    BY <1>8 DEF StoresInd
  <2>2. CASE f = e
    BY <1>2, <1>4, <2>1, <2>2
  <2>3. CASE f # e
    <3>1. BeingDeleted(f, l) => BeingDeleted(f, l)'
      BY <1>4, <2>3 DEF BeingDeleted
    <3> QED
      BY <1>4, <2>1, <2>3, <3>1
  <2> QED
    BY <2>2, <2>3
<1>9. \A f \in Environments : SameRows(disk[f], mem[f])'
  BY <1>1 DEF StoresInd
<1> QED
  BY <1>1, <1>5, <1>6, <1>7, <1>8, <1>9 DEF StoresInd
LEMMA StoresNextStep == StoresInd /\ [EnvironmentStoresNext]_storeVars => StoresInd'
<1> SUFFICES ASSUME StoresInd, [EnvironmentStoresNext]_storeVars PROVE StoresInd'
  OBVIOUS
<1>1. CASE \E p \in Processes : OpenNextAvailable(p) \/ NoneAvailable(p) \/ Crash(p)
  BY <1>1, OpenNextAvailableStep, NoneAvailableStep, CrashStep
<1>2. CASE \E p \in Processes : BytesPutWritten(p) \/ BytesPutRename(p) \/ DeleteFile(p) \/ DeleteCommit(p)
  BY <1>2, BytesPutWrittenStep, BytesPutRenameStep, DeleteFileStep, DeleteCommitStep
<1>3. CASE \E p \in Processes, l \in BundleIds :
             \/ \E v \in BundleTexts : Put(p, l, v) \/ BytesPutBegin(p, l, v)
             \/ \E k \in FeedbackKeys, v \in FeedbackValues : PutFeedback(p, l, k, v)
  BY <1>3, PutStep, BytesPutBeginStep, PutFeedbackStep
<1>4. CASE \E p \in Processes, ls \in SUBSET BundleIds :
             DeleteBegin(p, ls) \/ \E t \in BundleTexts : LastAccessedFlush(p, [l \in ls |-> t])
  BY <1>4, DeleteBeginStep, LastAccessedFlushStep
<1>5. CASE UNCHANGED storeVars
  BY <1>5 DEF storeVars, StoresInd, StoresTypeOK, OneHolder, HeldWell, BeingDeleted
<1> QED
  BY <1>1, <1>2, <1>3, <1>4, <1>5 DEF EnvironmentStoresNext

\* What the disk and the memory store hold, in every state of the stores: each environment has
\* one holder, a rename finds the whole text, and a deletion has collected the rows that are there.
THEOREM StoresInductive == EnvironmentStoresSpec => []StoresInd
<1>1. EnvironmentStoresInit => StoresInd
  BY StoresStart
<1>2. StoresInd /\ [EnvironmentStoresNext]_storeVars => StoresInd'
  BY StoresNextStep
<1> QED
  BY <1>1, <1>2, PTL DEF EnvironmentStoresSpec

\* What is answered and who holds the lock, in a state of the invariant.
LEMMA StoresAgreeing == StoresInd => OneHolder /\ StoresAgree
<1> SUFFICES ASSUME StoresInd PROVE OneHolder /\ StoresAgree
  OBVIOUS
<1>1. ASSUME NEW e \in Environments, NEW l \in BundleIds
      PROVE  RowEntries(disk[e].feedback[l]) = ToSet(mem[e].feedbacks[l])
  BY DEF StoresInd, SameRows, SameFeedback
<1>2. \A e \in Environments : disk[e].metadata = mem[e].metadata /\ disk[e].accessed = mem[e].accessed
  BY DEF StoresInd, SameRows
<1> QED
  BY <1>1, <1>2 DEF StoresInd, StoresAgree, RowEntries

-----------------------------------------------------------------------------
(***************************************************************************)
(* The stores: the walk of a decimation.                                   *)
(***************************************************************************)
\* The order of the rows is one.
LEMMA BeforeOrders ==
  ASSUME NEW rows \in SUBSET BundleIds
  PROVE  IsFiniteSet(rows) /\ Orders(rows, [l \in rows |-> {k \in rows : Before(k, l)}])
<1> DEFINE below == [l \in rows |-> {k \in rows : Before(k, l)}]
<1>1. \A l \in BundleIds : l = <<l[1], l[2]>> /\ l[1] \in Nat /\ l[2] \in Nat
  <2>1. BundleIds \subseteq (0 .. 255) \X (0 .. 255)
    BY EnvironmentStoresAssumption
  <2> QED
    BY <2>1
<1>2. IsFiniteSet(rows)
  <2>1. IsFiniteSet(0 .. 255)
    <3>1. 0 \in Int /\ 255 \in Int
      OBVIOUS
    <3> QED
      BY <3>1, FS_Interval
  <2>2. IsFiniteSet((0 .. 255) \X (0 .. 255))
    BY <2>1, FS_Product
  <2>3. rows \in SUBSET ((0 .. 255) \X (0 .. 255))
    BY EnvironmentStoresAssumption
  <2> QED
    BY <2>2, <2>3, FS_Subset
<1>3. below \in [rows -> SUBSET rows] /\ \A k, l \in rows : k \in below[l] <=> Before(k, l)
  OBVIOUS
<1> HIDE DEF below
<1>4. \A k \in rows : k \notin below[k]
  BY <1>1, <1>3 DEF Before
<1>5. ASSUME NEW k \in rows, NEW l \in rows, k \in below[l], NEW x \in below[k] PROVE x \in below[l]
  <2>1. x \in rows /\ Before(x, k) /\ Before(k, l)
    BY <1>3, <1>5
  <2>2. Before(x, l)
    BY <1>1, <2>1 DEF Before
  <2> QED
    BY <1>3, <2>1, <2>2
<1>6. ASSUME NEW k \in rows, NEW l \in rows PROVE k = l \/ k \in below[l] \/ l \in below[k]
  <2>1. Before(k, l) \/ Before(l, k) \/ (k[1] = l[1] /\ k[2] = l[2])
    BY <1>1 DEF Before
  <2> QED
    BY <1>1, <1>3, <2>1
<1>7. Orders(rows, below)
  BY <1>3, <1>4, <1>5, <1>6 DEF Orders
<1> QED
  BY <1>2, <1>7 DEF below

\* The rows in order are all of them, each once.
LEMMA InOrderMeetsAll ==
  ASSUME NEW rows \in SUBSET BundleIds
  PROVE  /\ Cardinality(rows) \in Nat /\ InOrder(rows) \in [1 .. Cardinality(rows) -> rows]
         /\ \A l \in rows : \E i \in 1 .. Cardinality(rows) : InOrder(rows)[i] = l
<1> DEFINE n == Cardinality(rows)
           below == [l \in rows |-> {k \in rows : Before(k, l)}]
           rank == [l \in rows |-> Cardinality({k \in rows : Before(k, l)})]
<1>1. IsFiniteSet(rows) /\ Orders(rows, below) /\ n \in Nat
  BY BeforeOrders, FS_CardinalityType
<1>2. \A l \in rows : below[l] = {k \in rows : Before(k, l)}
  OBVIOUS
<1> HIDE DEF below
<1>3. ASSUME NEW l \in rows PROVE rank[l] \in 0 .. n - 1 /\ rank[l] = Cardinality(below[l])
  BY <1>1, <1>2, RankGrows
<1>4. ASSUME NEW k \in rows, NEW l \in rows, rank[k] = rank[l] PROVE k = l
  <2>1. Cardinality(below[k]) = Cardinality(below[l])
    BY <1>3, <1>4
  <2>2. k \notin below[l] /\ l \notin below[k]
    BY <1>1, <1>3, <2>1, RankGrows
  <2> QED
    BY <1>1, <2>2 DEF Orders
<1>5. rank \in Surjection(rows, 0 .. n - 1)
  <2>1. rank \in Injection(rows, 0 .. n - 1)
    <3>1. rank \in [rows -> 0 .. n - 1]
      BY <1>3
    <3> HIDE DEF rank
    <3> QED
      BY <1>4, <3>1 DEF Injection, IsInjective
  <2>2. IsFiniteSet(0 .. n - 1) /\ Cardinality(0 .. n - 1) = n
    <3> HIDE DEF n
    <3>1. 0 \in Int /\ n - 1 \in Int /\ (0 > n - 1 => n = 0)
      BY <1>1
    <3>2. IsFiniteSet(0 .. n - 1) /\ Cardinality(0 .. n - 1) = IF 0 > n - 1 THEN 0 ELSE n - 1 - 0 + 1
      BY <3>1, FS_Interval
    <3> QED
      BY <1>1, <3>1, <3>2
  <2> QED
    BY <1>1, <2>1, <2>2, FS_Injection
<1>6. ASSUME NEW i \in 1 .. n PROVE InOrder(rows)[i] \in rows /\ rank[InOrder(rows)[i]] = i - 1
  <2>1. i - 1 \in 0 .. n - 1
    BY <1>1
  <2>2. \E l \in rows : rank[l] = i - 1
    BY <1>5, <2>1 DEF Surjection
  <2>3. InOrder(rows)[i] = CHOOSE l \in rows : Cardinality({k \in rows : Before(k, l)}) = i - 1
    BY DEF InOrder
  <2> QED
    BY <2>2, <2>3
<1>7. InOrder(rows) \in [1 .. n -> rows]
  BY <1>6 DEF InOrder
<1>8. ASSUME NEW l \in rows PROVE \E i \in 1 .. n : InOrder(rows)[i] = l
  <2> DEFINE i == rank[l] + 1
  <2>0. rank[l] \in 0 .. n - 1
    BY <1>3
  <2>1. i \in 1 .. n /\ i - 1 = rank[l]
    <3> HIDE DEF rank, n
    <3> QED
      BY <1>1, <2>0
  <2> HIDE DEF i, rank
  <2>2. InOrder(rows)[i] \in rows /\ rank[InOrder(rows)[i]] = rank[l]
    BY <1>6, <2>1
  <2>3. InOrder(rows)[i] = l
    BY <1>4, <2>2
  <2> QED
    BY <2>1, <2>3
<1> QED
  BY <1>1, <1>7, <1>8

\* A walk that starts anywhere in the order goes round once.
LEMMA CyclicMeetsAll ==
  ASSUME NEW rows \in SUBSET BundleIds, NEW start
  PROVE  ToSet(Cyclic(rows, start)) = rows /\ Len(Cyclic(rows, start)) = Cardinality(rows)
<1> DEFINE upTo == {l \in rows : Before(l, start)}
           later == rows \ upTo
           s == InOrder(later)
           t == InOrder(upTo)
           a == Cardinality(later)
           b == Cardinality(upTo)
<1>1. /\ a \in Nat /\ s \in [1 .. a -> later] /\ \A l \in later : \E i \in 1 .. a : s[i] = l
      /\ b \in Nat /\ t \in [1 .. b -> upTo] /\ \A l \in upTo : \E i \in 1 .. b : t[i] = l
  <2>1. later \in SUBSET BundleIds /\ upTo \in SUBSET BundleIds
    OBVIOUS
  <2> HIDE DEF later, upTo
  <2> QED
    BY <2>1, InOrderMeetsAll
<1>2. Cyclic(rows, start) = s \o t
  BY DEF Cyclic
<1>3. Cardinality(rows) = a + b
  <2>1. IsFiniteSet(rows) /\ upTo \in SUBSET rows
    BY BeforeOrders
  <2>2. IsFiniteSet(upTo) /\ IsFiniteSet(later) /\ upTo \cap later = {} /\ rows = later \cup upTo /\ later \cap upTo = {}
    BY <2>1, FS_Subset
  <2>3. Cardinality(later \cup upTo) = Cardinality(later) + Cardinality(upTo) - Cardinality(later \cap upTo)
    BY <2>2, FS_Union
  <2>4. Cardinality(later \cap upTo) = 0
    BY <2>2, FS_EmptySet
  <2> HIDE DEF later, upTo
  <2> QED
    BY <1>1, <2>2, <2>3, <2>4
<1>4. later \subseteq rows /\ upTo \subseteq rows /\ \A l \in rows : l \in later \/ l \in upTo
  OBVIOUS
<1> HIDE DEF later, upTo, s, t, a, b
<1>5. s \in Seq(rows) /\ Len(s) = a /\ t \in Seq(rows) /\ Len(t) = b
  BY <1>1, <1>4
<1>6. Len(s \o t) = a + b /\ \A i \in 1 .. a + b : (s \o t)[i] = IF i <= a THEN s[i] ELSE t[i - a]
  BY <1>5
<1>7. DOMAIN (s \o t) = 1 .. a + b
  BY <1>1, <1>5, <1>6
<1>8. ToSet(s \o t) = {(s \o t)[i] : i \in 1 .. a + b}
  BY <1>7 DEF ToSet
<1>9. ASSUME NEW i \in 1 .. a + b PROVE (s \o t)[i] \in rows
  <2>1. CASE i <= a
    BY <1>1, <1>4, <1>6, <2>1
  <2>2. CASE ~(i <= a)
    <3>1. i - a \in 1 .. b
      BY <1>1, <2>2
    <3> QED
      BY <1>1, <1>4, <1>6, <2>2, <3>1
  <2> QED
    BY <2>1, <2>2
<1>10. ASSUME NEW l \in rows PROVE \E i \in 1 .. a + b : (s \o t)[i] = l
  <2>1. CASE l \in later
    <3>1. PICK i \in 1 .. a : s[i] = l
      BY <1>1, <2>1
    <3>2. i \in 1 .. a + b /\ i <= a
      BY <1>1
    <3> QED
      BY <1>6, <3>1, <3>2
  <2>2. CASE l \in upTo
    <3>1. PICK i \in 1 .. b : t[i] = l
      BY <1>1, <2>2
    <3>2. a + i \in 1 .. a + b /\ ~(a + i <= a) /\ (a + i) - a = i
      BY <1>1
    <3> QED
      BY <1>6, <3>1, <3>2
  <2> QED
    BY <1>4, <2>1, <2>2
<1> QED
  BY <1>2, <1>3, <1>6, <1>8, <1>9, <1>10

\* A decimation meets every row once in either store, wherever its walk starts.
LEMMA WalksMeetAll == StoresInd => WalksEveryRow
<1> SUFFICES ASSUME StoresInd, NEW e \in Environments, NEW start \in BundleIds
             PROVE  LET rows == {l \in BundleIds : mem[e].accessed[l] # Absent}
                    IN  \A walk \in {MemIter(mem[e], start), DiskIter(disk[e], start)} :
                            ToSet(walk) = rows /\ Len(walk) = Cardinality(rows)
  BY DEF WalksEveryRow
<1> DEFINE rows == {l \in BundleIds : mem[e].accessed[l] # Absent}
<1>1. rows \in SUBSET BundleIds
  OBVIOUS
<1>2. rows = {l \in BundleIds : disk[e].accessed[l] # Absent}
  BY DEF StoresInd, SameRows
<1> HIDE DEF rows
<1>3. ToSet(Cyclic(rows, start)) = rows /\ Len(Cyclic(rows, start)) = Cardinality(rows)
  BY <1>1, CyclicMeetsAll
<1>4. ToSet(Cyclic(rows, IdToString(start))) = rows /\ Len(Cyclic(rows, IdToString(start))) = Cardinality(rows)
  BY <1>1, CyclicMeetsAll
<1>5. MemIter(mem[e], start) = Cyclic(rows, start)
  BY DEF MemIter, rows
<1>6. DiskIter(disk[e], start) = Cyclic(rows, IdToString(start))
  BY <1>2 DEF DiskIter
<1> QED
  BY <1>3, <1>4, <1>5, <1>6 DEF rows

\* The lock of an environment has one holder, the disk store answers what the memory store of the
\* tests answers, and the walk of a decimation meets every row once in either, however openings,
\* deaths and the steps of the calls interleave.
THEOREM StoresAlwaysConsistent == EnvironmentStoresSpec => []StoresConsistent
<1>1. StoresInd => StoresConsistent
  BY StoresAgreeing, WalksMeetAll DEF StoresConsistent
<1> QED
  BY <1>1, StoresInductive, PTL

-----------------------------------------------------------------------------
(***************************************************************************)
(* The client's storage: SQLite and IndexedDB (StorageBackends).           *)
(***************************************************************************)
KeySets == {D \in SUBSET StoreKeys : IsFiniteSet(D)}

\* Finite functions of keys.
Kept(V) == UNION {[D -> V] : D \in KeySets}

Row == [value : StoreValues, last_accessed : 0 .. MaxTouch]

\* What the backends hold is typed, and the two object stores have the same keys.
StorageInd ==
  /\ table \in [Buckets -> Kept(Row)]
  /\ idbRecords \in [Buckets -> Kept(StoreValues)]
  /\ idbMetadata \in [Buckets -> Kept(0 .. MaxTouch)]
  /\ \A b \in Buckets : DOMAIN idbRecords[b] = DOMAIN idbMetadata[b]

LEMMA KeptIs ==
  ASSUME NEW V, NEW f
  PROVE  f \in Kept(V) <=> f \in [DOMAIN f -> V] /\ DOMAIN f \subseteq StoreKeys /\ IsFiniteSet(DOMAIN f)
<1>1. ASSUME f \in Kept(V) PROVE f \in [DOMAIN f -> V] /\ DOMAIN f \subseteq StoreKeys /\ IsFiniteSet(DOMAIN f)
  <2>1. PICK D \in KeySets : f \in [D -> V]
    BY <1>1 DEF Kept
  <2> QED
    BY <2>1 DEF KeySets
<1>2. ASSUME f \in [DOMAIN f -> V], DOMAIN f \subseteq StoreKeys, IsFiniteSet(DOMAIN f) PROVE f \in Kept(V)
  <2>1. DOMAIN f \in KeySets
    BY <1>2 DEF KeySets
  <2> QED
    BY <1>2, <2>1 DEF Kept
<1> QED
  BY <1>1, <1>2

LEMMA NoneKept ==
  ASSUME NEW V
  PROVE  CS!NoEntries \in Kept(V) /\ DOMAIN CS!NoEntries = {}
<1>1. DOMAIN CS!NoEntries = {} /\ CS!NoEntries \in [{} -> V]
  BY DEF CS!NoEntries
<1> QED
  BY <1>1, KeptIs, FS_EmptySet

LEMMA WithIs ==
  ASSUME NEW f, NEW k, NEW v
  PROVE  /\ DOMAIN CS!With(f, k, v) = DOMAIN f \cup {k}
         /\ \A x \in DOMAIN f \cup {k} : CS!With(f, k, v)[x] = IF x = k THEN v ELSE f[x]
BY DEF CS!With

LEMMA WithKept ==
  ASSUME NEW V, NEW f \in Kept(V), NEW k \in StoreKeys, NEW v \in V
  PROVE  CS!With(f, k, v) \in Kept(V)
<1>1. f \in [DOMAIN f -> V] /\ DOMAIN f \subseteq StoreKeys /\ IsFiniteSet(DOMAIN f)
  BY KeptIs
<1>2. CS!With(f, k, v) \in [DOMAIN f \cup {k} -> V]
  BY <1>1 DEF CS!With
<1>3. IsFiniteSet(DOMAIN f \cup {k})
  BY <1>1, FS_AddElement
<1> QED
  BY <1>1, <1>2, <1>3, WithIs, KeptIs

LEMMA RestrictKept ==
  ASSUME NEW V, NEW f \in Kept(V), NEW S \in SUBSET DOMAIN f
  PROVE  /\ Restrict(f, S) \in Kept(V) /\ DOMAIN Restrict(f, S) = S
         /\ \A x \in S : Restrict(f, S)[x] = f[x]
<1>1. f \in [DOMAIN f -> V] /\ DOMAIN f \subseteq StoreKeys /\ IsFiniteSet(DOMAIN f)
  BY KeptIs
<1>2. DOMAIN Restrict(f, S) = S /\ Restrict(f, S) \in [S -> V] /\ \A x \in S : Restrict(f, S)[x] = f[x]
  BY <1>1 DEF Restrict
<1>3. IsFiniteSet(S)
  BY <1>1, FS_Subset
<1> QED
  BY <1>1, <1>2, <1>3, KeptIs

\* SQLite.
LEMMA SqlWrites ==
  ASSUME NEW rows \in Kept(Row), NEW k \in StoreKeys, NEW v \in StoreValues, NEW time \in 0 .. MaxTouch
  PROVE  SqlPut(rows, k, v, time) \in Kept(Row) /\ SqlPut(rows, k, v, time) = CS!Put(rows, k, v, time)
<1>1. [value |-> v, last_accessed |-> time] \in Row
  BY DEF Row
<1> QED
  BY <1>1, WithKept DEF SqlPut, CS!Put

LEMMA SqlReads ==
  ASSUME NEW rows \in Kept(Row), NEW k \in StoreKeys, NEW time \in 0 .. MaxTouch
  PROVE  /\ SqlTouched(rows, k, time) \in Kept(Row) /\ SqlTouched(rows, k, time) = CS!Touch(rows, k, time)
         /\ SqlRemove(rows, k) \in Kept(Row) /\ SqlRemove(rows, k) = CS!Remove(rows, k)
         /\ SqlGet(rows, k) = CS!Get(rows, k)
<1>1. SqlTouched(rows, k, time) \in Kept(Row)
  <2>1. rows \in [DOMAIN rows -> Row] /\ DOMAIN rows \subseteq StoreKeys /\ IsFiniteSet(DOMAIN rows)
    BY KeptIs
  <2>2. ASSUME k \in DOMAIN rows PROVE [rows EXCEPT ![k].last_accessed = time] \in [DOMAIN rows -> Row]
    BY <2>1, <2>2 DEF Row
  <2>3. k \in DOMAIN rows => [rows EXCEPT ![k].last_accessed = time] \in Kept(Row)
    BY <2>1, <2>2, KeptIs
  <2> QED
    BY <2>3 DEF SqlTouched
<1>2. SqlRemove(rows, k) \in Kept(Row)
  BY RestrictKept DEF SqlRemove
<1> QED
  BY <1>1, <1>2 DEF SqlTouched, CS!Touch, SqlRemove, CS!Remove, CS!Restrict, Restrict, SqlGet, CS!Get, Missing

\* What a trim leaves of a bucket, when so many of the coldest entries go.
LEMMA SameCardinality == \A S : CS!Cardinality(S) = Cardinality(S)
BY DEF CS!Cardinality, Cardinality, CS!IsFiniteSet, IsFiniteSet

LEMMA ColdestGo ==
  ASSUME NEW bucket, NEW max \in Nat, IsFiniteSet(DOMAIN bucket), Cardinality(DOMAIN bucket) > max,
         NEW K \in SUBSET DOMAIN bucket, Cardinality(K) = Cardinality(DOMAIN bucket) - max,
         \A k \in K, l \in DOMAIN bucket \ K : bucket[k].last_accessed <= bucket[l].last_accessed
  PROVE  Restrict(bucket, DOMAIN bucket \ K) \in CS!Trim(bucket, max)
<1>1. K \in CS!Coldest(bucket, Cardinality(DOMAIN bucket) - max)
  BY SameCardinality DEF CS!Coldest
<1> QED
  BY <1>1, SameCardinality DEF CS!Trim, Restrict, CS!Restrict

LEMMA SqlTrimIs ==
  ASSUME NEW rows \in Kept(Row), NEW max \in Nat, NEW t \in SqlTrims(rows, max)
  PROVE  t \in Kept(Row) /\ t \in CS!Trim(rows, max)
<1> DEFINE n == Cardinality(DOMAIN rows)
           D == DOMAIN rows
<1>1. rows \in [D -> Row] /\ IsFiniteSet(D) /\ n \in Nat /\ Size(rows) = n
  BY KeptIs, FS_CardinalityType DEF Size
<1>2. CASE ~(n > max)
  BY <1>1, <1>2, SameCardinality DEF SqlTrims, CS!Trim
<1>3. CASE n > max
  <2>1. PICK order \in [1 .. n -> D] :
          /\ \A i, j \in 1 .. n : i < j => order[i] # order[j] /\ rows[order[i]].last_accessed <= rows[order[j]].last_accessed
          /\ t = Restrict(rows, D \ {order[i] : i \in 1 .. n - max})
    <3>1. PICK order \in {s \in [1 .. Size(rows) -> DOMAIN rows] :
                       \A i, j \in DOMAIN s : i < j => s[i] # s[j] /\ rows[s[i]].last_accessed <= rows[s[j]].last_accessed} :
              t = Restrict(rows, DOMAIN rows \ {order[i] : i \in 1 .. Size(rows) - max})
      BY <1>1, <1>3 DEF SqlTrims
    <3>2. order \in [1 .. n -> D] /\ DOMAIN order = 1 .. n
      BY <1>1, <3>1
    <3> QED
      BY <1>1, <3>1, <3>2
  <2> DEFINE K == {order[i] : i \in 1 .. n - max}
             first == [i \in 1 .. n - max |-> order[i]]
  <2>2. \A i, j \in 1 .. n : order[i] = order[j] => i = j
    <3> SUFFICES ASSUME NEW i \in 1 .. n, NEW j \in 1 .. n, order[i] = order[j], i # j PROVE FALSE
      OBVIOUS
    <3>1. i < j \/ j < i
      BY <1>1
    <3> QED
      BY <2>1, <3>1
  <2>3. order \in Surjection(1 .. n, D)
    <3>1. order \in Injection(1 .. n, D)
      BY <2>1, <2>2 DEF Injection, IsInjective
    <3>2. Cardinality(1 .. n) = n
      <4> HIDE DEF n
      <4>1. 1 \in Int /\ n \in Int /\ (1 > n => n = 0)
        BY <1>1
      <4>2. Cardinality(1 .. n) = IF 1 > n THEN 0 ELSE n - 1 + 1
        BY <4>1, FS_Interval
      <4> QED
        BY <1>1, <4>1, <4>2
    <3> QED
      BY <1>1, <3>1, <3>2, FS_Injection
  <2>4. n - max \in Nat /\ 1 .. n - max \subseteq 1 .. n
    BY <1>1, <1>3
  <2>5. first \in Bijection(1 .. n - max, K)
    <3>1. first \in [1 .. n - max -> K] /\ \A k \in K : \E i \in 1 .. n - max : first[i] = k
      OBVIOUS
    <3>2. \A i, j \in 1 .. n - max : first[i] = first[j] => i = j
      BY <2>2, <2>4
    <3> HIDE DEF first, K
    <3> QED
      BY <3>1, <3>2 DEF Bijection, Injection, Surjection, IsInjective
  <2>6. Cardinality(K) = n - max
    <3>1. ExistsBijection(1 .. n - max, K)
      BY <2>5 DEF ExistsBijection
    <3>2. IsFiniteSet(1 .. n - max) /\ Cardinality(1 .. n - max) = n - max
      <4>1. 1 \in Int /\ n - max \in Int /\ (1 > n - max => n - max = 0)
        BY <2>4
      <4> HIDE DEF n
      <4>2. IsFiniteSet(1 .. n - max) /\ Cardinality(1 .. n - max) = IF 1 > n - max THEN 0 ELSE n - max - 1 + 1
        BY <4>1, FS_Interval
      <4> QED
        BY <1>1, <4>1, <4>2
    <3> QED
      BY <3>1, <3>2, FS_Bijection
  <2>7. K \in SUBSET D
    BY <2>1, <2>4
  <2>8. ASSUME NEW k \in K, NEW l \in D \ K PROVE rows[k].last_accessed <= rows[l].last_accessed
    <3>1. PICK i \in 1 .. n - max : k = order[i]
      OBVIOUS
    <3>2. PICK j \in 1 .. n : l = order[j]
      BY <2>3 DEF Surjection
    <3>3. j \notin 1 .. n - max
      BY <3>2
    <3>4. i \in 1 .. n /\ i < j
      BY <1>1, <2>4, <3>3
    <3> QED
      BY <2>1, <3>1, <3>2, <3>4
  <2>9. t = Restrict(rows, D \ K)
    BY <2>1
  <2> HIDE DEF K
  <2>10. t \in CS!Trim(rows, max)
    BY <1>1, <1>3, <2>6, <2>7, <2>8, <2>9, ColdestGo
  <2>11. t \in Kept(Row)
    BY <2>9, RestrictKept
  <2> QED
    BY <2>10, <2>11
<1> QED
  BY <1>2, <1>3

\* IndexedDB.
\* The two object stores stand for one bucket.
Together(recs, meta) == recs \in Kept(StoreValues) /\ meta \in Kept(0 .. MaxTouch) /\ DOMAIN recs = DOMAIN meta

LEMMA BucketKept ==
  ASSUME NEW recs, NEW meta, Together(recs, meta)
  PROVE  /\ IdbBucket(recs, meta) \in Kept(Row) /\ DOMAIN IdbBucket(recs, meta) = DOMAIN meta
         /\ \A k \in DOMAIN meta : IdbBucket(recs, meta)[k] = [value |-> recs[k], last_accessed |-> meta[k]]
<1>1. /\ recs \in [DOMAIN recs -> StoreValues] /\ DOMAIN recs \subseteq StoreKeys /\ IsFiniteSet(DOMAIN recs)
      /\ meta \in [DOMAIN recs -> 0 .. MaxTouch]
  BY KeptIs DEF Together
<1>2. IdbBucket(recs, meta) \in [DOMAIN recs -> Row] /\ DOMAIN IdbBucket(recs, meta) = DOMAIN recs
  BY <1>1 DEF IdbBucket, Row
<1> QED
  BY <1>1, <1>2, KeptIs DEF IdbBucket, Together

LEMMA SameFunction ==
  ASSUME NEW f, NEW g, NEW D, f = [x \in D |-> f[x]], g = [x \in D |-> g[x]], \A x \in D : f[x] = g[x]
  PROVE  f = g
OBVIOUS

LEMMA IdbPuts ==
  ASSUME NEW recs, NEW meta, Together(recs, meta), NEW k \in StoreKeys, NEW v \in StoreValues, NEW time \in 0 .. MaxTouch
  PROVE  /\ Together(IdbPutRecord(recs, k, v), IdbPutMetadata(meta, k, time))
         /\ IdbBucket(IdbPutRecord(recs, k, v), IdbPutMetadata(meta, k, time)) = CS!Put(IdbBucket(recs, meta), k, v, time)
<1> DEFINE r == IdbPutRecord(recs, k, v)
           m == IdbPutMetadata(meta, k, time)
           b == IdbBucket(recs, meta)
<1>1. /\ r \in Kept(StoreValues) /\ DOMAIN r = DOMAIN recs \cup {k}
      /\ \A x \in DOMAIN recs \cup {k} : r[x] = IF x = k THEN v ELSE recs[x]
  <2>1. recs \in Kept(StoreValues)
    BY DEF Together
  <2>2. CS!With(recs, k, v) \in Kept(StoreValues)
    BY <2>1, WithKept
  <2> QED
    BY <2>2 DEF IdbPutRecord, CS!With
<1>2. /\ m \in Kept(0 .. MaxTouch) /\ DOMAIN m = DOMAIN meta \cup {k}
      /\ \A x \in DOMAIN meta \cup {k} : m[x] = IF x = k THEN time ELSE meta[x]
  <2>1. meta \in Kept(0 .. MaxTouch)
    BY DEF Together
  <2>2. CS!With(meta, k, time) \in Kept(0 .. MaxTouch)
    BY <2>1, WithKept
  <2> QED
    BY <2>2 DEF IdbPutMetadata, CS!With
<1>3. Together(r, m)
  BY <1>1, <1>2 DEF Together
<1>4. /\ DOMAIN b = DOMAIN meta
      /\ \A x \in DOMAIN meta : b[x] = [value |-> recs[x], last_accessed |-> meta[x]]
  BY BucketKept
<1>5. CS!Put(b, k, v, time) = [x \in DOMAIN meta \cup {k} |-> IF x = k THEN [value |-> v, last_accessed |-> time] ELSE b[x]]
  BY <1>4 DEF CS!Put, CS!With
<1>6. IdbBucket(r, m) = [x \in DOMAIN meta \cup {k} |-> [value |-> r[x], last_accessed |-> m[x]]]
  BY <1>1 DEF IdbBucket, Together
<1> HIDE DEF r, m, b
<1>7. \A x \in DOMAIN meta \cup {k} : [value |-> r[x], last_accessed |-> m[x]] = IF x = k THEN [value |-> v, last_accessed |-> time] ELSE b[x]
  BY <1>1, <1>2, <1>4 DEF Together
<1>8. IdbBucket(r, m) = CS!Put(b, k, v, time)
  BY <1>5, <1>6, <1>7
<1> QED
  BY <1>3, <1>8 DEF r, m, b

LEMMA IdbTouches ==
  ASSUME NEW recs, NEW meta, Together(recs, meta), NEW k \in StoreKeys, NEW time \in 0 .. MaxTouch
  PROVE  /\ Together(recs, IdbTouched(recs, meta, k, time))
         /\ IdbBucket(recs, IdbTouched(recs, meta, k, time)) = CS!Touch(IdbBucket(recs, meta), k, time)
         /\ IdbGet(recs, k) = CS!Get(IdbBucket(recs, meta), k)
<1> DEFINE m == IdbTouched(recs, meta, k, time)
           b == IdbBucket(recs, meta)
<1>1. /\ b \in [DOMAIN meta -> Row] /\ DOMAIN b = DOMAIN meta /\ DOMAIN recs = DOMAIN meta
      /\ \A x \in DOMAIN meta : b[x] = [value |-> recs[x], last_accessed |-> meta[x]]
  BY BucketKept, KeptIs DEF Together
<1>2. meta \in [DOMAIN meta -> 0 .. MaxTouch] /\ meta \in Kept(0 .. MaxTouch) /\ recs \in Kept(StoreValues)
  BY KeptIs DEF Together
<1>3. IdbGet(recs, k) = CS!Get(b, k)
  BY <1>1 DEF IdbGet, CS!Get, Missing
<1>4. CASE ~(time > 0 /\ k \in DOMAIN recs)
  BY <1>1, <1>3, <1>4 DEF IdbTouched, CS!Touch
<1>5. CASE time > 0 /\ k \in DOMAIN recs
  <2>1. m = CS!With(meta, k, time) /\ CS!With(meta, k, time) \in Kept(0 .. MaxTouch)
    BY <1>2, <1>5, WithKept DEF IdbTouched
  <2>2. DOMAIN m = DOMAIN meta /\ \A x \in DOMAIN meta : m[x] = IF x = k THEN time ELSE meta[x]
    BY <1>1, <1>5, <2>1 DEF CS!With
  <2>3. Together(recs, m)
    BY <1>1, <1>2, <2>1, <2>2 DEF Together
  <2>4. CS!Touch(b, k, time) = [x \in DOMAIN meta |-> IF x = k THEN [b[k] EXCEPT !.last_accessed = time] ELSE b[x]]
    BY <1>1, <1>5 DEF CS!Touch
  <2>5. [b[k] EXCEPT !.last_accessed = time] = [value |-> recs[k], last_accessed |-> time]
    BY <1>1, <1>5
  <2>6. IdbBucket(recs, m) = [x \in DOMAIN meta |-> [value |-> recs[x], last_accessed |-> m[x]]]
    BY <1>1 DEF IdbBucket
  <2> HIDE DEF m, b
  <2>7. \A x \in DOMAIN meta : [value |-> recs[x], last_accessed |-> m[x]] = IF x = k THEN [b[k] EXCEPT !.last_accessed = time] ELSE b[x]
    BY <1>1, <2>2, <2>5
  <2>8. IdbBucket(recs, m) = CS!Touch(b, k, time)
    BY <2>4, <2>6, <2>7
  <2> QED
    BY <1>3, <2>3, <2>8 DEF m, b
<1> QED
  BY <1>4, <1>5

\* Leaving the same keys in both object stores.
LEMMA IdbLeaves ==
  ASSUME NEW recs, NEW meta, Together(recs, meta), NEW D \in SUBSET DOMAIN meta
  PROVE  /\ Together(Restrict(recs, D), Restrict(meta, D))
         /\ IdbBucket(Restrict(recs, D), Restrict(meta, D)) = Restrict(IdbBucket(recs, meta), D)
<1> DEFINE r == Restrict(recs, D)
           m == Restrict(meta, D)
           b == IdbBucket(recs, meta)
<1>1. DOMAIN recs = DOMAIN meta /\ recs \in Kept(StoreValues) /\ meta \in Kept(0 .. MaxTouch)
  BY DEF Together
<1>2. DOMAIN b = DOMAIN meta /\ \A x \in DOMAIN meta : b[x] = [value |-> recs[x], last_accessed |-> meta[x]]
  BY BucketKept
<1>3. r \in Kept(StoreValues) /\ m \in Kept(0 .. MaxTouch)
  BY <1>1, RestrictKept
<1>4. DOMAIN r = D /\ DOMAIN m = D /\ \A x \in D : r[x] = recs[x] /\ m[x] = meta[x]
  BY <1>1 DEF Restrict
<1>5. Together(r, m)
  BY <1>3, <1>4 DEF Together
<1>6. IdbBucket(r, m) = [x \in D |-> [value |-> r[x], last_accessed |-> m[x]]]
  BY <1>4 DEF IdbBucket
<1>7. Restrict(b, D) = [x \in D |-> b[x]]
  BY <1>2 DEF Restrict
<1> HIDE DEF r, m, b
<1>8. \A x \in D : [value |-> r[x], last_accessed |-> m[x]] = b[x]
  BY <1>2, <1>4
<1>9. IdbBucket(r, m) = Restrict(b, D)
  BY <1>6, <1>7, <1>8
<1> QED
  BY <1>5, <1>9 DEF r, m, b

LEMMA IdbTrimIs ==
  ASSUME NEW recs, NEW meta, Together(recs, meta), NEW max \in Nat
  PROVE  LET b == IdbBucket(recs, meta)
         IN  Restrict(b, DOMAIN b \ IdbVictims(meta, max)) \in CS!Trim(b, max)
<1> DEFINE D == DOMAIN meta
           n == Cardinality(D)
           V == IdbVictims(meta, max)
           b == IdbBucket(recs, meta)
           below == [k \in D |-> CursorBefore(meta, k)]
<1>1. meta \in [D -> 0 .. MaxTouch] /\ D \subseteq StoreKeys /\ IsFiniteSet(D) /\ n \in Nat
  BY KeptIs, FS_CardinalityType DEF Together
<1>2. D \subseteq Nat /\ \A k \in D : meta[k] \in Nat /\ k \in Nat
  BY <1>1, StorageAssumption
<1>3. Orders(D, below)
  <2>1. \A k \in D : below[k] = {l \in D : meta[l] < meta[k] \/ (meta[l] = meta[k] /\ l < k)}
    BY DEF CursorBefore
  <2>2. below \in [D -> SUBSET D]
    BY <2>1
  <2> HIDE DEF below, D
  <2>3. \A k \in D : k \notin below[k]
    BY <1>2, <2>1
  <2>4. ASSUME NEW k \in D, NEW l \in D, k \in below[l], NEW x \in below[k] PROVE x \in below[l]
    <3>1. x \in D
      BY <2>1
    <3>2. meta[x] < meta[k] \/ (meta[x] = meta[k] /\ x < k)
      BY <2>1, <2>4
    <3>3. meta[k] < meta[l] \/ (meta[k] = meta[l] /\ k < l)
      BY <2>1, <2>4
    <3>4. meta[x] < meta[l] \/ (meta[x] = meta[l] /\ x < l)
      BY <1>2, <3>1, <3>2, <3>3
    <3> QED
      BY <2>1, <3>1, <3>4
  <2>5. ASSUME NEW k \in D, NEW l \in D PROVE k = l \/ k \in below[l] \/ l \in below[k]
    <3>1. \/ meta[k] < meta[l] \/ (meta[k] = meta[l] /\ k < l)
          \/ meta[l] < meta[k] \/ (meta[l] = meta[k] /\ l < k)
          \/ k = l
      BY <1>2
    <3> QED
      BY <2>1, <3>1
  <2> QED
    BY <2>2, <2>3, <2>4, <2>5 DEF Orders
<1>4. V = {k \in D : max + Cardinality(below[k]) < n}
  BY DEF IdbVictims, Size
<1>5. \A k \in D : Cardinality(below[k]) \in Nat
  <2> TAKE k \in D
  <2>1. Cardinality(below[k]) \in 0 .. n - 1
    BY <1>1, <1>3, RankGrows
  <2> QED
    BY <2>1
<1>6. DOMAIN b = D /\ \A x \in D : b[x] = [value |-> recs[x], last_accessed |-> meta[x]]
  BY BucketKept
<1>6a. b = Restrict(b, D)
  <2>1. b = [x \in DOMAIN b |-> b[x]]
    BY DEF IdbBucket
  <2> QED
    BY <1>6, <2>1 DEF Restrict
<1>7. CASE ~(n > max)
  <2>1. V = {}
    <3> HIDE DEF below, n, D, V
    <3> QED
      BY <1>1, <1>4, <1>5, <1>7
  <2>2. CS!Trim(b, max) = {b}
    BY <1>6, <1>7, SameCardinality DEF CS!Trim
  <2> QED
    BY <1>6, <1>6a, <2>1, <2>2
<1>8. CASE n > max
  <2>1. n - max \in Nat /\ n - max <= n
    BY <1>1, <1>8
  <2>2. V = {k \in D : Cardinality(below[k]) < n - max}
    <3> HIDE DEF below, n, D, V
    <3> QED
      BY <1>1, <1>4, <1>5
  <2>3. Cardinality(V) = n - max
    BY <1>1, <1>3, <2>1, <2>2, LowRanks
  <2>4. ASSUME NEW k \in V, NEW l \in D \ V PROVE b[k].last_accessed <= b[l].last_accessed
    <3>1. k \in D /\ l \in D /\ Cardinality(below[k]) < n - max /\ ~(Cardinality(below[l]) < n - max)
      BY <2>2
    <3>2. Cardinality(below[k]) < Cardinality(below[l])
      <4> HIDE DEF below, n, D, V
      <4> QED
        BY <1>1, <1>5, <3>1
    <3>3. k \in below[l]
      BY <1>1, <1>3, <3>1, <3>2, RankGrows
    <3>4. meta[k] < meta[l] \/ (meta[k] = meta[l] /\ k < l)
      BY <3>1, <3>3 DEF CursorBefore
    <3>5. b[k].last_accessed = meta[k] /\ b[l].last_accessed = meta[l]
      BY <1>6, <3>1
    <3> HIDE DEF b
    <3> QED
      BY <1>2, <3>1, <3>4, <3>5
  <2>5. V \in SUBSET D
    BY <2>2
  <2> HIDE DEF b, V
  <2> QED
    BY <1>1, <1>6, <1>8, <2>3, <2>4, <2>5, ColdestGo DEF b, V
<1> QED
  BY <1>7, <1>8

\* A step changes the buckets it is asked for, and typed buckets stay typed.
LEMMA StorageStart == StorageInit => StorageInd
BY NoneKept DEF StorageInit, StorageInd

\* One bucket of a backend is changed.
LEMMA OneBucketChanged ==
  ASSUME NEW S, NEW f \in [Buckets -> S], NEW b \in Buckets, NEW v \in S
  PROVE  [f EXCEPT ![b] = v] \in [Buckets -> S]
OBVIOUS

LEMMA StoresTogether ==
  ASSUME StorageInd, NEW b \in Buckets
  PROVE  Together(idbRecords[b], idbMetadata[b]) /\ table[b] \in Kept(Row)
BY DEF StorageInd, Together

LEMMA StoragePutIs ==
  ASSUME StorageInd, NEW b \in Buckets, NEW k \in StoreKeys, NEW v \in StoreValues, NEW time \in 0 .. MaxTouch,
         StoragePut(b, k, v, time)
  PROVE  StorageInd' /\ BackendsDid
<1>1. Together(idbRecords[b], idbMetadata[b]) /\ table[b] \in Kept(Row)
  BY StoresTogether
<1>2. /\ SqlPut(table[b], k, v, time) \in Kept(Row)
      /\ SqlPut(table[b], k, v, time) = CS!Put(table[b], k, v, time)
  BY <1>1, SqlWrites
<1>3. /\ Together(IdbPutRecord(idbRecords[b], k, v), IdbPutMetadata(idbMetadata[b], k, time))
      /\ IdbBucket(IdbPutRecord(idbRecords[b], k, v), IdbPutMetadata(idbMetadata[b], k, time))
            = CS!Put(IdbBucket(idbRecords[b], idbMetadata[b]), k, v, time)
  BY <1>1, IdbPuts
<1>4. /\ table' = [table EXCEPT ![b] = SqlPut(table[b], k, v, time)]
      /\ idbMetadata' = [idbMetadata EXCEPT ![b] = IdbPutMetadata(idbMetadata[b], k, time)]
      /\ idbRecords' = [idbRecords EXCEPT ![b] = IdbPutRecord(idbRecords[b], k, v)]
      /\ asked' = [op |-> "put", bucket |-> b, key |-> k, value |-> v, time |-> time]
  BY DEF StoragePut
<1>5. StorageInd'
  BY <1>2, <1>3, <1>4 DEF StorageInd, Together
<1>6. table' = [table EXCEPT ![b] = CS!Put(@, k, v, time)]
  BY <1>2, <1>4
<1>7. IdbBuckets' = [IdbBuckets EXCEPT ![b] = CS!Put(@, k, v, time)]
  BY <1>3, <1>4 DEF IdbBuckets, StorageInd
<1> QED
  BY <1>4, <1>5, <1>6, <1>7 DEF BackendsDid, Did, StorageInd

LEMMA StorageGetIs ==
  ASSUME StorageInd, NEW b \in Buckets, NEW k \in StoreKeys, NEW time \in 0 .. MaxTouch, StorageGet(b, k, time)
  PROVE  StorageInd' /\ BackendsDid
<1>1. Together(idbRecords[b], idbMetadata[b]) /\ table[b] \in Kept(Row)
  BY StoresTogether
<1>2. /\ SqlTouched(table[b], k, time) \in Kept(Row)
      /\ SqlTouched(table[b], k, time) = CS!Touch(table[b], k, time) /\ SqlGet(table[b], k) = CS!Get(table[b], k)
  BY <1>1, SqlReads
<1>3. /\ Together(idbRecords[b], IdbTouched(idbRecords[b], idbMetadata[b], k, time))
      /\ IdbBucket(idbRecords[b], IdbTouched(idbRecords[b], idbMetadata[b], k, time))
            = CS!Touch(IdbBucket(idbRecords[b], idbMetadata[b]), k, time)
      /\ IdbGet(idbRecords[b], k) = CS!Get(IdbBucket(idbRecords[b], idbMetadata[b]), k)
  BY <1>1, IdbTouches
<1>4. /\ table' = [table EXCEPT ![b] = SqlTouched(table[b], k, time)]
      /\ idbMetadata' = [idbMetadata EXCEPT ![b] = IdbTouched(idbRecords[b], idbMetadata[b], k, time)]
      /\ idbRecords' = idbRecords
      /\ asked' = [op |-> "get", bucket |-> b, key |-> k, time |-> time,
                   sql |-> SqlGet(table[b], k), idb |-> IdbGet(idbRecords[b], k)]
  BY DEF StorageGet
<1>5. StorageInd'
  BY <1>2, <1>3, <1>4 DEF StorageInd, Together
<1>6. table' = [table EXCEPT ![b] = CS!Touch(@, k, time)]
  BY <1>2, <1>4
<1>7. IdbBuckets' = [IdbBuckets EXCEPT ![b] = CS!Touch(@, k, time)] /\ IdbBuckets[b] = IdbBucket(idbRecords[b], idbMetadata[b])
  BY <1>3, <1>4 DEF IdbBuckets, StorageInd
<1> QED
  BY <1>2, <1>3, <1>4, <1>5, <1>6, <1>7 DEF BackendsDid, Did, StorageInd

LEMMA StorageRemoveIs ==
  ASSUME StorageInd, NEW b \in Buckets, NEW k \in StoreKeys, StorageRemove(b, k)
  PROVE  StorageInd' /\ BackendsDid
<1>1. Together(idbRecords[b], idbMetadata[b]) /\ table[b] \in Kept(Row)
  BY StoresTogether
<1>2. SqlRemove(table[b], k) \in Kept(Row) /\ SqlRemove(table[b], k) = CS!Remove(table[b], k)
  <2>1. 0 \in 0 .. MaxTouch
    BY StorageAssumption
  <2> QED
    BY <1>1, <2>1, SqlReads
<1>3. /\ Together(IdbRemoveRecord(idbRecords[b], k), IdbRemoveMetadata(idbMetadata[b], k))
      /\ IdbBucket(IdbRemoveRecord(idbRecords[b], k), IdbRemoveMetadata(idbMetadata[b], k))
            = CS!Remove(IdbBucket(idbRecords[b], idbMetadata[b]), k)
  <2> DEFINE D == DOMAIN idbMetadata[b] \ {k}
  <2>1. /\ D \in SUBSET DOMAIN idbMetadata[b]
        /\ DOMAIN idbRecords[b] = DOMAIN idbMetadata[b] /\ DOMAIN IdbBucket(idbRecords[b], idbMetadata[b]) = DOMAIN idbMetadata[b]
    BY <1>1, BucketKept DEF Together
  <2> HIDE DEF D
  <2>2. /\ Together(Restrict(idbRecords[b], D), Restrict(idbMetadata[b], D))
        /\ IdbBucket(Restrict(idbRecords[b], D), Restrict(idbMetadata[b], D)) = Restrict(IdbBucket(idbRecords[b], idbMetadata[b]), D)
    BY <1>1, <2>1, IdbLeaves
  <2> QED
    BY <2>1, <2>2 DEF D, IdbRemoveRecord, IdbRemoveMetadata, CS!Remove, CS!Restrict, Restrict
<1>4. /\ table' = [table EXCEPT ![b] = SqlRemove(table[b], k)]
      /\ idbMetadata' = [idbMetadata EXCEPT ![b] = IdbRemoveMetadata(idbMetadata[b], k)]
      /\ idbRecords' = [idbRecords EXCEPT ![b] = IdbRemoveRecord(idbRecords[b], k)]
      /\ asked' = [op |-> "remove", bucket |-> b, key |-> k]
  BY DEF StorageRemove
<1>5. StorageInd'
  BY <1>2, <1>3, <1>4 DEF StorageInd, Together
<1>6. table' = [table EXCEPT ![b] = CS!Remove(@, k)]
  BY <1>2, <1>4
<1>7. IdbBuckets' = [IdbBuckets EXCEPT ![b] = CS!Remove(@, k)]
  BY <1>3, <1>4 DEF IdbBuckets, StorageInd
<1> QED
  BY <1>4, <1>5, <1>6, <1>7 DEF BackendsDid, Did, StorageInd

LEMMA StorageKeysIs ==
  ASSUME StorageInd, NEW b \in Buckets, StorageKeys(b)
  PROVE  StorageInd' /\ BackendsDid
<1>1. StorageInd'
  BY DEF StorageKeys, StorageInd
<1>2. Together(idbRecords[b], idbMetadata[b])
  BY StoresTogether
<1>3. DOMAIN IdbBuckets[b] = DOMAIN idbRecords[b] /\ IdbBuckets' = IdbBuckets
  BY <1>2, BucketKept DEF IdbBuckets, Together, StorageKeys
<1> QED
  BY <1>1, <1>3 DEF BackendsDid, Did, StorageKeys, StorageInd

LEMMA StorageResetIs ==
  ASSUME StorageInd, StorageReset
  PROVE  StorageInd' /\ BackendsDid
<1>1. StorageInd'
  BY NoneKept DEF StorageReset, StorageInd
<1>2. IdbBuckets' = [b \in Buckets |-> CS!NoEntries]
  <2>1. IdbBucket(CS!NoEntries, CS!NoEntries) = CS!NoEntries
    BY DEF IdbBucket, CS!NoEntries
  <2> QED
    BY <2>1 DEF IdbBuckets, StorageReset
<1> QED
  BY <1>1, <1>2 DEF BackendsDid, Did, StorageReset, StorageInd

LEMMA StorageTrimIs ==
  ASSUME StorageInd, StorageTrim
  PROVE  StorageInd' /\ BackendsDid
<1> DEFINE victims == [b \in Buckets |-> IF Trimmed(b) THEN IdbVictims(idbMetadata[b], BucketTrims[b]) ELSE {}]
<1>1. /\ table' = [b \in Buckets |-> table'[b]]
      /\ \A b \in Buckets : IF Trimmed(b) THEN table'[b] \in SqlTrims(table[b], BucketTrims[b]) ELSE table'[b] = table[b]
  BY DEF StorageTrim
<1>2. /\ idbMetadata' = [b \in Buckets |-> Restrict(idbMetadata[b], DOMAIN idbMetadata[b] \ victims[b])]
      /\ idbRecords' = [b \in Buckets |-> Restrict(idbRecords[b], DOMAIN idbRecords[b] \ victims[b])]
      /\ asked' = [op |-> "trim"]
  BY DEF StorageTrim
<1>3. ASSUME NEW b \in Buckets
      PROVE  /\ table'[b] \in Kept(Row)
             /\ IF BucketTrims[b] = 0 THEN table'[b] = table[b] ELSE table'[b] \in CS!Trim(table[b], BucketTrims[b])
  <2>1. table[b] \in Kept(Row) /\ BucketTrims[b] \in Nat
    BY StoresTogether, StorageAssumption
  <2>2. CASE Trimmed(b)
    BY <1>1, <2>1, <2>2, SqlTrimIs DEF Trimmed
  <2>3. CASE ~Trimmed(b)
    BY <1>1, <2>1, <2>3 DEF Trimmed
  <2> QED
    BY <2>2, <2>3
<1>4. ASSUME NEW b \in Buckets
      PROVE  /\ Together(idbRecords'[b], idbMetadata'[b])
             /\ IF BucketTrims[b] = 0 THEN IdbBucket(idbRecords'[b], idbMetadata'[b]) = IdbBucket(idbRecords[b], idbMetadata[b])
                ELSE IdbBucket(idbRecords'[b], idbMetadata'[b]) \in CS!Trim(IdbBucket(idbRecords[b], idbMetadata[b]), BucketTrims[b])
  <2>1. Together(idbRecords[b], idbMetadata[b]) /\ BucketTrims[b] \in Nat
    BY StoresTogether, StorageAssumption
  <2>2. /\ idbRecords'[b] = Restrict(idbRecords[b], DOMAIN idbRecords[b] \ victims[b])
        /\ idbMetadata'[b] = Restrict(idbMetadata[b], DOMAIN idbMetadata[b] \ victims[b])
    BY <1>2
  <2> HIDE DEF victims
  <2>3. /\ Together(idbRecords'[b], idbMetadata'[b])
        /\ IdbBucket(idbRecords'[b], idbMetadata'[b])
              = Restrict(IdbBucket(idbRecords[b], idbMetadata[b]), DOMAIN IdbBucket(idbRecords[b], idbMetadata[b]) \ victims[b])
    <3> DEFINE D == DOMAIN idbMetadata[b] \ victims[b]
    <3>1. /\ D \in SUBSET DOMAIN idbMetadata[b]
          /\ DOMAIN idbRecords[b] = DOMAIN idbMetadata[b] /\ DOMAIN IdbBucket(idbRecords[b], idbMetadata[b]) = DOMAIN idbMetadata[b]
      BY <2>1, BucketKept DEF Together
    <3> HIDE DEF D
    <3>2. /\ Together(Restrict(idbRecords[b], D), Restrict(idbMetadata[b], D))
          /\ IdbBucket(Restrict(idbRecords[b], D), Restrict(idbMetadata[b], D)) = Restrict(IdbBucket(idbRecords[b], idbMetadata[b]), D)
      BY <2>1, <3>1, IdbLeaves
    <3> QED
      BY <2>2, <3>1, <3>2 DEF D
  <2>4. CASE Trimmed(b)
    <3>1. victims[b] = IdbVictims(idbMetadata[b], BucketTrims[b])
      BY <2>4 DEF victims
    <3>2. IdbBucket(idbRecords'[b], idbMetadata'[b]) \in CS!Trim(IdbBucket(idbRecords[b], idbMetadata[b]), BucketTrims[b])
      BY <2>1, <2>3, <3>1, IdbTrimIs
    <3> QED
      BY <2>1, <2>3, <2>4, <3>2 DEF Trimmed
  <2>5. CASE ~Trimmed(b)
    <3>1. victims[b] = {} /\ BucketTrims[b] = 0
      BY <2>1, <2>5 DEF victims, Trimmed
    <3>2. IdbBucket(idbRecords'[b], idbMetadata'[b]) = IdbBucket(idbRecords[b], idbMetadata[b])
      BY <2>3, <3>1 DEF Restrict, IdbBucket
    <3> QED
      BY <2>3, <3>1, <3>2
  <2> QED
    BY <2>4, <2>5
<1>5. StorageInd'
  BY <1>1, <1>2, <1>3, <1>4 DEF StorageInd, Together
<1>6. \A b \in Buckets : IdbBuckets[b] = IdbBucket(idbRecords[b], idbMetadata[b]) /\ IdbBuckets'[b] = IdbBucket(idbRecords'[b], idbMetadata'[b])
  BY DEF IdbBuckets
<1> QED
  BY <1>2, <1>3, <1>4, <1>5, <1>6 DEF BackendsDid, Did, StorageInd

LEMMA StorageStep ==
  ASSUME StorageInd, StorageNext
  PROVE  StorageInd' /\ BackendsDid
BY StoragePutIs, StorageGetIs, StorageRemoveIs, StorageKeysIs, StorageResetIs, StorageTrimIs DEF StorageNext

\* The two lasting backends stay typed and the browser's object stores together.
THEOREM StorageInductive == StorageSpec => []StorageInd
<1>1. StorageInd /\ [StorageNext]_storageVars => StorageInd'
  <2>1. ASSUME StorageInd, UNCHANGED storageVars PROVE StorageInd'
    BY <2>1 DEF StorageInd, storageVars
  <2> QED
    BY <2>1, StorageStep
<1> QED
  BY <1>1, StorageStart, PTL DEF StorageSpec

\* SQLite and IndexedDB do to a bucket what the trait promises, on every call: a read
\* gives what was put last, and a trim takes as many entries as are too many, none of
\* which was accessed later than one it leaves.
THEOREM BackendsAlwaysImplement == StorageSpec => ImplementsClientStorage
<1>1. StorageInd /\ [StorageNext]_storageVars => [BackendsDid]_storageVars
  BY StorageStep
<1> QED
  BY <1>1, StorageInductive, PTL DEF StorageSpec, ImplementsClientStorage
=============================================================================
