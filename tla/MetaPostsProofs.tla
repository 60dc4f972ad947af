--------------------------- MODULE MetaPostsProofs ---------------------------
(***************************************************************************)
(* Proofs about MetaPosts: however the calls of a device interleave, and   *)
(* whatever is merged in which order, no profile is mixed from two.        *)
(***************************************************************************)
EXTENDS MetaPosts, TLAPS

-----------------------------------------------------------------------------
(***************************************************************************)
(* Public sections.                                                        *)
(***************************************************************************)
LEMMA Bounds ==
    /\ MaxTime \in Nat /\ MaxEdits \in Nat /\ MaxPosts \in Nat /\ MaxFaults \in Nat
    /\ 0 \in Timestamp /\ 1 .. MaxTime \subseteq Timestamp /\ 1 \in 1 .. MaxTime
    /\ Timestamp \subseteq Nat /\ Me \in Accounts
<1>1. MaxTime \in Nat /\ MaxEdits \in Nat /\ MaxPosts \in Nat /\ MaxFaults \in Nat /\ MaxTime > 0
      /\ Me \in Accounts
  BY MetaPostsAssumption
<1> QED
  BY <1>1 DEF Timestamp

\* Fields.
LEMMA Versioned ==
    ASSUME NEW S, NEW v \in S, NEW t \in Timestamp
    PROVE  VersionedField(v, t) \in Field(S) /\ Tombstone(t) \in Field(S)
BY DEF VersionedField, Tombstone, Field

\* The later of two fields is one of them.
LEMMA ScalarMerged ==
    ASSUME NEW S, NEW a \in Field(S), NEW b \in Field(S)
    PROVE  MergeScalarField(a, b) \in Field(S)
BY DEF MergeScalarField

LEMMA EmptyPublicTyped == EmptyPublic \in Public
<1>1. Tombstone(0) \in Field((Accounts \X (0 .. MaxEdits)) \X Fields)
  BY Bounds DEF Tombstone, VersionedField, Field
<1> QED
  BY <1>1 DEF EmptyPublic, Public

LEMMA FromBioTyped ==
    ASSUME NEW t \in Timestamp, NEW a \in Accounts, NEW e \in 0 .. MaxEdits
    PROVE  FromBio(t, <<a, e>>) \in Public
<1>1. \A f \in Fields : <<<<a, e>>, f>> \in (Accounts \X (0 .. MaxEdits)) \X Fields
  OBVIOUS
<1>2. \A f \in Fields : VersionedField(<<<<a, e>>, f>>, t) \in Field((Accounts \X (0 .. MaxEdits)) \X Fields)
  BY <1>1, Versioned
<1> QED
  BY <1>2 DEF FromBio, Public

LEMMA WholeTyped ==
    ASSUME NEW a \in Accounts, NEW public, Whole(a, public)
    PROVE  public \in Public
BY EmptyPublicTyped, FromBioTyped DEF Whole

\* The fields of a section that one call wrote share a timestamp.
LEMMA WholeTimestamp ==
    ASSUME NEW a, NEW public, Whole(a, public)
    PROVE  \E t \in Timestamp : /\ public = [f \in Fields |-> public[f]]
                                /\ \A f \in Fields : public[f].timestamp = t
<1>1. CASE public = EmptyPublic
  <2>1. 0 \in Timestamp
    BY Bounds
  <2>2. \A f \in Fields : EmptyPublic[f].timestamp = 0
    BY DEF EmptyPublic, Tombstone, VersionedField
  <2>3. EmptyPublic = [f \in Fields |-> EmptyPublic[f]]
    BY DEF EmptyPublic
  <2> QED
    BY <1>1, <2>1, <2>2, <2>3
<1>2. ASSUME NEW e \in 0 .. MaxEdits, NEW t \in Timestamp, public = FromBio(t, <<a, e>>)
      PROVE  /\ public = [f \in Fields |-> public[f]]
             /\ \A f \in Fields : public[f].timestamp = t
  <2>1. \A f \in Fields : FromBio(t, <<a, e>>)[f].timestamp = t
    BY DEF FromBio, VersionedField
  <2>2. FromBio(t, <<a, e>>) = [f \in Fields |-> FromBio(t, <<a, e>>)[f]]
    BY DEF FromBio
  <2> QED
    BY <1>2, <2>1, <2>2
<1> QED
  BY <1>1, <1>2 DEF Whole

\* merge_public of two whole sections is one of them.
LEMMA MergedWhole ==
    ASSUME NEW a, NEW local, NEW incoming, Whole(a, local), Whole(a, incoming)
    PROVE  Whole(a, MergePublic(local, incoming))
<1>1. PICK t \in Timestamp : local = [f \in Fields |-> local[f]] /\ \A f \in Fields : local[f].timestamp = t
  BY WholeTimestamp
<1>2. PICK u \in Timestamp :
          incoming = [f \in Fields |-> incoming[f]] /\ \A f \in Fields : incoming[f].timestamp = u
  BY WholeTimestamp
<1>3. CASE u > t
  <2>1. \A f \in Fields : MergeScalarField(local[f], incoming[f]) = incoming[f]
    BY <1>1, <1>2, <1>3 DEF MergeScalarField
  <2>2. MergePublic(local, incoming) = incoming
    BY <1>2, <2>1, Zenon DEF MergePublic
  <2> QED
    BY <2>2
<1>4. CASE ~(u > t)
  <2>1. \A f \in Fields : MergeScalarField(local[f], incoming[f]) = local[f]
    BY <1>1, <1>2, <1>4 DEF MergeScalarField
  <2>2. MergePublic(local, incoming) = local
    BY <1>1, <2>1, Zenon DEF MergePublic
  <2> QED
    BY <2>2
<1> QED
  BY <1>3, <1>4

-----------------------------------------------------------------------------
(***************************************************************************)
(* Private sections.                                                       *)
(***************************************************************************)
\* The keys and the fields of a collection.
KeysOf(c) == [followed_client_ids |-> ClientIds, followed_hashtags |-> Hashtags,
              content_thresholds |-> FeedbackTypes][c]
FieldsOf(c) == Field(IF c \in Followed THEN {TRUE} ELSE Values)

LEMMA EntriesAre ==
    ASSUME NEW c, NEW x
    PROVE  x \in Entries(c) <=> \E K \in SUBSET KeysOf(c) : x \in [K -> FieldsOf(c)]
BY DEF Entries, KeysOf, FieldsOf

\* A function on some of the keys, into the fields of the collection.
LEMMA MadeEntries ==
    ASSUME NEW c, NEW K \in SUBSET KeysOf(c), NEW x \in [K -> FieldsOf(c)]
    PROVE  x \in Entries(c)
BY EntriesAre

LEMMA EntriesTyped ==
    ASSUME NEW c, NEW x \in Entries(c)
    PROVE  DOMAIN x \subseteq KeysOf(c) /\ \A k \in DOMAIN x : x[k] \in FieldsOf(c)
<1>1. PICK K \in SUBSET KeysOf(c) : x \in [K -> FieldsOf(c)]
  BY EntriesAre
<1> QED
  BY <1>1

LEMMA PrivateTyped ==
    ASSUME NEW p \in Private
    PROVE  /\ p = [collections |-> p.collections, skip |-> p.skip]
           /\ p.skip \in Field(BOOLEAN)
           /\ p.collections = [c \in Collections |-> p.collections[c]]
           /\ \A c \in Collections : p.collections[c] \in Entries(c)
<1>1. p \in [collections : [Collections -> UNION {Entries(c) : c \in Collections}], skip : Field(BOOLEAN)]
  BY DEF Private
<1>2. p.collections \in [Collections -> UNION {Entries(c) : c \in Collections}]
  BY <1>1
<1>3. p.collections = [c \in Collections |-> p.collections[c]]
  BY <1>2
<1>4. \A c \in Collections : p.collections[c] \in Entries(c)
  BY DEF Private
<1> QED
  BY <1>1, <1>3, <1>4

LEMMA MadePrivate ==
    ASSUME NEW g, NEW skip \in Field(BOOLEAN), g = [c \in Collections |-> g[c]],
           \A c \in Collections : g[c] \in Entries(c)
    PROVE  [collections |-> g, skip |-> skip] \in Private
<1>1. g \in [Collections -> UNION {Entries(c) : c \in Collections}]
  OBVIOUS
<1> QED
  BY <1>1 DEF Private

LEMMA EmptyPrivateTyped == EmptyPrivate \in Private
<1> DEFINE g == [c \in Collections |-> NoEntries]
<1>1. \A c : NoEntries \in Entries(c)
  <2> SUFFICES ASSUME NEW c PROVE NoEntries \in Entries(c)
    OBVIOUS
  <2>1. NoEntries \in [{} -> FieldsOf(c)]
    BY DEF NoEntries
  <2> QED
    BY <2>1, MadeEntries
<1>2. Tombstone(0) \in Field(BOOLEAN)
  BY Bounds DEF Tombstone, VersionedField, Field
<1>3. g = [c \in Collections |-> g[c]] /\ \A c \in Collections : g[c] \in Entries(c)
  BY <1>1
<1>4. EmptyPrivate = [collections |-> g, skip |-> Tombstone(0)]
  BY DEF EmptyPrivate
<1> HIDE DEF g
<1> QED
  BY <1>2, <1>3, <1>4, MadePrivate

\* One collection is replaced.
LEMMA OneCollection ==
    ASSUME NEW p \in Private, NEW c \in Collections, NEW x \in Entries(c)
    PROVE  [p EXCEPT !.collections[c] = x] \in Private
<1> DEFINE g == [p.collections EXCEPT ![c] = x]
<1>1. p.collections = [d \in Collections |-> p.collections[d]]
  BY PrivateTyped
<1>2. g = [d \in Collections |-> IF d = c THEN x ELSE p.collections[d]]
  BY <1>1, Zenon
<1>3. g = [d \in Collections |-> g[d]] /\ \A d \in Collections : g[d] \in Entries(d)
  BY <1>2, PrivateTyped
<1>4. [p EXCEPT !.collections = g] = [collections |-> g, skip |-> p.skip]
  <2> HIDE DEF g
  <2>1. p \in [collections : [Collections -> UNION {Entries(d) : d \in Collections}], skip : Field(BOOLEAN)]
    BY DEF Private
  <2> QED
    BY <2>1
<1>5. [p EXCEPT !.collections[c] = x] = [p EXCEPT !.collections = g]
  OBVIOUS
<1> HIDE DEF g
<1>6. [collections |-> g, skip |-> p.skip] \in Private
  BY <1>3, PrivateTyped, MadePrivate
<1> QED
  BY <1>4, <1>5, <1>6
LEMMA KeyTyped ==
    /\ KeysOf("followed_client_ids") = ClientIds
    /\ KeysOf("followed_hashtags") = Hashtags
    /\ KeysOf("content_thresholds") = FeedbackTypes
    /\ FieldsOf("followed_client_ids") = Field({TRUE})
    /\ FieldsOf("followed_hashtags") = Field({TRUE})
    /\ FieldsOf("content_thresholds") = Field(Values)
    /\ Followed \subseteq Collections /\ "content_thresholds" \in Collections
    /\ "followed_client_ids" \in Followed /\ "followed_hashtags" \in Followed
<1>1. "content_thresholds" \notin Followed
  BY DEF Followed
<1> QED
  BY <1>1 DEF KeysOf, FieldsOf, Followed, Collections

\* With one more field, or another one.
LEMMA WithTyped ==
    ASSUME NEW c, NEW x \in Entries(c), NEW k \in KeysOf(c), NEW v \in FieldsOf(c)
    PROVE  With(x, k, v) \in Entries(c)
<1> DEFINE K == DOMAIN x \cup {k}
<1>1. K \in SUBSET KeysOf(c)
  BY EntriesTyped
<1>2. With(x, k, v) \in [K -> FieldsOf(c)]
  BY EntriesTyped DEF With
<1> HIDE DEF K
<1> QED
  BY <1>1, <1>2, MadeEntries

\* set_followed_client_ids and set_followed_hashtags
LEMMA FollowAllTyped ==
    ASSUME NEW p \in Private, NEW c \in Followed, NEW chosen \in SUBSET KeysOf(c), NEW t \in Timestamp,
           FieldsOf(c) = Field({TRUE})
    PROVE  FollowAll(p, c, chosen, t) \in Private
<1> DEFINE old == p.collections[c]
           K == DOMAIN old \cup chosen
           x == [k \in K |-> IF k \in chosen THEN VersionedField(TRUE, t)
                             ELSE IF old[k].value = TRUE THEN Tombstone(t)
                             ELSE old[k]]
<1>1. c \in Collections /\ old \in Entries(c)
  BY PrivateTyped, KeyTyped
<1>2. VersionedField(TRUE, t) \in FieldsOf(c) /\ Tombstone(t) \in FieldsOf(c)
  BY Versioned
<1>3. FollowAll(p, c, chosen, t) = [p EXCEPT !.collections[c] = x]
  BY DEF FollowAll
<1> HIDE DEF old
<1>4. DOMAIN old \subseteq KeysOf(c) /\ \A k \in DOMAIN old : old[k] \in FieldsOf(c)
  BY <1>1, EntriesTyped
<1>5. K \in SUBSET KeysOf(c)
  BY <1>4
<1>6. x \in [K -> FieldsOf(c)]
  BY <1>2, <1>4
<1> HIDE DEF K, x
<1>7. x \in Entries(c)
  BY <1>5, <1>6, MadeEntries
<1> QED
  BY <1>1, <1>3, <1>7, OneCollection

\* set_followed_client_id and set_followed_hashtag
LEMMA FollowOneTyped ==
    ASSUME NEW p \in Private, NEW c \in Followed, NEW k \in KeysOf(c), NEW b \in BOOLEAN,
           NEW t \in Timestamp, FieldsOf(c) = Field({TRUE})
    PROVE  FollowOne(p, c, k, b, t) \in Private
<1> DEFINE v == IF b THEN VersionedField(TRUE, t) ELSE Tombstone(t)
<1>1. c \in Collections /\ p.collections[c] \in Entries(c)
  BY PrivateTyped, KeyTyped
<1>2. v \in FieldsOf(c)
  BY Versioned
<1>3. FollowOne(p, c, k, b, t) = [p EXCEPT !.collections[c] = With(p.collections[c], k, v)]
  BY DEF FollowOne
<1> HIDE DEF v
<1>4. With(p.collections[c], k, v) \in Entries(c)
  BY <1>1, <1>2, WithTyped
<1> QED
  BY <1>1, <1>3, <1>4, OneCollection

\* set_content_threshold and set_content_thresholds
LEMMA ThresholdsTyped ==
    ASSUME NEW p \in Private, NEW K \in SUBSET FeedbackTypes, NEW v \in Values, NEW t \in Timestamp
    PROVE  SetContentThresholds(p, [k \in K |-> v], t) \in Private
<1> DEFINE c == "content_thresholds"
           old == p.collections[c]
           th == [k \in K |-> v]
           D == DOMAIN old \cup DOMAIN th
           x == [k \in D |-> IF k \in DOMAIN th THEN VersionedField(th[k], t) ELSE old[k]]
<1>1. c \in Collections /\ old \in Entries(c) /\ KeysOf(c) = FeedbackTypes /\ FieldsOf(c) = Field(Values)
  BY PrivateTyped, KeyTyped
<1>2. DOMAIN th = K /\ \A k \in K : th[k] = v
  OBVIOUS
<1>3. SetContentThresholds(p, th, t) = [p EXCEPT !.collections[c] = x]
  BY DEF SetContentThresholds
<1> HIDE DEF old, th
<1>4. \A k \in K : VersionedField(th[k], t) \in Field(Values)
  BY <1>2, Versioned
<1>5. DOMAIN old \subseteq FeedbackTypes /\ \A k \in DOMAIN old : old[k] \in Field(Values)
  BY <1>1, EntriesTyped
<1>6. D \in SUBSET FeedbackTypes
  BY <1>2, <1>5
<1>7. x \in [D -> Field(Values)]
  BY <1>2, <1>4, <1>5
<1> HIDE DEF D, x
<1>8. x \in Entries(c)
  BY <1>1, <1>6, <1>7, MadeEntries
<1>9. SetContentThresholds(p, th, t) \in Private
  BY <1>1, <1>3, <1>8, OneCollection
<1> QED
  BY <1>9 DEF th

LEMMA SkipTyped ==
    ASSUME NEW p \in Private, NEW b \in BOOLEAN, NEW t \in Timestamp
    PROVE  SetSkipWarnings(p, b, t) \in Private
<1> DEFINE v == VersionedField(b, t)
<1>1. v \in Field(BOOLEAN)
  BY Versioned
<1> HIDE DEF v
<1>2. [p EXCEPT !.skip = v] = [collections |-> p.collections, skip |-> v]
  <2>1. p \in [collections : [Collections -> UNION {Entries(d) : d \in Collections}], skip : Field(BOOLEAN)]
    BY DEF Private
  <2> QED
    BY <2>1
<1>3. [collections |-> p.collections, skip |-> v] \in Private
  BY <1>1, PrivateTyped, MadePrivate
<1> QED
  BY <1>2, <1>3 DEF SetSkipWarnings, v

\* Every call that changes the settings leaves settings.
LEMMA EditedTyped ==
    ASSUME NEW p \in Private, NEW t \in Timestamp, NEW q \in Edited(p, t)
    PROVE  q \in Private
<1>1. ASSUME NEW K \in SUBSET ClientIds PROVE SetFollowedClientIds(p, K, t) \in Private
  BY KeyTyped, FollowAllTyped DEF SetFollowedClientIds
<1>2. ASSUME NEW k \in ClientIds, NEW b \in BOOLEAN PROVE SetFollowedClientId(p, k, b, t) \in Private
  BY KeyTyped, FollowOneTyped DEF SetFollowedClientId
<1>3. ASSUME NEW K \in SUBSET Hashtags PROVE SetFollowedHashtags(p, K, t) \in Private
  BY KeyTyped, FollowAllTyped DEF SetFollowedHashtags
<1>4. ASSUME NEW k \in Hashtags, NEW b \in BOOLEAN PROVE SetFollowedHashtag(p, k, b, t) \in Private
  BY KeyTyped, FollowOneTyped DEF SetFollowedHashtag
<1>5. ASSUME NEW K \in (SUBSET FeedbackTypes) \ {{}}, NEW v \in Values
      PROVE  SetContentThresholds(p, [k \in K |-> v], t) \in Private
  <2>1. K \in SUBSET FeedbackTypes
    OBVIOUS
  <2> QED
    BY <2>1, ThresholdsTyped
<1>6. ASSUME NEW b \in BOOLEAN PROVE SetSkipWarnings(p, b, t) \in Private
  BY SkipTyped
<1>7. \/ \E K \in SUBSET ClientIds : q = SetFollowedClientIds(p, K, t)
      \/ \E k \in ClientIds, b \in BOOLEAN : q = SetFollowedClientId(p, k, b, t)
      \/ \E K \in SUBSET Hashtags : q = SetFollowedHashtags(p, K, t)
      \/ \E k \in Hashtags, b \in BOOLEAN : q = SetFollowedHashtag(p, k, b, t)
      \/ \E K \in (SUBSET FeedbackTypes) \ {{}}, v \in Values : q = SetContentThresholds(p, [k \in K |-> v], t)
      \/ \E b \in BOOLEAN : q = SetSkipWarnings(p, b, t)
  BY SMT DEF Edited
<1> QED
  BY <1>1, <1>2, <1>3, <1>4, <1>5, <1>6, <1>7, Zenon

\* merge_private keeps settings well formed, whatever it prunes.
LEMMA MergedPrivate ==
    ASSUME NEW p \in Private, NEW q \in Private, NEW t
    PROVE  MergePrivate(p, q, t) \in Private
<1> DEFINE g == [c \in Collections |-> MergeCollection(p.collections[c], q.collections[c], t)]
           skip == MergeScalarField(p.skip, q.skip)
<1>1. ASSUME NEW c \in Collections PROVE MergeCollection(p.collections[c], q.collections[c], t) \in Entries(c)
  <2> DEFINE a == p.collections[c]
             b == q.collections[c]
             merged == [k \in DOMAIN a \cup DOMAIN b |->
                           IF k \notin DOMAIN a THEN b[k]
                           ELSE IF k \notin DOMAIN b THEN a[k]
                           ELSE MergeScalarField(a[k], b[k])]
             kept == {k \in DOMAIN merged :
                         ~(IsTombstone(merged[k]) /\ merged[k].timestamp < t - TombstoneMaxAge)}
  <2>1. a \in Entries(c) /\ b \in Entries(c)
    BY PrivateTyped
  <2>2. MergeCollection(a, b, t) = Restrict(merged, kept)
    BY DEF MergeCollection
  <2> HIDE DEF a, b
  <2>3. /\ DOMAIN a \subseteq KeysOf(c) /\ \A k \in DOMAIN a : a[k] \in FieldsOf(c)
        /\ DOMAIN b \subseteq KeysOf(c) /\ \A k \in DOMAIN b : b[k] \in FieldsOf(c)
    BY <2>1, EntriesTyped
  <2>4. \A x, y : x \in FieldsOf(c) /\ y \in FieldsOf(c) => MergeScalarField(x, y) \in FieldsOf(c)
    BY DEF MergeScalarField
  <2>5. DOMAIN merged \subseteq KeysOf(c) /\ \A k \in DOMAIN merged : merged[k] \in FieldsOf(c)
    BY <2>3, <2>4
  <2> HIDE DEF merged
  <2>6. kept \subseteq DOMAIN merged
    OBVIOUS
  <2> HIDE DEF kept
  <2>7. kept \in SUBSET KeysOf(c) /\ Restrict(merged, kept) \in [kept -> FieldsOf(c)]
    BY <2>5, <2>6 DEF Restrict
  <2>8. Restrict(merged, kept) \in Entries(c)
    BY <2>7, MadeEntries
  <2> QED
    BY <2>2, <2>8 DEF a, b
<1>2. skip \in Field(BOOLEAN)
  BY PrivateTyped, ScalarMerged
<1>3. g = [c \in Collections |-> g[c]] /\ \A c \in Collections : g[c] \in Entries(c)
  BY <1>1
<1>4. MergePrivate(p, q, t) = [collections |-> g, skip |-> skip]
  BY DEF MergePrivate
<1> HIDE DEF g, skip
<1> QED
  BY <1>2, <1>3, <1>4, MadePrivate
-----------------------------------------------------------------------------
(***************************************************************************)
(* The inductive invariant: what a call carries from one step to the next  *)
(* is whole too, and the meta posts it merges are of this account.         *)
(***************************************************************************)
CarryProfile == {"store_bio", "cache_bio", "read_private", "cache_public", "submit", "store_public"}
Incoming == {"cache_incoming", "read_public", "store_public", "decrypt"}
Merging == {"read_public", "store_public", "decrypt"}

GoodTask(t) ==
    /\ t \in Task
    /\ t.at \in CarryProfile => Whole(Me, t.public)
    /\ t.at \in Incoming => t.post \in DOMAIN posts
    /\ t.at \in Merging => IsOwn(t.post)

CallsWhole == \A s \in Slots : task[s] # None => GoodTask(task[s])

IInv == TypeOK /\ WholeBio /\ CallsWhole

\* The same, variable by variable.
GoodCounters == now \in 1 .. MaxTime /\ edits \in 0 .. MaxEdits /\ faults \in 0 .. MaxFaults
GoodConfig == /\ DOMAIN config \subseteq {"public", "private"}
              /\ Whole(Me, GetPublic) /\ GetPrivate \in Private
GoodCache(c) == \A a \in DOMAIN c : /\ a \in Accounts /\ Whole(a, c[a].value)
                                    /\ c[a] \in [value : Public, last_accessed : Timestamp]
GoodPosts(m) == m \in Seq(MetaPost) /\ \A i \in DOMAIN m : Whole(m[i].account, m[i].public)
GoodTasks == task \in [Slots -> Task \cup {None}] /\ CallsWhole

LEMMA Parts ==
    IInv <=> GoodCounters /\ GoodConfig /\ GoodCache(cache) /\ GoodPosts(posts) /\ GoodTasks
<1>1. IInv => GoodCounters /\ GoodConfig /\ GoodCache(cache) /\ GoodPosts(posts) /\ GoodTasks
  BY DEF IInv, TypeOK, WholeBio, GoodCounters, GoodConfig, GoodCache, GoodPosts, GoodTasks
<1>2. ASSUME GoodCounters, GoodConfig, GoodCache(cache), GoodPosts(posts), GoodTasks PROVE IInv
  <2>1. GetPublic \in Public
    BY <1>2, WholeTyped, Bounds DEF GoodConfig
  <2>2. TypeOK
    BY <1>2, <2>1 DEF TypeOK, GoodCounters, GoodConfig, GoodCache, GoodPosts, GoodTasks
  <2>3. WholeBio
    BY <1>2 DEF WholeBio, GoodConfig, GoodCache, GoodPosts
  <2> QED
    BY <1>2, <2>2, <2>3 DEF IInv, GoodTasks
<1> QED
  BY <1>1, <1>2

\* What stays as it is stays good.
LEMMA Kept ==
    ASSUME IInv
    PROVE  /\ UNCHANGED <<now, edits, faults>> => GoodCounters'
           /\ UNCHANGED config => GoodConfig'
           /\ UNCHANGED cache => GoodCache(cache')
           /\ UNCHANGED posts => GoodPosts(posts')
           /\ UNCHANGED <<task, posts>> => GoodTasks'
<1>1. GoodCounters /\ GoodConfig /\ GoodCache(cache) /\ GoodPosts(posts) /\ GoodTasks
  BY Parts
<1>2. UNCHANGED <<now, edits, faults>> => GoodCounters'
  BY <1>1 DEF GoodCounters
<1>3. UNCHANGED config => GoodConfig'
  BY <1>1 DEF GoodConfig, GetPublic, GetPrivate, Get
<1>4. UNCHANGED <<task, posts>> => GoodTasks'
  BY <1>1 DEF GoodTasks, CallsWhole, GoodTask, IsOwn
<1> QED
  BY <1>1, <1>2, <1>3, <1>4

LEMMA Assembled ==
    ASSUME GoodCounters', GoodConfig', GoodCache(cache'), GoodPosts(posts'), GoodTasks'
    PROVE  IInv'
<1>1. GoodCache(cache)' /\ GoodPosts(posts)'
  BY DEF GoodCache, GoodPosts
<1>2. (GoodCounters /\ GoodConfig /\ GoodCache(cache) /\ GoodPosts(posts) /\ GoodTasks)' => IInv'
  BY Parts, PTL
<1> QED
  BY <1>1, <1>2

-----------------------------------------------------------------------------
(***************************************************************************)
(* The storage.                                                            *)
(***************************************************************************)
LEMMA PublicStored ==
    ASSUME IInv, NEW public, Whole(Me, public), PutPublic(public)
    PROVE  GoodConfig'
<1>1. GoodConfig
  BY Parts
<1>2. config' = Put(config, "public", public, 0)
  BY DEF PutPublic
<1>3. /\ DOMAIN config' = DOMAIN config \cup {"public"}
      /\ Get(config', "public") = public
      /\ Get(config', "private") = Get(config, "private")
  <2>1. "private" # "public"
    OBVIOUS
  <2> DEFINE c == Put(config, "public", public, 0)
  <2>2. DOMAIN c = DOMAIN config \cup {"public"} /\ Get(c, "public") = public
    BY <2>1 DEF Put, With, Get
  <2>3. Get(c, "private") = Get(config, "private")
    BY <2>1 DEF Put, With, Get
  <2> QED
    BY <1>2, <2>2, <2>3, Zenon
<1>4. GetPublic' \in {public, EmptyPublic} /\ GetPrivate' = GetPrivate
  BY <1>3 DEF GetPublic, GetPrivate
<1>5. Whole(Me, GetPublic')
  BY <1>4 DEF Whole
<1> QED
  BY <1>1, <1>3, <1>4, <1>5 DEF GoodConfig

LEMMA PrivateStored ==
    ASSUME IInv, NEW private \in Private, PutPrivate(private)
    PROVE  GoodConfig'
<1>1. GoodConfig
  BY Parts
<1>2. config' = Put(config, "private", private, 0)
  BY DEF PutPrivate
<1>3. /\ DOMAIN config' = DOMAIN config \cup {"private"}
      /\ Get(config', "private") = private
      /\ Get(config', "public") = Get(config, "public")
  <2>1. "public" # "private"
    OBVIOUS
  <2> DEFINE c == Put(config, "private", private, 0)
  <2>2. DOMAIN c = DOMAIN config \cup {"private"} /\ Get(c, "private") = private
    BY <2>1 DEF Put, With, Get
  <2>3. Get(c, "public") = Get(config, "public")
    BY <2>1 DEF Put, With, Get
  <2> QED
    BY <1>2, <2>2, <2>3, Zenon
<1>4. GetPrivate' \in {private, EmptyPrivate} /\ GetPublic' = GetPublic
  BY <1>3 DEF GetPublic, GetPrivate
<1>5. GetPrivate' \in Private
  BY <1>4, EmptyPrivateTyped
<1> QED
  BY <1>1, <1>3, <1>4, <1>5 DEF GoodConfig

LEMMA ConfigEmptied ==
    ASSUME config' = NoEntries
    PROVE  GoodConfig'
<1>1. DOMAIN config' = {}
  BY DEF NoEntries
<1>2. Get(config', "public") = None /\ Get(config', "private") = None
  BY <1>1 DEF Get
<1>3. GetPublic' = EmptyPublic /\ GetPrivate' = EmptyPrivate
  BY <1>2 DEF GetPublic, GetPrivate
<1> QED
  BY <1>1, <1>3, EmptyPrivateTyped DEF GoodConfig, Whole

LEMMA Cached ==
    ASSUME IInv, NEW a \in Accounts, NEW public, Whole(a, public), NEW t \in Timestamp
    PROVE  GoodCache(Put(cache, a, public, t))
<1> DEFINE e == [value |-> public, last_accessed |-> t]
           g == With(cache, a, e)
<1>1. GoodCache(cache)
  BY Parts
<1>2. public \in Public
  BY WholeTyped
<1>3. e \in [value : Public, last_accessed : Timestamp] /\ e.value = public
  BY <1>2
<1>5. Put(cache, a, public, t) = g
  BY DEF Put
<1> HIDE DEF e
<1>4. DOMAIN g = DOMAIN cache \cup {a} /\ g[a] = e /\ \A j \in DOMAIN cache : j # a => g[j] = cache[j]
  BY DEF With
<1> HIDE DEF g
<1>6. GoodCache(g)
  BY <1>1, <1>3, <1>4 DEF GoodCache
<1> QED
  BY <1>5, <1>6

LEMMA Touched ==
    ASSUME IInv, NEW a, NEW t \in Timestamp
    PROVE  GoodCache(Touch(cache, a, t))
<1>1. GoodCache(cache)
  BY Parts
<1>2. CASE a \in DOMAIN cache /\ t > 0
  <2> DEFINE e == [cache[a] EXCEPT !.last_accessed = t]
             g == [cache EXCEPT ![a] = e]
  <2>1. cache[a] \in [value : Public, last_accessed : Timestamp] /\ Whole(a, cache[a].value)
    BY <1>1, <1>2 DEF GoodCache
  <2>2. e \in [value : Public, last_accessed : Timestamp] /\ e.value = cache[a].value
    BY <2>1
  <2>3. Touch(cache, a, t) = g
    BY <1>2 DEF Touch
  <2> HIDE DEF e
  <2>4. DOMAIN g = DOMAIN cache /\ g[a] = e /\ \A j \in DOMAIN cache : j # a => g[j] = cache[j]
    BY <1>2
  <2> HIDE DEF g
  <2>5. GoodCache(g)
    BY <1>1, <2>1, <2>2, <2>4 DEF GoodCache
  <2> QED
    BY <2>3, <2>5
<1>3. CASE ~(a \in DOMAIN cache /\ t > 0)
  BY <1>1, <1>3 DEF Touch
<1> QED
  BY <1>2, <1>3

LEMMA Trimmed ==
    ASSUME IInv, NEW n, NEW c \in Trim(cache, n)
    PROVE  GoodCache(c)
<1>1. GoodCache(cache)
  BY Parts
<1>2. c = cache \/ \E K : c = Restrict(cache, DOMAIN cache \ K)
  BY DEF Trim
<1>3. ASSUME NEW K, c = Restrict(cache, DOMAIN cache \ K) PROVE GoodCache(c)
  <2>1. DOMAIN c = DOMAIN cache \ K /\ \A a \in DOMAIN c : c[a] = cache[a]
    BY <1>3 DEF Restrict
  <2> QED
    BY <1>1, <2>1 DEF GoodCache
<1> QED
  BY <1>1, <1>2, <1>3
-----------------------------------------------------------------------------
(***************************************************************************)
(* The calls in progress.                                                  *)
(***************************************************************************)
LEMMA BioTask ==
    ASSUME NEW t \in Task, t.at \in {"store_bio", "cache_bio"}
    PROVE  t \in [at : {"store_bio", "cache_bio"}, time : Timestamp, public : Public]
BY DEF Task

LEMMA PrivateTask ==
    ASSUME NEW t \in Task, t.at = "store_private"
    PROVE  t \in [at : {"store_private"}, private : Private]
BY DEF Task

LEMMA ReadTask ==
    ASSUME NEW t \in Task, t.at = "read_private"
    PROVE  t \in [at : {"read_private"}, public : Public]
BY DEF Task

LEMMA BuiltTask ==
    ASSUME NEW t \in Task, t.at \in {"cache_public", "submit"}
    PROVE  t \in [at : {"cache_public", "submit"}, public : Public, private : Private]
BY DEF Task

LEMMA PostTask ==
    ASSUME NEW t \in Task, t.at \in {"cache_incoming", "read_public", "decrypt"}
    PROVE  t \in [at : {"cache_incoming", "read_public", "decrypt"}, post : Nat, time : Timestamp]
BY DEF Task

LEMMA MergeTask ==
    ASSUME NEW t \in Task, t.at = "store_public"
    PROVE  t \in [at : {"store_public"}, post : Nat, time : Timestamp, public : Public]
BY DEF Task

\* The call that makes the step.
LEMMA Call ==
    ASSUME IInv, NEW s \in Slots, NEW step, At(s, step)
    PROVE  task[s] # None /\ task[s].at = step /\ task[s] \in Task /\ GoodTask(task[s])
<1>1. task[s] # None /\ task[s].at = step
  BY DEF At
<1>2. GoodTask(task[s])
  BY <1>1 DEF IInv, CallsWhole
<1> QED
  BY <1>1, <1>2 DEF GoodTask

\* A call goes on to another step, starts or ends.
LEMMA Moved ==
    ASSUME IInv, NEW s \in Slots, NEW t, Goto(s, t), t.at = "end" \/ GoodTask(t), UNCHANGED posts
    PROVE  GoodTasks'
<1> DEFINE v == IF t.at = "end" THEN None ELSE t
<1>1. task \in [Slots -> Task \cup {None}] /\ CallsWhole
  BY Parts DEF GoodTasks
<1>2. task' = [task EXCEPT ![s] = v]
  BY DEF Goto
<1>3. v = None \/ GoodTask(v)
  OBVIOUS
<1> HIDE DEF v
<1>4. task' \in [Slots -> Task \cup {None}]
  BY <1>1, <1>2, <1>3 DEF GoodTask
<1>5. \A r \in Slots : task'[r] = IF r = s THEN v ELSE task[r]
  BY <1>1, <1>2
<1>6. \A r \in Slots : task'[r] # None => GoodTask(task'[r])
  BY <1>1, <1>3, <1>5 DEF CallsWhole
<1>7. CallsWhole'
  BY <1>6 DEF CallsWhole, GoodTask, IsOwn
<1> QED
  BY <1>4, <1>7 DEF GoodTasks

LEMMA Finished ==
    ASSUME IInv, NEW s \in Slots, Done(s), UNCHANGED posts
    PROVE  GoodTasks'
<1>1. task \in [Slots -> Task \cup {None}] /\ CallsWhole
  BY Parts DEF GoodTasks
<1>2. task' = [task EXCEPT ![s] = None]
  BY DEF Done
<1>3. task' \in [Slots -> Task \cup {None}] /\ \A r \in Slots : task'[r] \in {None, task[r]}
  BY <1>1, <1>2
<1>4. CallsWhole'
  BY <1>1, <1>3 DEF CallsWhole, GoodTask, IsOwn
<1> QED
  BY <1>3, <1>4 DEF GoodTasks

\* A meta post is stored, behind the ones that are there.
LEMMA Published ==
    ASSUME IInv, NEW m \in MetaPost, Whole(m.account, m.public), posts' = Append(posts, m),
           task' \in [Slots -> Task \cup {None}], \A r \in Slots : task'[r] \in {None, task[r]}
    PROVE  GoodPosts(posts') /\ GoodTasks'
<1>1. GoodPosts(posts) /\ CallsWhole
  BY Parts DEF GoodTasks
<1>2. posts \in Seq(MetaPost) /\ \A i \in DOMAIN posts : Whole(posts[i].account, posts[i].public)
  BY <1>1 DEF GoodPosts
<1>3. /\ posts' \in Seq(MetaPost) /\ DOMAIN posts \subseteq DOMAIN posts'
      /\ \A i \in DOMAIN posts : posts'[i] = posts[i]
      /\ \A i \in DOMAIN posts' : i \in DOMAIN posts \/ posts'[i] = m
  BY <1>2
<1>4. GoodPosts(posts')
  BY <1>2, <1>3 DEF GoodPosts
<1>5. ASSUME NEW t, GoodTask(t) PROVE GoodTask(t)'
  <2>1. t.at \in Incoming => t.post \in DOMAIN posts
    BY <1>5 DEF GoodTask
  <2>2. Merging \subseteq Incoming
    BY DEF Merging, Incoming
  <2>3. t.at \in Merging => posts'[t.post].account = Me
    BY <1>3, <1>5, <2>1, <2>2 DEF GoodTask, IsOwn
  <2> QED
    BY <1>3, <1>5, <2>1, <2>3 DEF GoodTask, IsOwn
<1>6. \A t : GoodTask(t) => (t \in Task
                              /\ (t.at \in CarryProfile => Whole(Me, t.public))
                              /\ (t.at \in Incoming => t.post \in DOMAIN posts')
                              /\ (t.at \in Merging => posts'[t.post].account = Me))
  BY <1>5 DEF GoodTask, IsOwn
<1>7. CallsWhole'
  BY <1>1, <1>6 DEF CallsWhole, GoodTask, IsOwn
<1> QED
  BY <1>4, <1>7 DEF GoodTasks
LEMMA Now ==
    ASSUME IInv
    PROVE  /\ now \in Timestamp /\ now \in 1 .. MaxTime /\ edits \in 0 .. MaxEdits /\ Me \in Accounts
           /\ Whole(Me, GetPublic) /\ GetPublic \in Public /\ GetPrivate \in Private
BY Bounds DEF IInv, TypeOK, WholeBio

LEMMA MorePosts ==
    ASSUME IInv, NEW i \in DOMAIN posts
    PROVE  /\ posts[i] \in MetaPost /\ posts[i].account \in Accounts /\ posts[i].public \in Public
           /\ posts[i].private \in Private /\ i \in Nat
           /\ Whole(posts[i].account, posts[i].public)
<1>1. posts \in Seq(MetaPost) /\ Whole(posts[i].account, posts[i].public)
  BY DEF IInv, TypeOK, WholeBio
<1>2. posts[i] \in MetaPost /\ i \in Nat
  BY <1>1
<1> QED
  BY <1>1, <1>2 DEF MetaPost

LEMMA Edit ==
    ASSUME IInv, edits < MaxEdits, edits' = edits + 1, UNCHANGED <<now, faults>>
    PROVE  GoodCounters'
<1>1. GoodCounters /\ MaxEdits \in Nat
  BY Parts, Bounds
<1> QED
  BY <1>1 DEF GoodCounters

LEMMA Fault ==
    ASSUME IInv, faults < MaxFaults, faults' = faults + 1, UNCHANGED <<now, edits>>
    PROVE  GoodCounters'
<1>1. GoodCounters /\ MaxFaults \in Nat
  BY Parts, Bounds
<1> QED
  BY <1>1 DEF GoodCounters

LEMMA SetBioStep ==
    ASSUME IInv, NEW s \in Slots, SetBio(s)
    PROVE  IInv'
<1> DEFINE bio == FromBio(now, <<Me, edits>>)
           public == MergePublic(GetPublic, bio)
           t == [at |-> "store_bio", time |-> now, public |-> public]
<1>1. Goto(s, t) /\ edits < MaxEdits /\ edits' = edits + 1 /\ UNCHANGED <<now, config, cache, posts, faults>>
  BY DEF SetBio, Start
<1>2. Whole(Me, bio)
  BY Now DEF Whole
<1>3. Whole(Me, public) /\ public \in Public
  BY <1>2, Now, MergedWhole, WholeTyped
<1> HIDE DEF public
<1>4. t \in Task
  BY <1>3, Now DEF Task
<1>5. GoodTask(t)
  BY <1>3, <1>4 DEF GoodTask, Incoming, Merging
<1> HIDE DEF t
<1>6. GoodTasks'
  BY <1>1, <1>5, Moved
<1>7. GoodCounters'
  BY <1>1, Edit
<1> QED
  BY <1>1, <1>6, <1>7, Kept, Assembled

LEMMA StoreBioStep ==
    ASSUME IInv, NEW s \in Slots, StoreBio(s)
    PROVE  IInv'
<1> DEFINE t == [task[s] EXCEPT !.at = "cache_bio"]
<1>1. /\ At(s, "store_bio") /\ PutPublic(task[s].public) /\ Goto(s, t)
      /\ UNCHANGED <<now, cache, posts, edits, faults>>
  BY DEF StoreBio
<1>2. task[s].at = "store_bio" /\ task[s] \in Task /\ GoodTask(task[s])
  BY <1>1, Call
<1>3. task[s] \in [at : {"store_bio", "cache_bio"}, time : Timestamp, public : Public]
  BY <1>2, BioTask
<1>4. Whole(Me, task[s].public)
  BY <1>2 DEF GoodTask, CarryProfile
<1>5. t = [at |-> "cache_bio", time |-> task[s].time, public |-> task[s].public]
  BY <1>3
<1>6. task[s].time \in Timestamp /\ task[s].public \in Public
  BY <1>3
<1> HIDE DEF t
<1>7. t \in Task
  BY <1>5, <1>6 DEF Task
<1>8. GoodTask(t)
  BY <1>4, <1>5, <1>7 DEF GoodTask, Incoming, Merging
<1>9. GoodTasks' /\ GoodConfig'
  BY <1>1, <1>4, <1>8, Moved, PublicStored
<1> QED
  BY <1>1, <1>9, Kept, Assembled

LEMMA CacheBioStep ==
    ASSUME IInv, NEW s \in Slots, CacheBio(s)
    PROVE  IInv'
<1>1. /\ At(s, "cache_bio") /\ cache' = Put(cache, Me, task[s].public, task[s].time) /\ Done(s)
      /\ UNCHANGED <<now, config, posts, edits, faults>>
  BY DEF CacheBio, CachePublic
<1>2. task[s].at = "cache_bio" /\ task[s] \in Task /\ GoodTask(task[s])
  BY <1>1, Call
<1>3. task[s] \in [at : {"store_bio", "cache_bio"}, time : Timestamp, public : Public]
  BY <1>2, BioTask
<1>4. Whole(Me, task[s].public) /\ task[s].time \in Timestamp /\ Me \in Accounts
  BY <1>2, <1>3, Now DEF GoodTask, CarryProfile
<1>5. GoodCache(cache') /\ GoodTasks'
  BY <1>1, <1>4, Cached, Finished
<1> QED
  BY <1>1, <1>5, Kept, Assembled

LEMMA SetSettingsStep ==
    ASSUME IInv, NEW s \in Slots, SetSettings(s)
    PROVE  IInv'
<1>1. edits < MaxEdits /\ edits' = edits + 1 /\ UNCHANGED <<now, config, cache, posts, faults>>
  BY DEF SetSettings
<1>2. PICK private \in Edited(GetPrivate, now) : Goto(s, [at |-> "store_private", private |-> private])
  BY DEF SetSettings, Start
<1>3. private \in Private
  BY Now, EditedTyped
<1> DEFINE t == [at |-> "store_private", private |-> private]
<1>4. t \in Task /\ t.at = "store_private"
  BY <1>3 DEF Task
<1>5. Goto(s, t)
  BY <1>2
<1> HIDE DEF t
<1>6. GoodTask(t)
  BY <1>4 DEF GoodTask, CarryProfile, Incoming, Merging
<1>7. GoodTasks' /\ GoodCounters'
  BY <1>1, <1>5, <1>6, Moved, Edit
<1> QED
  BY <1>1, <1>7, Kept, Assembled

LEMMA StorePrivateStep ==
    ASSUME IInv, NEW s \in Slots, StorePrivate(s)
    PROVE  IInv'
<1>1. At(s, "store_private") /\ PutPrivate(task[s].private) /\ Done(s)
      /\ UNCHANGED <<now, cache, posts, edits, faults>>
  BY DEF StorePrivate
<1>2. task[s].at = "store_private" /\ task[s] \in Task
  BY <1>1, Call
<1>3. task[s].private \in Private
  BY <1>2, PrivateTask
<1>4. GoodConfig' /\ GoodTasks'
  BY <1>1, <1>3, PrivateStored, Finished
<1> QED
  BY <1>1, <1>4, Kept, Assembled

LEMMA SubmitMetaPostStep ==
    ASSUME IInv, NEW s \in Slots, SubmitMetaPost(s)
    PROVE  IInv'
<1> DEFINE t == [at |-> "read_private", public |-> GetPublic]
<1>1. Goto(s, t) /\ UNCHANGED <<now, config, cache, posts, edits, faults>>
  BY DEF SubmitMetaPost, Start
<1>2. t \in Task /\ t.at = "read_private" /\ Whole(Me, t.public)
  BY Now DEF Task
<1> HIDE DEF t
<1>3. GoodTask(t)
  BY <1>2 DEF GoodTask, Incoming, Merging
<1>4. GoodTasks'
  BY <1>1, <1>3, Moved
<1> QED
  BY <1>1, <1>4, Kept, Assembled

LEMMA ReadPrivateStep ==
    ASSUME IInv, NEW s \in Slots, ReadPrivate(s)
    PROVE  IInv'
<1> DEFINE t == [at |-> "cache_public", public |-> task[s].public, private |-> GetPrivate]
<1>1. At(s, "read_private") /\ Goto(s, t) /\ UNCHANGED <<now, config, cache, posts, edits, faults>>
  BY DEF ReadPrivate
<1>2. task[s].at = "read_private" /\ task[s] \in Task /\ GoodTask(task[s])
  BY <1>1, Call
<1>3. task[s].public \in Public /\ Whole(Me, task[s].public)
  BY <1>2, ReadTask DEF GoodTask, CarryProfile
<1>4. t \in Task /\ t.at = "cache_public" /\ Whole(Me, t.public)
  BY <1>3, Now DEF Task
<1> HIDE DEF t
<1>5. GoodTask(t)
  BY <1>4 DEF GoodTask, Incoming, Merging
<1>6. GoodTasks'
  BY <1>1, <1>5, Moved
<1> QED
  BY <1>1, <1>6, Kept, Assembled

LEMMA CacheBuiltStep ==
    ASSUME IInv, NEW s \in Slots, CacheBuilt(s)
    PROVE  IInv'
<1> DEFINE t == [task[s] EXCEPT !.at = "submit"]
<1>1. /\ At(s, "cache_public") /\ cache' = Put(cache, Me, task[s].public, now) /\ Goto(s, t)
      /\ UNCHANGED <<now, config, posts, edits, faults>>
  BY DEF CacheBuilt, CachePublic
<1>2. task[s].at = "cache_public" /\ task[s] \in Task /\ GoodTask(task[s])
  BY <1>1, Call
<1>3. task[s] \in [at : {"cache_public", "submit"}, public : Public, private : Private]
  BY <1>2, BuiltTask
<1>4. Whole(Me, task[s].public)
  BY <1>2 DEF GoodTask, CarryProfile
<1>5. t = [at |-> "submit", public |-> task[s].public, private |-> task[s].private]
  BY <1>3
<1>6. task[s].public \in Public /\ task[s].private \in Private
  BY <1>3
<1> HIDE DEF t
<1>7. t \in Task
  BY <1>5, <1>6 DEF Task
<1>8. GoodTask(t)
  BY <1>4, <1>5, <1>7 DEF GoodTask, Incoming, Merging
<1>9. GoodTasks' /\ GoodCache(cache')
  BY <1>1, <1>4, <1>8, Moved, Cached, Now
<1> QED
  BY <1>1, <1>9, Kept, Assembled

LEMMA SubmitPostStep ==
    ASSUME IInv, NEW s \in Slots, SubmitPost(s)
    PROVE  IInv'
<1> DEFINE m == [account |-> Me, time |-> now, public |-> task[s].public, private |-> task[s].private]
<1>1. At(s, "submit") /\ Done(s) /\ UNCHANGED <<now, config, cache, edits>>
  BY DEF SubmitPost
<1>2. task[s].at = "submit" /\ task[s] \in Task /\ GoodTask(task[s])
  BY <1>1, Call
<1>3. task[s].public \in Public /\ task[s].private \in Private /\ Whole(Me, task[s].public)
  BY <1>2, BuiltTask DEF GoodTask, CarryProfile
<1>4. m \in MetaPost /\ Whole(m.account, m.public)
  BY <1>3, Now DEF MetaPost
<1>5. CASE posts' = Append(posts, m) /\ UNCHANGED faults
  <2> HIDE DEF m
  <2>1. task' \in [Slots -> Task \cup {None}] /\ \A r \in Slots : task'[r] \in {None, task[r]}
    <3>1. task \in [Slots -> Task \cup {None}]
      BY Parts DEF GoodTasks
    <3> QED
      BY <1>1, <3>1 DEF Done
  <2>2. GoodPosts(posts') /\ GoodTasks'
    BY <1>4, <1>5, <2>1, Published
  <2> QED
    BY <1>1, <1>5, <2>2, Kept, Assembled
<1>6. CASE posts' = posts /\ faults < MaxFaults /\ faults' = faults + 1
  <2>1. GoodTasks' /\ GoodCounters'
    BY <1>1, <1>6, Finished, Fault
  <2> QED
    BY <1>1, <1>6, <2>1, Kept, Assembled
<1> QED
  BY <1>5, <1>6 DEF SubmitPost
\* A meta post that goes on to be merged is of this account.
LEMMA Continued ==
    ASSUME IInv, NEW i \in DOMAIN posts, NEW time \in Timestamp,
           NEW at \in {"cache_incoming", "read_public", "end"}, at = "read_public" => IsOwn(i)
    PROVE  LET t == [at |-> at, post |-> i, time |-> time]
           IN  t.at = "end" \/ GoodTask(t)
<1> DEFINE t == [at |-> at, post |-> i, time |-> time]
<1>1. t.at = at /\ t.post = i
  OBVIOUS
<1>2. CASE at = "end"
  BY <1>1, <1>2
<1>3. CASE at # "end"
  <2>1. i \in Nat
    BY MorePosts
  <2>2. t \in Task
    BY <1>3, <2>1 DEF Task
  <2> HIDE DEF t
  <2>3. GoodTask(t)
    BY <1>1, <1>3, <2>2 DEF GoodTask, CarryProfile, Incoming, Merging
  <2> QED
    BY <2>3 DEF t
<1> QED
  BY <1>2, <1>3

LEMMA ReadCachedStep ==
    ASSUME IInv, NEW s \in Slots, NEW i, ReadCached(s, i)
    PROVE  IInv'
<1> DEFINE account == posts[i].account
           existing == Get(cache, account)
           newer == existing = None \/ MaxTimestamp(posts[i].public) > MaxTimestamp(existing)
           at == IF newer THEN "cache_incoming" ELSE AfterCache(i, newer)
           t == [at |-> at, post |-> i, time |-> now]
<1>1. i \in DOMAIN posts /\ UNCHANGED <<now, config, posts, edits, faults>>
  BY DEF ReadCached
<1>2. cache' = Touch(cache, account, now) /\ Goto(s, t)
  BY DEF ReadCached, Start
<1>3. at \in {"cache_incoming", "read_public", "end"} /\ (at = "read_public" => IsOwn(i))
  BY DEF AfterCache
<1> HIDE DEF at
<1>4. t.at = "end" \/ GoodTask(t)
  BY <1>1, <1>3, Now, Continued
<1> HIDE DEF t, account
<1>5. GoodTasks' /\ GoodCache(cache')
  BY <1>1, <1>2, <1>4, Moved, Touched, Now
<1> QED
  BY <1>1, <1>5, Kept, Assembled

LEMMA CacheIncomingStep ==
    ASSUME IInv, NEW s \in Slots, CacheIncoming(s)
    PROVE  IInv'
<1> DEFINE i == task[s].post
           at == AfterCache(i, TRUE)
           t == [task[s] EXCEPT !.at = at]
<1>1. /\ At(s, "cache_incoming") /\ Goto(s, t)
      /\ cache' = Put(cache, posts[i].account, posts[i].public, task[s].time)
      /\ UNCHANGED <<now, config, posts, edits, faults>>
  BY DEF CacheIncoming, CachePublic
<1>2. task[s].at = "cache_incoming" /\ task[s] \in Task /\ GoodTask(task[s])
  BY <1>1, Call
<1>3. task[s] \in [at : {"cache_incoming", "read_public", "decrypt"}, post : Nat, time : Timestamp]
  BY <1>2, PostTask
<1>4. i \in DOMAIN posts /\ task[s].time \in Timestamp
  BY <1>2, <1>3 DEF GoodTask, Incoming
<1>5. at \in {"cache_incoming", "read_public", "end"} /\ (at = "read_public" => IsOwn(i))
  BY DEF AfterCache
<1> HIDE DEF at
<1>6. t = [at |-> at, post |-> i, time |-> task[s].time]
  BY <1>3
<1> HIDE DEF t, i
<1>7. t.at = "end" \/ GoodTask(t)
  BY <1>4, <1>5, <1>6, Continued
<1>8. GoodCache(cache')
  BY <1>1, <1>4, MorePosts, Cached
<1>9. GoodTasks'
  BY <1>1, <1>7, Moved
<1> QED
  BY <1>1, <1>8, <1>9, Kept, Assembled

LEMMA ReadPublicStep ==
    ASSUME IInv, NEW s \in Slots, ReadPublic(s)
    PROVE  IInv'
<1> DEFINE i == task[s].post
           public == MergePublic(GetPublic, posts[i].public)
           t == [at |-> "store_public", post |-> i, time |-> task[s].time, public |-> public]
<1>1. At(s, "read_public") /\ Goto(s, t) /\ UNCHANGED <<now, config, cache, posts, edits, faults>>
  BY DEF ReadPublic
<1>2. task[s].at = "read_public" /\ task[s] \in Task /\ GoodTask(task[s])
  BY <1>1, Call
<1>3. i \in DOMAIN posts /\ IsOwn(i) /\ i \in Nat /\ task[s].time \in Timestamp
  BY <1>2, PostTask DEF GoodTask, Incoming, Merging
<1>4. Whole(Me, posts[i].public)
  BY <1>3, MorePosts DEF IsOwn
<1>5. Whole(Me, public) /\ public \in Public
  BY <1>4, Now, MergedWhole, WholeTyped
<1> HIDE DEF public, i
<1>6. t \in Task /\ t.at = "store_public" /\ t.post = i /\ t.public = public
  BY <1>3, <1>5 DEF Task
<1> HIDE DEF t
<1>7. GoodTask(t)
  BY <1>3, <1>5, <1>6 DEF GoodTask
<1>8. GoodTasks'
  BY <1>1, <1>7, Moved
<1> QED
  BY <1>1, <1>8, Kept, Assembled

LEMMA StorePublicStep ==
    ASSUME IInv, NEW s \in Slots, StorePublic(s)
    PROVE  IInv'
<1> DEFINE i == task[s].post
           t == [at |-> "decrypt", post |-> i, time |-> task[s].time]
<1>1. /\ At(s, "store_public") /\ PutPublic(task[s].public) /\ Goto(s, t)
      /\ UNCHANGED <<now, cache, posts, edits, faults>>
  BY DEF StorePublic
<1>2. task[s].at = "store_public" /\ task[s] \in Task /\ GoodTask(task[s])
  BY <1>1, Call
<1>3. i \in DOMAIN posts /\ IsOwn(i) /\ i \in Nat /\ task[s].time \in Timestamp
  BY <1>2, MergeTask DEF GoodTask, Incoming, Merging
<1>4. Whole(Me, task[s].public)
  BY <1>2 DEF GoodTask, CarryProfile
<1> HIDE DEF i
<1>5. t \in Task /\ t.at = "decrypt" /\ t.post = i
  BY <1>3 DEF Task
<1> HIDE DEF t
<1>6. GoodTask(t)
  BY <1>3, <1>5 DEF GoodTask, CarryProfile
<1>7. GoodTasks' /\ GoodConfig'
  BY <1>1, <1>4, <1>6, Moved, PublicStored
<1> QED
  BY <1>1, <1>7, Kept, Assembled

LEMMA DecryptStep ==
    ASSUME IInv, NEW s \in Slots, Decrypt(s)
    PROVE  IInv'
<1> DEFINE i == task[s].post
           private == MergePrivate(GetPrivate, posts[i].private, task[s].time)
           t == [at |-> "store_private", private |-> private]
<1>1. At(s, "decrypt") /\ UNCHANGED <<now, config, cache, posts, edits>>
  BY DEF Decrypt
<1>2. \/ Goto(s, t) /\ UNCHANGED faults
      \/ Done(s) /\ faults < MaxFaults /\ faults' = faults + 1
  BY DEF Decrypt
<1>3. task[s].at = "decrypt" /\ task[s] \in Task /\ GoodTask(task[s])
  BY <1>1, Call
<1>4. i \in DOMAIN posts
  BY <1>3 DEF GoodTask, Incoming
<1>5. private \in Private
  BY <1>4, Now, MorePosts, MergedPrivate
<1> HIDE DEF private
<1>6. t \in Task /\ t.at = "store_private"
  BY <1>5 DEF Task
<1> HIDE DEF t
<1>7. GoodTask(t)
  BY <1>6 DEF GoodTask, CarryProfile, Incoming, Merging
<1>8. CASE Goto(s, t) /\ UNCHANGED faults
  <2>1. GoodTasks'
    BY <1>1, <1>7, <1>8, Moved
  <2> QED
    BY <1>1, <1>8, <2>1, Kept, Assembled
<1>9. CASE Done(s) /\ faults < MaxFaults /\ faults' = faults + 1
  <2>1. GoodTasks' /\ GoodCounters'
    BY <1>1, <1>9, Finished, Fault
  <2> QED
    BY <1>1, <1>9, <2>1, Kept, Assembled
<1> QED
  BY <1>2, <1>8, <1>9

LEMMA RestartStep ==
    ASSUME IInv, Restart
    PROVE  IInv'
<1>1. /\ faults < MaxFaults /\ faults' = faults + 1 /\ task' = [s \in Slots |-> None]
      /\ cache' \in Trim(cache, CacheTrim) /\ UNCHANGED <<now, config, posts, edits>>
  BY DEF Restart
<1>2. GoodTasks'
  BY <1>1 DEF GoodTasks, CallsWhole
<1>3. GoodCache(cache') /\ GoodCounters'
  BY <1>1, Trimmed, Fault
<1> QED
  BY <1>1, <1>2, <1>3, Kept, Assembled

LEMMA ResetStep ==
    ASSUME IInv, NEW s \in Slots, Reset(s)
    PROVE  IInv'
<1> DEFINE t == [at |-> "reset"]
<1>1. /\ faults < MaxFaults /\ faults' = faults + 1 /\ Goto(s, t) /\ config' = NoEntries
      /\ UNCHANGED <<now, cache, posts, edits>>
  BY DEF Reset, Start
<1>2. t \in Task /\ t.at = "reset"
  BY DEF Task
<1> HIDE DEF t
<1>3. GoodTask(t)
  BY <1>2 DEF GoodTask, CarryProfile, Incoming, Merging
<1>4. GoodTasks' /\ GoodConfig' /\ GoodCounters'
  BY <1>1, <1>3, Moved, ConfigEmptied, Fault
<1> QED
  BY <1>1, <1>4, Kept, Assembled

LEMMA ResetCacheStep ==
    ASSUME IInv, NEW s \in Slots, ResetCache(s)
    PROVE  IInv'
<1>1. cache' = NoEntries /\ Done(s) /\ UNCHANGED <<now, config, posts, edits, faults>>
  BY DEF ResetCache
<1>2. GoodCache(cache')
  BY <1>1 DEF GoodCache, NoEntries
<1>3. GoodTasks'
  BY <1>1, Finished
<1> QED
  BY <1>1, <1>2, <1>3, Kept, Assembled

LEMMA OthersPublishStep ==
    ASSUME IInv, NEW account \in Accounts, OthersPublish(account)
    PROVE  IInv'
<1> DEFINE known == {posts[i] : i \in {j \in DOMAIN posts : posts[j].account = account}}
           M(public, private) == [account |-> account, time |-> now, public |-> public, private |-> private]
<1>1. edits < MaxEdits /\ edits' = edits + 1 /\ UNCHANGED <<now, config, cache, task, faults>>
  BY DEF OthersPublish
<1>2. PICK public \in {FromBio(now, <<account, edits>>)} \cup {p.public : p \in known},
           private \in Edited(EmptyPrivate, now) \cup {p.private : p \in known} :
         posts' = Append(posts, M(public, private))
  BY DEF OthersPublish
<1>3. \A p \in known : p.private \in Private /\ Whole(account, p.public)
  BY MorePosts
<1> HIDE DEF known
<1>4. Whole(account, public)
  <2>1. CASE public = FromBio(now, <<account, edits>>)
    BY <2>1, Now DEF Whole
  <2>2. CASE public \in {p.public : p \in known}
    BY <1>3, <2>2
  <2> QED
    BY <2>1, <2>2
<1>5. private \in Private
  BY <1>3, Now, EmptyPrivateTyped, EditedTyped
<1> DEFINE m == M(public, private)
<1>6. m \in MetaPost /\ Whole(m.account, m.public)
  BY <1>4, <1>5, WholeTyped, Now DEF MetaPost
<1>7. posts' = Append(posts, m)
  BY <1>2
<1> HIDE DEF m
<1>8. task' \in [Slots -> Task \cup {None}] /\ \A r \in Slots : task'[r] \in {None, task[r]}
  BY <1>1, Parts DEF GoodTasks
<1>9. GoodPosts(posts') /\ GoodTasks'
  BY <1>6, <1>7, <1>8, Published
<1>10. GoodCounters'
  BY <1>1, Edit
<1> QED
  BY <1>1, <1>9, <1>10, Kept, Assembled

LEMMA TickStep ==
    ASSUME IInv, Tick
    PROVE  IInv'
<1>1. now < MaxTime /\ now' = now + 1 /\ UNCHANGED <<config, cache, task, posts, edits, faults>>
  BY DEF Tick
<1>2. GoodCounters /\ MaxTime \in Nat
  BY Parts, Bounds
<1>3. GoodCounters'
  BY <1>1, <1>2 DEF GoodCounters
<1> QED
  BY <1>1, <1>3, Kept, Assembled

-----------------------------------------------------------------------------
(***************************************************************************)
(* Theorems.                                                               *)
(***************************************************************************)
LEMMA InitInd == Init => IInv
<1> SUFFICES ASSUME Init PROVE IInv
  OBVIOUS
<1>1. GoodCounters
  BY Bounds DEF Init, GoodCounters
<1>2. GetPublic = EmptyPublic /\ GetPrivate = EmptyPrivate /\ DOMAIN config = {}
  <2>1. DOMAIN config = {}
    BY DEF Init, NoEntries
  <2> QED
    BY <2>1 DEF GetPublic, GetPrivate, Get
<1>3. GoodConfig
  BY <1>2, EmptyPrivateTyped DEF GoodConfig, Whole
<1>4. GoodCache(cache)
  BY DEF Init, GoodCache, NoEntries
<1>5. GoodPosts(posts)
  BY DEF Init, GoodPosts
<1>6. GoodTasks
  BY DEF Init, GoodTasks, CallsWhole
<1> QED
  BY <1>1, <1>3, <1>4, <1>5, <1>6, Parts

LEMMA NextInd == IInv /\ [Next]_vars => IInv'
<1> SUFFICES ASSUME IInv, [Next]_vars PROVE IInv'
  OBVIOUS
<1>1. CASE UNCHANGED vars
  BY <1>1, Kept, Assembled DEF vars
<1>2. CASE Tick \/ Restart
  BY <1>2, TickStep, RestartStep
<1>3. CASE \E account \in Accounts : OthersPublish(account)
  BY <1>3, OthersPublishStep
<1>4. ASSUME NEW s \in Slots, Step(s) PROVE IInv'
  BY <1>4, StoreBioStep, CacheBioStep, StorePrivateStep, ReadPrivateStep, CacheBuiltStep, SubmitPostStep,
     CacheIncomingStep, ReadPublicStep, StorePublicStep, DecryptStep, ResetCacheStep DEF Step
<1>5. ASSUME NEW s \in Slots,
             SetBio(s) \/ SetSettings(s) \/ SubmitMetaPost(s) \/ EnsureMetaPost(s) \/ Reset(s)
      PROVE  IInv'
  BY <1>5, SetBioStep, SetSettingsStep, SubmitMetaPostStep, ResetStep DEF EnsureMetaPost
<1>6. ASSUME NEW s \in Slots, NEW i \in 1 .. MaxPosts, ReadCached(s, i) PROVE IInv'
  BY <1>6, ReadCachedStep
<1> QED
  BY <1>1, <1>2, <1>3, <1>4, <1>5, <1>6 DEF Next

\* The invariant holds of every behaviour.
THEOREM Inductive == Spec => []IInv
BY InitInd, NextInd, PTL DEF Spec

\* No profile is ever mixed from two or taken from another account, in the settings, in
\* the cache or in a meta post, whatever the calls of a device, its restarts and resets and
\* the other devices do, for any accounts, keys and number of calls at a time.
THEOREM ProfilesStayWhole == Spec => []MetaPostsInv
<1>1. IInv => MetaPostsInv
  BY DEF IInv, MetaPostsInv
<1> QED
  BY <1>1, Inductive, PTL
=============================================================================
