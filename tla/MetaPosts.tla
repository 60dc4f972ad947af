------------------------------ MODULE MetaPosts ------------------------------
(***************************************************************************)
(* The profile and the settings of accounts that live on several devices.  *)
(* Every field carries the time of its last write; a device publishes its  *)
(* whole document as a meta post, and merges the meta posts of its own     *)
(* account that it meets, field by field, the later write winning.         *)
(*                                                                         *)
(* Every operation of MetaPostManager reads the storage and writes it back *)
(* with awaits in between, and nothing orders two operations of a device:  *)
(* each is a task whose steps interleave with those of the other tasks.  A *)
(* restart drops the tasks where they are.                                 *)
(***************************************************************************)
EXTENDS ClientStorage, Integers, Sequences, FiniteSetsExt

CONSTANTS
    Accounts,
    Me,             \* the account of this device, by its key locker
    Slots,          \* bound of the model: 1 .. the number of calls in progress
    ClientIds, Hashtags, FeedbackTypes,     \* the keys of the collections of settings
    Values,         \* thresholds
    TombstoneMaxAge,\* TOMBSTONE_MAX_AGE
    CacheTrim,      \* the entry of BUCKET_TRIMS for BUCKET_META_POST_PUBLIC
    Month,          \* the widest duration of a User bucket
    MaxTime,        \* bound of the model
    MaxEdits,       \* bound of the model: edits on this device and on others
    MaxPosts,       \* bound of the model: meta posts published
    MaxFaults       \* bound of the model: restarts, resets and failures

Fields == {"nickname", "status", "selfie", "avatar"}
Followed == {"followed_client_ids", "followed_hashtags"}
Collections == Followed \cup {"content_thresholds"}

ASSUME MetaPostsAssumption ==
    /\ None \notin Values
    /\ Slots = 1 .. Cardinality(Slots)
    /\ {TombstoneMaxAge, CacheTrim, Month, MaxTime, MaxEdits, MaxPosts, MaxFaults} \subseteq Nat
    /\ Month > 0 /\ MaxTime > 0 /\ Me \in Accounts

VARIABLES
    now,
    config,     \* BUCKET_CONFIG, the sections "public" and "private"
    cache,      \* BUCKET_META_POST_PUBLIC
    task,       \* task[s]: the call in slot s, or None
    posts,      \* the meta posts that the servers store, in the order they came
    edits, faults

vars == <<now, config, cache, task, posts, edits, faults>>

-------------------------------------------------------------------------------
(* Fields, sections and their merge.                                       *)

VersionedField(value, timestamp) == [value |-> value, timestamp |-> timestamp]
Tombstone(timestamp) == VersionedField(None, timestamp)
IsTombstone(field) == field.value = None

EmptyPublic == [f \in Fields |-> Tombstone(0)]
FromBio(timestamp, bio) == [f \in Fields |-> VersionedField(<<bio, f>>, timestamp)]
MaxTimestamp(public) == Max({public[f].timestamp : f \in Fields})

EmptyPrivate == [collections |-> [c \in Collections |-> NoEntries], skip |-> Tombstone(0)]

MergeScalarField(local, incoming) == IF incoming.timestamp > local.timestamp THEN incoming ELSE local

\* A merge that prefers an incoming field of the same time, for one field only.
MergePublicUneven(local, incoming) ==
    [f \in Fields |->
        IF f = "avatar" /\ incoming[f].timestamp >= local[f].timestamp THEN incoming[f]
        ELSE MergeScalarField(local[f], incoming[f])]

MergePublic(local, incoming) == [f \in Fields |-> MergeScalarField(local[f], incoming[f])]

MergeCollection(local, incoming, time) ==
    LET merged == [k \in DOMAIN local \cup DOMAIN incoming |->
                      IF k \notin DOMAIN local THEN incoming[k]
                      ELSE IF k \notin DOMAIN incoming THEN local[k]
                      ELSE MergeScalarField(local[k], incoming[k])]
        kept == {k \in DOMAIN merged :
                    ~(IsTombstone(merged[k]) /\ merged[k].timestamp < time - TombstoneMaxAge)}
    IN  Restrict(merged, kept)

MergePrivate(local, incoming, time) ==
    [collections |-> [c \in Collections |-> MergeCollection(local.collections[c], incoming.collections[c], time)],
     skip |-> MergeScalarField(local.skip, incoming.skip)]

\* What was followed and is not among the chosen gets a tombstone.
FollowAll(private, c, chosen, time) ==
    LET old == private.collections[c]
    IN  [private EXCEPT !.collections[c] =
            [k \in DOMAIN old \cup chosen |->
                IF k \in chosen THEN VersionedField(TRUE, time)
                ELSE IF old[k].value = TRUE THEN Tombstone(time)
                ELSE old[k]]]

\* Unfollows by a value instead of a tombstone.
FollowOneByValue(private, c, k, is_followed, time) ==
    [private EXCEPT !.collections[c] = With(@, k, VersionedField(is_followed, time))]

FollowOne(private, c, k, is_followed, time) ==
    [private EXCEPT !.collections[c] =
        With(@, k, IF is_followed THEN VersionedField(TRUE, time) ELSE Tombstone(time))]

SetFollowedClientIds(private, ids, time) == FollowAll(private, "followed_client_ids", ids, time)
SetFollowedClientId(private, id, b, time) == FollowOne(private, "followed_client_ids", id, b, time)
SetFollowedHashtags(private, tags, time) == FollowAll(private, "followed_hashtags", tags, time)
SetFollowedHashtag(private, tag, b, time) == FollowOne(private, "followed_hashtags", tag, b, time)

\* set_content_thresholds, and set_content_threshold with one of them
SetContentThresholds(private, thresholds, time) ==
    LET old == private.collections["content_thresholds"]
    IN  [private EXCEPT !.collections["content_thresholds"] =
            [k \in DOMAIN old \cup DOMAIN thresholds |->
                IF k \in DOMAIN thresholds THEN VersionedField(thresholds[k], time) ELSE old[k]]]

SetSkipWarnings(private, value, time) == [private EXCEPT !.skip = VersionedField(value, time)]

\* What the settings of `private` are at `time` after one of the calls that change them.
Edited(private, time) ==
    {SetFollowedClientIds(private, K, time) : K \in SUBSET ClientIds}
    \cup {SetFollowedClientId(private, k, b, time) : k \in ClientIds, b \in BOOLEAN}
    \cup {SetFollowedHashtags(private, K, time) : K \in SUBSET Hashtags}
    \cup {SetFollowedHashtag(private, k, b, time) : k \in Hashtags, b \in BOOLEAN}
    \cup {SetContentThresholds(private, [k \in K |-> v], time) : K \in (SUBSET FeedbackTypes) \ {{}}, v \in Values}
    \cup {SetSkipWarnings(private, b, time) : b \in BOOLEAN}

-------------------------------------------------------------------------------
(* The storage of a device and the calls in progress on it.                *)

GetPublic == LET public == Get(config, "public") IN IF public = None THEN EmptyPublic ELSE public
PutPublic(public) == config' = Put(config, "public", public, 0)
GetPrivate == LET private == Get(config, "private") IN IF private = None THEN EmptyPrivate ELSE private
PutPrivate(private) == config' = Put(config, "private", private, 0)
CachePublic(account, public, time) == cache' = Put(cache, account, public, time)

\* A call takes the first free slot.
Free(s) == task[s] = None /\ \A r \in Slots : r < s => task[r] # None
At(s, step) == task[s] # None /\ task[s].at = step
Goto(s, t) == task' = [task EXCEPT ![s] = IF t.at = "end" THEN None ELSE t]
Start(s, t) == Free(s) /\ Goto(s, t)
Done(s) == task' = [task EXCEPT ![s] = None]

Init ==
    /\ now = 1
    /\ config = NoEntries
    /\ cache = NoEntries
    /\ task = [s \in Slots |-> None]
    /\ posts = <<>>
    /\ edits = 0
    /\ faults = 0

-------------------------------------------------------------------------------
(* set_bio: read and merge, store, and cache as if it had come back from   *)
(* the network.                                                            *)

\* Each call brings a profile of its own.
SetBio(s) ==
    /\ edits < MaxEdits
    /\ Start(s, [at |-> "store_bio", time |-> now,
                    public |-> MergePublic(GetPublic, FromBio(now, <<Me, edits>>))])
    /\ edits' = edits + 1
    /\ UNCHANGED <<now, config, cache, posts, faults>>

StoreBio(s) ==
    /\ At(s, "store_bio")
    /\ PutPublic(task[s].public)
    /\ Goto(s, [task[s] EXCEPT !.at = "cache_bio"])
    /\ UNCHANGED <<now, cache, posts, edits, faults>>

CacheBio(s) ==
    /\ At(s, "cache_bio")
    /\ CachePublic(Me, task[s].public, task[s].time)
    /\ Done(s)
    /\ UNCHANGED <<now, config, posts, edits, faults>>

-------------------------------------------------------------------------------
(* The calls that change the settings: read and change, store.             *)

SetSettings(s) ==
    /\ edits < MaxEdits 
    /\ \E private \in Edited(GetPrivate, now) : Start(s, [at |-> "store_private", private |-> private])
    /\ edits' = edits + 1
    /\ UNCHANGED <<now, config, cache, posts, faults>>

StorePrivate(s) ==
    /\ At(s, "store_private")
    /\ PutPrivate(task[s].private)
    /\ Done(s)
    /\ UNCHANGED <<now, cache, posts, edits, faults>>

-------------------------------------------------------------------------------
(* submit_meta_post, on request or because the month has none yet: read    *)
(* the two sections, cache the public one, post.                           *)

Publishing == {s \in Slots : \E at \in {"read_private", "cache_public", "submit"} : At(s, at)}

SubmitMetaPost(s) ==
    /\ Len(posts) + Cardinality(Publishing) < MaxPosts
    /\ Start(s, [at |-> "read_private", public |-> GetPublic])
    /\ UNCHANGED <<now, config, cache, posts, edits, faults>>

\* The bundle of the month shows no meta post of this account, and has not overflowed.
ShouldAutoPublish ==
    ~\E i \in DOMAIN posts : posts[i].account = Me /\ posts[i].time \div Month = now \div Month

EnsureMetaPost(s) == ShouldAutoPublish /\ SubmitMetaPost(s)

ReadPrivate(s) ==
    /\ At(s, "read_private")
    /\ Goto(s, [at |-> "cache_public", public |-> task[s].public, private |-> GetPrivate])
    /\ UNCHANGED <<now, config, cache, posts, edits, faults>>

CacheBuilt(s) ==
    /\ At(s, "cache_public")
    /\ CachePublic(Me, task[s].public, now)
    /\ Goto(s, [task[s] EXCEPT !.at = "submit"])
    /\ UNCHANGED <<now, config, posts, edits, faults>>

SubmitPost(s) ==
    /\ At(s, "submit")
    /\ \/ /\ posts' = Append(posts, [account |-> Me, time |-> now, public |-> task[s].public,
                                     private |-> task[s].private])
          /\ UNCHANGED faults
       \/ posts' = posts /\ faults < MaxFaults /\ faults' = faults + 1
    /\ Done(s)
    /\ UNCHANGED <<now, config, cache, edits>>

-------------------------------------------------------------------------------
(* process_incoming_meta_post, for a meta post met in a timeline: cache    *)
(* its public section if it is newer than the cached one; if it is our     *)
(* own, merge both sections whether or not it was.                         *)

IsOwn(i) == posts[i].account = Me

\* Merges only what the cache had not seen yet.
AfterCacheEarly(i, newer) == IF newer /\ IsOwn(i) THEN "read_public" ELSE "end"

AfterCache(i, newer) == IF IsOwn(i) THEN "read_public" ELSE "end"

ReadCached(s, i) ==
    /\ i \in DOMAIN posts
    /\ LET account == posts[i].account
           existing == Get(cache, account)
           newer == existing = None \/ MaxTimestamp(posts[i].public) > MaxTimestamp(existing)
       IN  /\ cache' = Touch(cache, account, now)
           /\ Start(s, [at |-> IF newer THEN "cache_incoming" ELSE AfterCache(i, newer),
                          post |-> i, time |-> now])
    /\ UNCHANGED <<now, config, posts, edits, faults>>

CacheIncoming(s) ==
    /\ At(s, "cache_incoming")
    /\ LET i == task[s].post
       IN  /\ CachePublic(posts[i].account, posts[i].public, task[s].time)
           /\ Goto(s, [task[s] EXCEPT !.at = AfterCache(i, TRUE)])
    /\ UNCHANGED <<now, config, posts, edits, faults>>

ReadPublic(s) ==
    /\ At(s, "read_public")
    /\ LET t == task[s]
       IN  Goto(s, [at |-> "store_public", post |-> t.post, time |-> t.time,
                       public |-> MergePublic(GetPublic, posts[t.post].public)])
    /\ UNCHANGED <<now, config, cache, posts, edits, faults>>

StorePublic(s) ==
    /\ At(s, "store_public")
    /\ LET t == task[s]
       IN  /\ PutPublic(t.public)
           /\ Goto(s, [at |-> "decrypt", post |-> t.post, time |-> t.time])
    /\ UNCHANGED <<now, cache, posts, edits, faults>>

\* A private section that cannot be decrypted is left alone.
Decrypt(s) ==
    /\ At(s, "decrypt")
    /\ LET t == task[s]
       IN  \/ /\ Goto(s, [at |-> "store_private",
                             private |-> MergePrivate(GetPrivate, posts[t.post].private, t.time)])
              /\ UNCHANGED faults
           \/ Done(s) /\ faults < MaxFaults /\ faults' = faults + 1
    /\ UNCHANGED <<now, config, cache, posts, edits>>

-------------------------------------------------------------------------------
(* The application is closed and started again, the storage is reset (one  *)
(* bucket after the other, the settings first), time passes.               *)

Restart ==
    /\ faults < MaxFaults /\ faults' = faults + 1
    /\ task' = [s \in Slots |-> None]
    /\ cache' \in Trim(cache, CacheTrim)
    /\ UNCHANGED <<now, config, posts, edits>>

Reset(s) ==
    /\ faults < MaxFaults /\ faults' = faults + 1
    /\ Start(s, [at |-> "reset"])
    /\ config' = NoEntries
    /\ UNCHANGED <<now, cache, posts, edits>>

ResetCache(s) ==
    /\ At(s, "reset")
    /\ cache' = NoEntries
    /\ Done(s)
    /\ UNCHANGED <<now, config, posts, edits, faults>>

\* Another device of the account, or somebody else, publishes: a profile and settings of
\* its own, or what it has learnt from earlier meta posts of that account.
OthersPublish(account) ==
    /\ edits < MaxEdits /\ edits' = edits + 1
    /\ Len(posts) + Cardinality(Publishing) < MaxPosts
    /\ LET known == {posts[i] : i \in {j \in DOMAIN posts : posts[j].account = account}}
       IN  \E public \in {FromBio(now, <<account, edits>>)} \cup {p.public : p \in known},
              private \in Edited(EmptyPrivate, now) \cup {p.private : p \in known} :
            posts' = Append(posts, [account |-> account, time |-> now, public |-> public, private |-> private])
    /\ UNCHANGED <<now, config, cache, task, faults>>

Tick ==
    /\ now < MaxTime /\ now' = now + 1
    /\ UNCHANGED <<config, cache, task, posts, edits, faults>>

Step(s) ==
    \/ StoreBio(s) \/ CacheBio(s)
    \/ StorePrivate(s)
    \/ ReadPrivate(s) \/ CacheBuilt(s) \/ SubmitPost(s)
    \/ CacheIncoming(s) \/ ReadPublic(s) \/ StorePublic(s) \/ Decrypt(s)
    \/ ResetCache(s)

Next ==
    \/ Tick
    \/ Restart
    \/ \E account \in Accounts : OthersPublish(account)
    \/ \E s \in Slots :
        \/ Step(s)
        \/ SetBio(s)
        \/ SetSettings(s)
        \/ SubmitMetaPost(s)
        \/ EnsureMetaPost(s)
        \/ \E i \in 1 .. MaxPosts : ReadCached(s, i)
        \/ Reset(s)

\* A call that was started goes on; a meta post on the servers keeps turning up in the
\* timelines of those who read on.
Fairness ==
    /\ \A s \in Slots : WF_vars(Step(s))
    /\ \A i \in 1 .. MaxPosts : SF_vars(\E s \in Slots : ReadCached(s, i))

Spec == Init /\ [][Next]_vars /\ Fairness

-------------------------------------------------------------------------------
(* Properties.                                                             *)

Timestamp == 0 .. MaxTime
Field(S) == [value : S \cup {None}, timestamp : Timestamp]
Public == [Fields -> Field((Accounts \X (0 .. MaxEdits)) \X Fields)]

\* A collection: some of its keys, each with a field.
Entries(c) ==
    LET Keys == [followed_client_ids |-> ClientIds, followed_hashtags |-> Hashtags,
                 content_thresholds |-> FeedbackTypes]
    IN  UNION {[K -> Field(IF c \in Followed THEN {TRUE} ELSE Values)] : K \in SUBSET Keys[c]}

Private ==
    {p \in [collections : [Collections -> UNION {Entries(c) : c \in Collections}], skip : Field(BOOLEAN)] :
        \A c \in Collections : p.collections[c] \in Entries(c)}

MetaPost == [account : Accounts, time : Timestamp, public : Public, private : Private]

\* What a call in progress carries, by the step it is at.
Task ==
    [at : {"store_bio", "cache_bio"}, time : Timestamp, public : Public]
    \cup [at : {"store_private"}, private : Private]
    \cup [at : {"read_private"}, public : Public]
    \cup [at : {"cache_public", "submit"}, public : Public, private : Private]
    \cup [at : {"cache_incoming", "read_public", "decrypt"}, post : Nat, time : Timestamp]
    \cup [at : {"store_public"}, post : Nat, time : Timestamp, public : Public]
    \cup [at : {"reset"}]

\* Every section in a bucket, in a call and in a meta post is well formed, and the buckets
\* hold nothing else.
TypeOK ==
    /\ now \in 1 .. MaxTime /\ edits \in 0 .. MaxEdits /\ faults \in 0 .. MaxFaults
    /\ DOMAIN config \subseteq {"public", "private"}
    /\ GetPublic \in Public /\ GetPrivate \in Private
    /\ \A a \in DOMAIN cache : a \in Accounts /\ cache[a] \in [value : Public, last_accessed : Timestamp]
    /\ task \in [Slots -> Task \cup {None}]
    /\ posts \in Seq(MetaPost)

\* A public section that one call of set_bio on a device of the account wrote, or none did.
Whole(account, public) ==
    public = EmptyPublic \/ \E e \in 0 .. MaxEdits, t \in Timestamp : public = FromBio(t, <<account, e>>)

\* A profile is never mixed out of two and never taken from another account: the sections
\* in the settings, in the caches and in the meta posts are what one call of set_bio on a
\* device of that account wrote, whatever was merged in which order (meta_post.rs,
\* merge_public; meta_post_manager.rs, process_incoming_meta_post).
WholeBio ==
    /\ Whole(Me, GetPublic)
    /\ \A a \in DOMAIN cache : Whole(a, cache[a].value)
    /\ \A i \in DOMAIN posts : Whole(posts[i].account, posts[i].public)

\* What one device publishes reaches the settings of the other devices of the account that
\* read on, although calls overwrite each other's work and applications are closed between
\* caching a meta post and merging it.
PublishedReaches ==
    \A i \in 1 .. MaxPosts :
        (i \in DOMAIN posts /\ IsOwn(i)) ~>
            /\ i \in DOMAIN posts
            /\ \A f \in Fields : GetPublic[f].timestamp >= posts[i].public[f].timestamp
            /\ \A c \in Collections : \A k \in DOMAIN posts[i].private.collections[c] :
                LET field == posts[i].private.collections[c][k]
                IN  \/ IsTombstone(field)
                    \/ /\ k \in DOMAIN GetPrivate.collections[c]
                       /\ GetPrivate.collections[c][k].timestamp >= field.timestamp

\* No profile is ever mixed from two: neither the settings, nor the cache, nor a meta post
\* that is under way.
MetaPostsInv == TypeOK /\ WholeBio
===============================================================================
