---------------------------- MODULE FeedbackServers ---------------------------
(***************************************************************************)
(* Feedback on the posts of one location: the post_bundle_feedback         *)
(* keyspace of the servers that store the location, the clients that       *)
(* collect, merge and heal it, and the servers' read caches.               *)
(*                                                                         *)
(* A handler looks at the bundle file first and writes feedback            *)
(* afterwards; decimation runs in a thread that takes no stripe lock, so   *)
(* its steps fall between the two.  Handlers of one server run one at a    *)
(* time.  The background tasks of a client send their heals and uploads    *)
(* whenever they get to it, or not at all.                                 *)
(*                                                                         *)
(* Of an entry only its proof of work is kept; 0 stands for no entry.  The *)
(* clocks of servers are not synchronised, so any bundle may be the newest *)
(* of those a client merges.                                               *)
(***************************************************************************)
EXTENDS Integers, Sequences, SequencesExt

CONSTANTS
    Server,
    Client,
    Post,
    FeedbackType,
    MaxPow,         \* bound of the model: the strongest proof of work
    Redundancy,     \* REDUNDANT_SERVERS_PER_POST
    MaxFetches,     \* bound of the model: walks of the clients
    MaxFaults,      \* bound of the model: decimations and restarts
    None

ASSUME FeedbackAssumption ==
    /\ MaxPow \in Nat /\ Redundancy \in Nat /\ MaxFetches \in Nat /\ MaxFaults \in Nat

Key == Post \X FeedbackType
Pow == 1 .. MaxPow
Body == [Key -> 0 .. MaxPow]
NoEntries == [k \in Key |-> 0]

VARIABLES
    posts,          \* posts[s]: ids in the header of the bundle file; a file has
                    \* at least one, so {} is no file
    known,          \* known[s]: there is a metadata row
    feedback,       \* feedback[s]: the post_bundle_feedback keyspace
    pending,        \* pending[s]: what the handler under way has yet to put
    deleting,       \* deleting[s]: post_bundles_delete under way
    cache,          \* cache[s]: the bundle in post_bundle_feedback_cache, or None
    walk,           \* walk[c]: the walk of get_post_bundle_feedback, or None
    heals,          \* HealPostBundleFeedbackV1s not yet sent
    uploads,        \* CachePostBundleFeedbackV1s not yet sent
    submitted,      \* history: every feedback a client ever submitted
    goal,           \* history: goal[s]: the merge that s was last healed to
    fetches, faults

stores == <<posts, known, feedback>>
clients == <<walk, heals, uploads>>
history == <<submitted, goal>>
vars == <<posts, known, feedback, pending, deleting, cache, walk, heals, uploads,
          submitted, goal, fetches, faults>>

\* An EncodedPostBundleFeedbackV1: who signed the header, the body its hash is
\* of, the body, and whether the body is in the order of the keyspace.
Bundle == [peer : Server, hash : Body, body : Body, sorted : BOOLEAN]

\* The servers a walk has asked, those that gave it a token, those whose answer no
\* longer tells what they store, and the bundles it has collected.
Walk == [visited : SUBSET Server, tokens : SUBSET Server, spoiled : SUBSET Server,
         bundles : Seq(Bundle)]

ASSUME NoneAssumption == None \notin Bundle /\ None \notin Walk

Message == [server : Server, body : Body]
Upload == [server : Server, bundle : Bundle]

Idle == [stage |-> "idle", keys |-> {}]
Deletion == {Idle} \cup [stage : {"files", "rows"}, keys : SUBSET Key]

TypeOK ==
    /\ posts \in [Server -> SUBSET Post]
    /\ known \in [Server -> BOOLEAN]
    /\ feedback \in [Server -> Body]
    /\ pending \in [Server -> Body]
    /\ deleting \in [Server -> Deletion]
    /\ cache \in [Server -> Bundle \cup {None}]
    /\ walk \in [Client -> Walk \cup {None}]
    /\ heals \subseteq Message
    /\ uploads \subseteq Upload
    /\ submitted \subseteq Key \X Pow
    /\ goal \in [Server -> Body]
    /\ fetches \in Nat /\ faults \in Nat

Init ==
    /\ posts = [s \in Server |-> {}]
    /\ known = [s \in Server |-> FALSE]
    /\ feedback = [s \in Server |-> NoEntries]
    /\ pending = [s \in Server |-> NoEntries]
    /\ deleting = [s \in Server |-> Idle]
    /\ cache = [s \in Server |-> None]
    /\ walk = [c \in Client |-> None]
    /\ heals = {} /\ uploads = {}
    /\ submitted = {}
    /\ goal = [s \in Server |-> NoEntries]
    /\ fetches = 0 /\ faults = 0

Fault == faults < MaxFaults /\ faults' = faults + 1

Ready(s) == pending[s] = NoEntries

-----------------------------------------------------------------------------
(***************************************************************************)
(* Servers.                                                                *)
(***************************************************************************)

\* A commit or a heal of the post bundle, as far as feedback can see it.
StorePost(s, p) ==
    /\ Ready(s)
    /\ p \notin posts[s]
    /\ posts' = [posts EXCEPT ![s] = posts[s] \cup {p}]
    /\ known' = [known EXCEPT ![s] = TRUE]
    /\ UNCHANGED <<feedback, pending, deleting, cache, clients, history, fetches, faults>>

\* SubmitPostFeedbackV1, up to the put: the file must hold the post.
SubmitPostFeedback(s, k, pow) ==
    /\ Ready(s)
    /\ submitted' = submitted \cup {<<k, pow>>}
    /\ pending' = [pending EXCEPT ![s][k] = IF k[1] \in posts[s] THEN pow ELSE 0]
    /\ UNCHANGED <<stores, deleting, cache, clients, goal, fetches, faults>>

\* Mutant: the entry is put whatever is there.
MorePowerfulAlways(s, k, pow) == pow

\* post_feedback_put_if_more_powerful.
MorePowerful(s, k, pow) == IF feedback[s][k] >= pow THEN feedback[s][k] ELSE pow

PutPostFeedback(s, k) ==
    /\ pending[s][k] # 0
    /\ feedback' = [feedback EXCEPT ![s][k] = MorePowerful(s, k, pending[s][k])]
    /\ pending' = [pending EXCEPT ![s][k] = 0]
    /\ UNCHANGED <<posts, known, deleting, cache, clients, history, fetches, faults>>

\* HealPostBundleFeedbackV1, up to the puts: entries of posts not held are skipped.
HealPostBundleFeedback(m) ==
    LET s == m.server
        accepted == [k \in Key |-> IF k[1] \in posts[s] THEN m.body[k] ELSE 0]
    IN  /\ Ready(s)
        /\ heals' = heals \ {m}
        /\ pending' = [pending EXCEPT ![s] = accepted]
        /\ goal' = [goal EXCEPT ![s] =
                [k \in Key |-> IF k[1] \in posts[s] \/ m.body[k] = 0 THEN @[k] ELSE 0]]
        /\ UNCHANGED <<stores, deleting, cache, walk, uploads, submitted, fetches, faults>>

\* EncodedPostBundleFeedbackV1::verify, of a bundle whose header is genuine and
\* whose proofs of work are: the header's hash is that of the body.
Verifies(b) == b.sorted /\ b.hash = b.body

\* CachePostBundleFeedbackV1: on_upload replaces what is cached.
CachePostBundleFeedback(u) ==
    /\ Ready(u.server)
    /\ uploads' = uploads \ {u}
    /\ cache' = [cache EXCEPT ![u.server] = IF Verifies(u.bundle) THEN u.bundle ELSE @]
    /\ UNCHANGED <<stores, pending, deleting, walk, heals, history, fetches, faults>>

\* The location's entry of the cache is evicted, or the bundle in it is stale.
CacheExpires(s) ==
    /\ cache[s] # None
    /\ cache' = [cache EXCEPT ![s] = None]
    /\ UNCHANGED <<stores, pending, deleting, clients, history, fetches, faults>>

\* post_bundles_delete collects the keys of the location's feedback ...
CollectFeedbackKeys(s) ==
    /\ Fault
    /\ deleting[s] = Idle
    /\ posts[s] # {} \/ known[s]
    /\ deleting' = [deleting EXCEPT ![s] =
            [stage |-> "files", keys |-> {k \in Key : feedback[s][k] # 0}]]
    /\ goal' = [goal EXCEPT ![s] = NoEntries]
    /\ walk' = [c \in Client |-> IF walk[c] = None THEN None
                                 ELSE [walk[c] EXCEPT !.spoiled = @ \cup {s}]]
    /\ UNCHANGED <<stores, pending, cache, heals, uploads, submitted, fetches>>

\* ... removes the bundle file ...
DeleteFile(s) ==
    /\ deleting[s].stage = "files"
    /\ posts' = [posts EXCEPT ![s] = {}]
    /\ deleting' = [deleting EXCEPT ![s].stage = "rows"]
    /\ UNCHANGED <<known, feedback, pending, cache, clients, history, fetches, faults>>

\* ... and commits the batch that removes the rows.
DeleteRows(s) ==
    /\ deleting[s].stage = "rows"
    /\ known' = [known EXCEPT ![s] = FALSE]
    /\ feedback' = [feedback EXCEPT ![s] =
            [k \in Key |-> IF k \in deleting[s].keys THEN 0 ELSE @[k]]]
    /\ deleting' = [deleting EXCEPT ![s] = Idle]
    /\ UNCHANGED <<posts, pending, cache, clients, history, fetches, faults>>

\* A crash loses the handler and the decimation under way and the cache.
Restart(s) ==
    /\ Fault
    /\ ~Ready(s) \/ deleting[s] # Idle \/ cache[s] # None
    /\ pending' = [pending EXCEPT ![s] = NoEntries]
    /\ deleting' = [deleting EXCEPT ![s] = Idle]
    /\ cache' = [cache EXCEPT ![s] = None]
    /\ goal' = [goal EXCEPT ![s] = NoEntries]
    /\ UNCHANGED <<stores, clients, submitted, fetches>>

-----------------------------------------------------------------------------
(***************************************************************************)
(* Clients.                                                                *)
(***************************************************************************)

\* get_post_bundle_feedback, when what the client has stored is too old.
StartWalk(c) ==
    /\ walk[c] = None
    /\ fetches < MaxFetches
    /\ fetches' = fetches + 1
    /\ walk' = [walk EXCEPT ![c] = [visited |-> {}, tokens |-> {}, spoiled |-> {},
                                    bundles |-> << >>]]
    /\ UNCHANGED <<stores, pending, deleting, cache, heals, uploads, history, faults>>

Retrieved(w) == {b.peer : b \in ToSet(w.bundles)}

\* What GetPostBundleFeedbackV1 wraps up, if the server knows the location ...
OwnBundle(s) ==
    IF ~known[s] THEN << >>
    ELSE << [peer |-> s, hash |-> feedback[s], body |-> feedback[s], sorted |-> TRUE] >>

\* ... and what on_get of its cache adds, unless the client has it.
CachedItems(s, retrieved) ==
    IF cache[s] = None \/ cache[s].peer \in retrieved THEN << >> ELSE << cache[s] >>

\* The walk asks one more peer: cached bundles first, then the peer's own.  Whether
\* a token comes along is up to the hit count of the cache.
GetPostBundleFeedback(c, s) ==
    LET w == walk[c]
    IN  /\ w # None
        /\ Ready(s)
        /\ s \notin w.visited \cup Retrieved(w)
        /\ Len(w.bundles) < Redundancy
        /\ \E token \in BOOLEAN :
              walk' = [walk EXCEPT ![c] =
                  [w EXCEPT !.visited = @ \cup {s},
                            !.tokens = IF token THEN @ \cup {s} ELSE @,
                            !.spoiled = IF deleting[s] = Idle /\ known[s] THEN @ ELSE @ \cup {s},
                            !.bundles = @ \o CachedItems(s, Retrieved(w)) \o OwnBundle(s)]]
        /\ UNCHANGED <<stores, pending, deleting, cache, heals, uploads, history,
                       fetches, faults>>

\* Mutant: the proofs of work of the bundles are added up.
MergedPowSum(bundles, k) == MapThenSumSet(LAMBDA b : b.body[k], bundles)

\* EncodedPostBundleFeedbackV1::merge: the strongest entry of every key under the
\* header of the newest bundle, in the order of a HashMap.
MergedPow(bundles, k) ==
    CHOOSE pow \in {b.body[k] : b \in bundles} : \A b \in bundles : b.body[k] <= pow

MergedBody(bundles) == [k \in Key |-> MergedPow(bundles, k)]

IsMerge(merged, bundles) ==
    /\ \E newest \in bundles :
          merged.peer = newest.peer /\ merged.hash = newest.hash
    /\ merged.body = MergedBody(bundles)
    /\ \/ \E k, l \in Key : k # l /\ merged.body[k] # 0 /\ merged.body[l] # 0
       \/ merged.sorted

Merges(bundles) ==
    {b \in [peer : {b.peer : b \in bundles}, hash : {b.hash : b \in bundles},
            body : {MergedBody(bundles)}, sorted : BOOLEAN] : IsMerge(b, bundles)}

\* Mutant: only entries that the peer lacks altogether are sent.
WeakerAtMissing(b, merged, k) == b.body[k] = 0 /\ merged[k] > 0

WeakerAt(b, merged, k) == merged[k] > b.body[k]

\* heal_post_bundle_feedbacks: what each visited peer lacks or has weaker.
HealWork(w, merged) ==
    {[server |-> b.peer,
      body |-> [k \in Key |-> IF WeakerAt(b, merged, k) THEN merged[k] ELSE 0]] :
        b \in {b \in ToSet(w.bundles) :
                  /\ Len(w.bundles) >= 2
                  /\ b.peer \in w.visited
                  /\ \E k \in Key : WeakerAt(b, merged, k)}}

\* The peers run out or enough bundles are found; merge, heal and upload.
EndWalk(c) ==
    LET w == walk[c]
        bundles == ToSet(w.bundles)
    IN  /\ w # None
        /\ walk' = [walk EXCEPT ![c] = None]
        /\ \/ /\ bundles = {}
              /\ UNCHANGED <<heals, uploads, goal>>
           \/ \E merged \in Merges(bundles) :
              /\ heals' = heals \cup HealWork(w, merged.body)
              /\ uploads' = uploads \cup {[server |-> s, bundle |-> merged] : s \in w.tokens}
              /\ goal' = [s \in Server |->
                    IF s \in (w.visited \cap Retrieved(w)) \ w.spoiled
                    THEN merged.body ELSE goal[s]]
        /\ UNCHANGED <<stores, pending, deleting, cache, submitted, fetches, faults>>

\* A request of a background task fails and is not repeated.
HealLost(m) ==
    /\ heals' = heals \ {m}
    /\ goal' = [goal EXCEPT ![m.server] = NoEntries]
    /\ UNCHANGED <<stores, pending, deleting, cache, walk, uploads, submitted, fetches, faults>>

UploadLost(u) ==
    /\ uploads' = uploads \ {u}
    /\ UNCHANGED <<stores, pending, deleting, cache, walk, heals, history, fetches, faults>>

Next ==
    \/ \E s \in Server, p \in Post : StorePost(s, p)
    \/ \E s \in Server, k \in Key, pow \in Pow : SubmitPostFeedback(s, k, pow)
    \/ \E s \in Server, k \in Key : PutPostFeedback(s, k)
    \/ \E m \in heals : HealPostBundleFeedback(m)
    \/ \E u \in uploads : CachePostBundleFeedback(u)
    \/ \E s \in Server : CacheExpires(s)
    \/ \E s \in Server : CollectFeedbackKeys(s)
    \/ \E s \in Server : DeleteFile(s)
    \/ \E s \in Server : DeleteRows(s)
    \/ \E s \in Server : Restart(s)
    \/ \E c \in Client : StartWalk(c)
    \/ \E c \in Client, s \in Server : GetPostBundleFeedback(c, s)
    \/ \E c \in Client : EndWalk(c)
    \/ \E m \in heals : HealLost(m)
    \/ \E u \in uploads : UploadLost(u)

Spec == Init /\ [][Next]_vars

-----------------------------------------------------------------------------
(***************************************************************************)
(* Properties.                                                             *)
(***************************************************************************)

Entries(body) == {<<k, body[k]>> : k \in {k \in Key : body[k] # 0}}

\* Every feedback bundle that is cached, collected by a walk or about to be uploaded.
Bundles ==
    ({cache[s] : s \in Server} \ {None})
    \cup (UNION {ToSet(walk[c].bundles) : c \in {c \in Client : walk[c] # None}})
    \cup {u.bundle : u \in uploads}

\* No merge, heal, cache or crash makes up feedback: every entry that is stored,
\* cached, on its way to a server or in the hands of a client was submitted by
\* some client, for that post and type and with that proof of work.
OnlySubmitted ==
    /\ \A s \in Server : Entries(feedback[s]) \cup Entries(pending[s]) \subseteq submitted
    /\ \A b \in Bundles : Entries(b.body) \subseteq submitted
    /\ \A m \in heals : Entries(m.body) \subseteq submitted

\* Once the heals of heal_post_bundle_feedbacks have arrived, a visited server has,
\* for every post it held then, feedback at least as strong as the merge that the
\* client made, however old the heal was and whatever was submitted meanwhile.
\* Decimation, a restart and a lost request void the claim for their server.
HealsReachMerge ==
    \A s \in Server :
        Ready(s) /\ (\A m \in heals : m.server # s) =>
            \A k \in Key : k[1] \in posts[s] => feedback[s][k] >= goal[s][k]

\* The servers implement a replicated set of strongest proofs.
Replicated == INSTANCE ReplicatedFeedback WITH strongest <- feedback

ReplicatedFeedbackSpec == Replicated!Spec

\* Feedback is never made up: what servers, caches, walks, merges and heals hold was
\* submitted by somebody with that proof of work.
FeedbackInv == TypeOK /\ OnlySubmitted
=============================================================================
