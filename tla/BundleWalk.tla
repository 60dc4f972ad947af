------------------------------ MODULE BundleWalk ------------------------------
(***************************************************************************)
(* How a client fetches the bundle of one location: concurrent callers of  *)
(* get_post_bundle, the table of in-flight locks, the walk along the peers *)
(* of the tracker, the stored bundle, the radius learnt by earlier walks,  *)
(* and the heals that a walk starts (BundleServers has what they do).      *)
(*                                                                         *)
(* A walk holds the tracker's write lock from its first peer to its flush, *)
(* so at most one runs at a time and one answer is one step.  Before and   *)
(* after it the callers interleave at every await.  The servers answer as  *)
(* they like: they fail, name other peers, send their own bundle and what  *)
(* they have cached of the others'.                                        *)
(***************************************************************************)
EXTENDS Integers, FiniteSets, FiniteSetsExt

CONSTANTS
    Caller,         \* tasks of the client that want the bundle
    Peer,
    Agreement,      \* Agreement[p]: leading_agreement_bits_xor of p and the location
    Post,
    SealAt,         \* posts at which a bundle is sealed
    Redundant,      \* REDUNDANT_SERVERS_PER_POST
    MaxSince,       \* max_iterations_since_high_watermark, 2 * Redundant in the code
    CacheDuration,  \* CLIENT_POST_BUNDLE_CACHE_DURATION
    RadiusTTL,      \* ttl of the CacheRadiusTracker, 5 * CacheDuration
    MaxRadius,      \* 256
    World,          \* the instances: callers, servers, those that
                    \* bootstrapping tells of, and how long they go on
    MaxTime,        \* bound of the model
    MaxFaults,      \* bound of the model: failed writes and restarts
    None

ASSUME WalkAssumption ==
    /\ Agreement \in [Peer -> 0 .. MaxRadius - 1]
    /\ {SealAt, Redundant, MaxSince, CacheDuration, RadiusTTL} \subseteq Nat \ {0}
    /\ {MaxRadius, MaxTime, MaxFaults} \subseteq Nat
    /\ IsFiniteSet(Caller)
    /\ World \subseteq [callers : SUBSET Caller, servers : SUBSET Peer,
                         seeds : SUBSET Peer, until : 0 .. MaxTime]

VARIABLES
    world,      \* never changes
    now,
    peers,      \* PeerTracker.peers
    needFlush,  \* PeerTracker.peers_need_flush
    saved,      \* the peers in the client's storage
    cached,     \* the bundle in the client's storage, or None
    radius,     \* entry of the CacheRadiusTracker, or None
    inflight,   \* post_bundle_inflight: a lock, or None
    call,       \* call[c]: where caller c is, its lock and its time_millis
    walk,       \* the walk in progress, or None
    missed,     \* history: a caller has returned and left no fresh bundle
    faults

tracker == <<peers, needFlush, saved>>
vars == <<world, now, peers, needFlush, saved, cached, radius, inflight, call, walk, missed, faults>>

Bundle == [peer : Peer, ids : SUBSET Post, at : 0 .. MaxTime]
Stored == [ids : SUBSET Post, at : 0 .. MaxTime]
Lock == 1 .. Cardinality(Caller) + 1
Call == [pc : {"idle", "locking", "waiting", "postflight", "tracker", "walking",
               "storing"},
         lock : Lock \cup {None}, time : 0 .. MaxTime,
         best : Stored \cup {None}]
Walk == [by : Caller, queried : SUBSET Peer, high : Nat, since : 0 .. MaxSince + 1,
         radius : 0 .. MaxRadius \cup {None}, gated : BOOLEAN, visited : SUBSET Peer,
         failed : SUBSET Peer,      \* history
         bundles : SUBSET Bundle, positive : SUBSET Peer,
         state : {"walking", "enough", "gaveup"}]
Radius == [r : 0 .. MaxRadius, at : 0 .. MaxTime]

ASSUME NoneAssumption ==
    /\ None \notin Lock /\ None \notin 0 .. MaxRadius
    /\ None \notin Stored /\ None \notin Radius /\ None \notin Walk

TypeOK ==
    /\ world \in World
    /\ now \in 0 .. MaxTime
    /\ peers \subseteq Peer
    /\ needFlush \in BOOLEAN
    /\ saved \subseteq Peer
    /\ cached = None \/ cached \in Stored
    /\ radius = None \/ radius \in Radius
    /\ inflight \in Lock \cup {None}
    /\ call \in [Caller -> Call]
    /\ walk = None \/ walk \in Walk
    /\ missed \in BOOLEAN
    /\ faults \in 0 .. MaxFaults

Idle == [pc |-> "idle", lock |-> None, time |-> 0, best |-> None]

Init ==
    /\ world \in World
    /\ now = 0
    /\ peers = {}
    /\ needFlush = FALSE
    /\ saved = {}
    /\ cached = None
    /\ radius = None
    /\ inflight = None
    /\ call = [c \in Caller |-> Idle]
    /\ walk = None
    /\ missed = FALSE
    /\ faults = 0

Fault == faults < MaxFaults /\ faults' = faults + 1

Sealed(b) == Cardinality(b.ids) >= SealAt

\* get_from_cache: a sealed bundle is good for ever, another one for CacheDuration
\* from the time its server stamped on it.
FromCache(t) == cached # None /\ (Sealed(cached) \/ t - cached.at < CacheDuration)

-----------------------------------------------------------------------------
(***************************************************************************)
(* A caller until it holds the lock of the location.                       *)
(***************************************************************************)
At(c, pc) == call[c].pc = pc

Goto(c, pc) == call' = [call EXCEPT ![c].pc = pc]

\* A call that finds the bundle in the storage returns at once and changes nothing.
GetPostBundle(c) ==
    /\ At(c, "idle")
    /\ \/ FromCache(now) /\ UNCHANGED call
       \/ ~FromCache(now) /\ call' = [call EXCEPT ![c].pc = "locking", ![c].time = now]
    /\ UNCHANGED <<world, now, tracker, cached, radius, inflight, walk, missed, faults>>

Unused == Lock \ ({inflight} \cup {call[c].lock : c \in Caller})

\* Mutant: every caller puts a lock of its own into the table.
KeyLockOwn(c) == Min(Unused)

KeyLock(c) == IF inflight = None THEN Min(Unused) ELSE inflight

GetLock(c) ==
    /\ At(c, "locking")
    /\ inflight' = KeyLock(c)
    /\ call' = [call EXCEPT ![c].pc = "waiting", ![c].lock = KeyLock(c)]
    /\ UNCHANGED <<world, now, tracker, cached, radius, walk, missed, faults>>

Holding(c) == call[c].pc \in {"postflight", "tracker", "walking", "storing"}

Acquire(c) ==
    /\ At(c, "waiting")
    /\ \A d \in Caller : Holding(d) => call[d].lock # call[c].lock
    /\ Goto(c, "postflight")
    /\ UNCHANGED <<world, now, tracker, cached, radius, inflight, walk, missed, faults>>

\* The caller returns: the deferred closure takes whatever lock is in the table out
\* of it, or leaves it when another task has the table at that moment.
Return(c) ==
    /\ call' = [call EXCEPT ![c] = Idle]
    /\ inflight' \in {None, inflight}
    /\ missed' = (missed \/ cached' = None \/ ~(Sealed(cached') \/ now - cached'.at < CacheDuration))

\* Mutant: the storage is not looked at again.
FromCacheNever(c) == FALSE

FromCacheNow(c) == FromCache(call[c].time)

Postflight(c) ==
    /\ At(c, "postflight")
    /\ \/ FromCacheNow(c) /\ UNCHANGED cached /\ Return(c)
       \/ ~FromCacheNow(c) /\ Goto(c, "tracker") /\ UNCHANGED <<cached, inflight, missed>>
    /\ UNCHANGED <<world, now, tracker, radius, walk, faults>>

-----------------------------------------------------------------------------
(***************************************************************************)
(* The walk.                                                               *)
(***************************************************************************)
\* CacheRadiusTracker::get
KnownRadius(t) ==
    IF radius # None /\ t - radius.at < RadiusTTL THEN radius.r ELSE None

\* A tracker without peers asks the bootstrap addresses until one names peers, or
\* none of them does.
Bootstrapped == IF peers = {} THEN SUBSET world.seeds ELSE {peers}

StartWalk(c) ==
    /\ At(c, "tracker")
    /\ walk = None
    /\ peers' \in Bootstrapped
    /\ needFlush' = (needFlush \/ peers' # peers)
    /\ walk' = [by |-> c, queried |-> {}, high |-> 0, since |-> 0,
                radius |-> KnownRadius(call[c].time),
                gated |-> KnownRadius(call[c].time) # None, visited |-> {}, failed |-> {},
                bundles |-> {}, positive |-> {}, state |-> "walking"]
    /\ Goto(c, "walking")
    /\ UNCHANGED <<world, now, saved, cached, radius, inflight, missed, faults>>

Walking(c) == walk # None /\ walk.by = c /\ walk.state = "walking"

Unvisited == peers \ walk.queried

Admitted == {p \in Unvisited : walk.radius = None \/ Agreement[p] < walk.radius}

\* Mutant: the farthest peer is taken.
NearestFarthest == {p \in Admitted : \A q \in Admitted : Agreement[p] <= Agreement[q]}

Nearest == {p \in Admitted : \A q \in Admitted : Agreement[p] >= Agreement[q]}

\* Mutant: the radius is not capped.
WidenedUncapped(r) == IF r = None THEN None ELSE r + 1

\* The regression that the comment in next_peer tells of, as a mutant: the radius
\* that is widened is a copy.
WidenedCopy(r) == r

Widened(r) == IF r = None THEN None ELSE IF r < MaxRadius THEN r + 1 ELSE MaxRadius

\* One round of the loop in next_peer that finds nobody within the radius.
Widen(c) ==
    /\ Walking(c)
    /\ Admitted = {}
    /\ Unvisited # {}
    /\ walk.radius # None
    /\ walk' = [walk EXCEPT !.radius = Widened(@)]
    /\ UNCHANGED <<world, now, tracker, cached, radius, inflight, call, missed, faults>>

\* next_peer takes p: it counts the peers since the last one that was nearer.
Taken(p) ==
    [walk EXCEPT !.queried = @ \cup {p},
                 !.high = IF Agreement[p] > @ THEN Agreement[p] ELSE @,
                 !.since = IF Agreement[p] > walk.high THEN 0 ELSE @ + 1]

Exceeded(p) == Taken(p).since > MaxSince

\* next_peer returns None: nobody is left, or nobody nearer came for too long.
GiveUp(c) ==
    /\ Walking(c)
    /\ \/ Unvisited = {} /\ walk' = [walk EXCEPT !.state = "gaveup"]
       \/ \E p \in Nearest : /\ Exceeded(p)
                             /\ walk' = [Taken(p) EXCEPT !.state = "gaveup"]
    /\ UNCHANGED <<world, now, tracker, cached, radius, inflight, call, missed, faults>>

\* next_peer returns p.
Next_peer(p) == [Taken(p) EXCEPT !.radius = Widened(@)]

Retrieved == {b.peer : b \in walk.bundles}

\* The bundle of this peer has come from the cache of another one.
Skip(c) ==
    /\ Walking(c)
    /\ \E p \in Nearest : /\ ~Exceeded(p)
                          /\ p \in Retrieved
                          /\ walk' = Next_peer(p)
    /\ UNCHANGED <<world, now, tracker, cached, radius, inflight, call, missed, faults>>

\* Mutant: the tracker is not marked as changed.
ForgetUnmarked(p) == peers' = peers \ {p} /\ UNCHANGED needFlush

\* PeerTracker::remove_peer
Forget(p) == peers' = peers \ {p} /\ needFlush' = TRUE

\* The request fails; the tracker forgets the peer, the walk does not.
Fail(c) ==
    /\ Walking(c)
    /\ \E p \in Nearest \ Retrieved :
          /\ ~Exceeded(p)
          /\ walk' = [Next_peer(p) EXCEPT !.failed = @ \cup {p}]
          /\ Forget(p)
    /\ UNCHANGED <<world, now, saved, cached, radius, inflight, call, missed, faults>>

Own(p) == {b \in Bundle : b.peer = p /\ b.at = now}

\* What p may have in its cache: an older state of the bundle of another server.
Snapshots(p) ==
    {b \in Bundle : b.peer \in world.servers \ (Retrieved \cup {p}) /\ b.at <= now}

\* PeerTracker::add_peer of peers that verify, which marks the tracker as changed
\* also when they are known.
Learnt(named) == peers \cup named

\* p names peers, sends a cached bundle or none, and its own bundle or none.  A
\* bundle that does not verify is dropped if it was cached; if it is p's own the
\* answer counts as a failure, and what came before it in the answer is kept.
Answer(c) ==
    /\ Walking(c)
    /\ \E p \in Nearest \ Retrieved :
       \E named \in SUBSET world.servers :
       \E old \in {{}} \cup {{b} : b \in Snapshots(p)}, own \in {{}} \cup {{b} : b \in Own(p)} :
       \E valid \in (IF own = {} THEN {TRUE} ELSE BOOLEAN) :
          LET got == old \cup (IF valid THEN own ELSE {})
              all == walk.bundles \cup got
          IN  /\ ~Exceeded(p)
              /\ peers' = Learnt(named) \ (IF valid THEN {} ELSE {p})
              /\ needFlush' = (needFlush \/ named # {} \/ ~valid)
              /\ walk' = [Next_peer(p) EXCEPT
                            !.visited = @ \cup {p},
                            !.bundles = all,
                            !.positive = IF got # {} /\ valid THEN @ \cup {p} ELSE @,
                            !.state = IF valid /\ Cardinality(all) >= Redundant
                                      THEN "enough" ELSE "walking"]
    /\ UNCHANGED <<world, now, saved, cached, radius, inflight, call, missed, faults>>

\* PeerTracker::flush clears the flag before the write, which may fail.
Flush ==
    /\ \/ needFlush /\ saved' = peers /\ UNCHANGED faults
       \/ needFlush /\ Fault /\ UNCHANGED saved
       \/ ~needFlush /\ UNCHANGED <<saved, faults>>
    /\ needFlush' = FALSE
    /\ UNCHANGED peers

MinAgreement(s) == Min({Agreement[p] : p \in s})

Best(bundles) ==
    {b \in bundles : \A d \in bundles : Cardinality(b.ids) >= Cardinality(d.ids)}

\* The tracker is saved and given back, the radius is noted as the least agreement
\* of a peer that sent a bundle, and a bundle with the most posts is chosen; without
\* any bundle the call fails here.
EndWalk(c) ==
    /\ walk # None /\ walk.by = c /\ walk.state # "walking"
    /\ Flush
    /\ walk' = None
    /\ radius' = IF walk.positive = {} THEN radius
                 ELSE [r |-> MinAgreement(walk.positive), at |-> call[c].time]
    /\ UNCHANGED <<world, now, cached>>
    /\ \/ walk.bundles = {} /\ Return(c)
       \/ /\ walk.bundles # {}
          /\ \E b \in Best(walk.bundles) :
                call' = [call EXCEPT ![c].pc = "storing",
                                     ![c].best = [ids |-> b.ids, at |-> b.at]]
          /\ UNCHANGED <<inflight, missed>>

-----------------------------------------------------------------------------
(***************************************************************************)
(* After the walk.                                                         *)
(***************************************************************************)
\* Mutant: the donor, not the target, must have been asked.
HealWorkOfVisited(visited, bundles) ==
    {<<w[1].ids, w[2].peer>> : w \in
        {w \in bundles \X bundles : w[1].peer \in visited /\ ~(w[1].ids \subseteq w[2].ids)}}

\* heal_post_bundles: every bundle is offered to every server that was asked itself
\* and whose bundle lacks a post of it.
HealWork(visited, bundles) ==
    {<<w[1].ids, w[2].peer>> : w \in
        {w \in bundles \X bundles : w[2].peer \in visited /\ ~(w[1].ids \subseteq w[2].ids)}}

\* The best bundle is stored and the heals are spawned; if it cannot be stored the
\* call fails and nothing is healed.
Store(c) ==
    /\ At(c, "storing")
    /\ \/ Fault /\ UNCHANGED cached
       \/ cached' = call[c].best /\ UNCHANGED faults
    /\ Return(c)
    /\ UNCHANGED <<world, now, tracker, radius, walk>>

-----------------------------------------------------------------------------
Tick ==
    /\ now < world.until
    /\ now' = now + 1
    /\ UNCHANGED <<world, tracker, cached, radius, inflight, call, walk, missed, faults>>

\* The client stops and starts: the storage is what is left.
Restart ==
    /\ Fault
    /\ peers' = saved
    /\ needFlush' = FALSE
    /\ radius' = None
    /\ inflight' = None
    /\ call' = [c \in Caller |-> Idle]
    /\ walk' = None
    /\ missed' = FALSE
    /\ UNCHANGED <<world, now, saved, cached>>

\* The steps of a caller, after it has called.
Step(c) ==
    \/ GetLock(c) \/ Acquire(c) \/ Postflight(c) \/ StartWalk(c)
    \/ Widen(c) \/ GiveUp(c) \/ Skip(c) \/ Fail(c) \/ Answer(c)
    \/ EndWalk(c) \/ Store(c)

Next ==
    \/ \E c \in world.callers : GetPostBundle(c) \/ Step(c)
    \/ Tick
    \/ Restart

\* Tasks are scheduled fairly, requests end (they succeed or they fail), and tokio's
\* Mutex and RwLock are handed out in the order in which they were asked for.
Fairness ==
    \A c \in Caller : WF_vars(Step(c)) /\ SF_vars(Acquire(c)) /\ SF_vars(StartWalk(c))

Spec == Init /\ [][Next]_vars /\ Fairness

-----------------------------------------------------------------------------
Fetching(c) == call[c].pc \in {"tracker", "walking", "storing"}

\* The lock table keeps two callers from walking for the same bundle, as long as
\* every caller that returned left a bundle that its successors can use.  (After one
\* that did not, a new lock may be made while others still wait for the old one.)
FetchesExclusive == missed \/ \A c, d \in Caller : Fetching(c) /\ Fetching(d) => c = d

\* A walk that began without a radius and gives up leaves nobody it knows, those it
\* learnt of on its way included, who is nearer than the nearest one it asked (one
\* that answered, or failed, or had its bundle sent by another).
NobodyNearerLeft ==
    (walk # None /\ walk.state = "gaveup" /\ ~walk.gated) =>
        \A p \in Unvisited : \E q \in walk.queried :
            Agreement[q] >= Agreement[p] /\ q \in walk.visited \cup Retrieved \cup walk.failed

\* What the tracker knows is in the storage or marked to be written, unless a write
\* failed (the mark is gone then until the next change).
SavedOrMarked == saved = peers \/ needFlush \/ faults > 0

\* A sealed bundle in the storage is only ever replaced by a sealed one, under the
\* same condition as above: the second look at the storage sees to it.
SealedKept ==
    [][(cached # None /\ Sealed(cached) /\ ~missed) => Sealed(cached')]_vars

\* Whatever bundles a walk comes back with, every server that it asked itself is due
\* every post that any of the bundles has and its own has not.
EveryGapHealed ==
    (walk # None /\ walk.state # "walking") =>
        \A t, d \in walk.bundles : t.peer \in walk.visited =>
            \A x \in d.ids \ t.ids : \E h \in HealWork(walk.visited, walk.bundles) :
                h[2] = t.peer /\ x \in h[1]

\* Every call returns: no lock is waited for in a circle and next_peer does not spin.
CallReturns == \A c \in Caller : ~At(c, "idle") ~> At(c, "idle")

\* What every walk of get_post_bundle keeps: callers fetch one at a time, a finished walk
\* has left nobody nearer unasked and healed every gap it saw, and a change of the peers
\* is saved or marked.
WalkInv == TypeOK /\ FetchesExclusive /\ NobodyNearerLeft /\ SavedOrMarked /\ EveryGapHealed
=============================================================================
