--------------------------- MODULE BundleWalkProofs ---------------------------
(***************************************************************************)
(* Proofs about BundleWalk, for every set of callers and peers, every      *)
(* agreement of the peers with the location and all bounds.  The fairness  *)
(* that Spec states is not used: these are safety properties.              *)
(***************************************************************************)
EXTENDS BundleWalk, FiniteSetTheorems, WellFoundedInduction, TLAPS

-----------------------------------------------------------------------------
(***************************************************************************)
(* Constants.                                                              *)
(***************************************************************************)

\* The assumptions, one by one.
LEMMA Constants ==
    /\ SealAt \in Nat /\ Redundant \in Nat /\ MaxSince \in Nat /\ MaxSince > 0
    /\ CacheDuration \in Nat /\ RadiusTTL \in Nat
    /\ MaxRadius \in Nat /\ MaxTime \in Nat /\ MaxFaults \in Nat
    /\ \A p \in Peer : Agreement[p] \in 0 .. MaxRadius - 1 /\ Agreement[p] \in Nat
    /\ Cardinality(Caller) \in Nat
BY WalkAssumption, FS_CardinalityType

\* A set of agreements that is not empty has a least one.
LEMMA LeastExists ==
    ASSUME NEW n \in Nat, NEW S \in SUBSET (0 .. n), S # {}
    PROVE  Min(S) \in S
<1> DEFINE Below(x) == {y \in S : y < x}
           T == {Below(x) : x \in S}
           Order == StrictSubsetOrdering(S)
<1>1. IsFiniteSet(S)
  <2>1. IsFiniteSet(0 .. n)
    BY FS_Interval
  <2> QED
    BY <2>1, FS_Subset
<1>2. IsWellFoundedOn(Order, FiniteSubsetsOf(S))
  BY FS_StrictSubsetOrderingWellFounded
<1>3. T \subseteq FiniteSubsetsOf(S) /\ T # {}
  <2>1. FiniteSubsetsOf(S) = SUBSET S
    BY <1>1, FS_FiniteSubsetsOfFinite
  <2>2. T \subseteq SUBSET S /\ T # {}
    OBVIOUS
  <2> QED
    BY <2>1, <2>2
<1>4. PICK A \in T : \A B \in T : ~(<<B, A>> \in Order)
  <2> HIDE DEF T, Order
  <2> QED
    BY <1>2, <1>3, WFMin
<1>5. PICK x \in S : A = Below(x)
  BY <1>4
<1>6. ASSUME NEW q \in S, ~(x <= q) PROVE FALSE
  <2>1. \A y \in S : y \in Int
    OBVIOUS
  <2>2. q < x /\ \A y \in S : y < q => y < x
    BY <1>6, <2>1
  <2>3. q \in Below(x)
    BY <2>2
  <2>4. q \notin Below(q)
    BY <2>1
  <2>5. Below(q) \subseteq Below(x)
    BY <2>2
  <2>6. <<Below(q), Below(x)>> \in Order
    BY <2>3, <2>4, <2>5 DEF StrictSubsetOrdering
  <2> QED
    BY <1>4, <1>5, <2>6
<1>7. \E least \in S : \A y \in S : least <= y
  BY <1>6
<1> QED
  BY <1>7 DEF Min

\* CacheRadiusTracker is told an agreement.
LEMMA MinAgreementLemma ==
    ASSUME NEW s \in SUBSET Peer, s # {}
    PROVE  MinAgreement(s) \in 0 .. MaxRadius
<1> DEFINE S == {Agreement[p] : p \in s}
<1>1. \A p \in s : Agreement[p] \in 0 .. MaxRadius
  BY Constants
<1>2. S \in SUBSET (0 .. MaxRadius) /\ S # {} /\ MaxRadius \in Nat
  BY <1>1, Constants
<1>3. Min(S) \in S
  <2> HIDE DEF S
  <2> QED
    BY <1>2, LeastExists
<1> QED
  BY <1>2, <1>3 DEF MinAgreement

\* There is a lock to be made when the table has none: every caller has at most one.
LEMMA UnusedLemma ==
    ASSUME TypeOK, inflight = None
    PROVE  Unused # {} /\ Min(Unused) \in Unused /\ Min(Unused) \in Lock
<1> DEFINE held == {call[c].lock : c \in Caller}
           n == Cardinality(Caller)
<1>1. n \in Nat /\ IsFiniteSet(Caller)
  BY Constants, WalkAssumption
<1>2. IsFiniteSet(held) /\ Cardinality(held) <= n
  <2> DEFINE f == [c \in Caller |-> call[c].lock]
  <2>1. f \in Surjection(Caller, held)
    BY DEF Surjection
  <2> HIDE DEF f, held
  <2> QED
    BY <1>1, <2>1, FS_Surjection
<1>3. IsFiniteSet(Lock) /\ Cardinality(Lock) = n + 1
  <2>1. 1 \in Int /\ n + 1 \in Int /\ 1 <= n + 1 /\ n + 1 - 1 + 1 = n + 1
    BY <1>1
  <2>2. IsFiniteSet(1 .. n + 1)
        /\ Cardinality(1 .. n + 1) = IF 1 > n + 1 THEN 0 ELSE n + 1 - 1 + 1
    <3> HIDE DEF n
    <3> QED
      BY <2>1, FS_Interval
  <2> QED
    BY <1>1, <2>1, <2>2 DEF Lock
<1>4. ~(Lock \subseteq held)
  <2>1. SUFFICES ASSUME Lock \subseteq held PROVE FALSE
    OBVIOUS
  <2>2. Cardinality(Lock) <= Cardinality(held) /\ Cardinality(held) \in Nat
    <3> HIDE DEF held
    <3> QED
      BY <1>2, <2>1, FS_Subset, FS_CardinalityType
  <2> HIDE DEF n, held
  <2> QED
    BY <1>1, <1>2, <1>3, <2>2
<1>5. Unused = Lock \ ({None} \cup held)
  BY DEF Unused
<1>6. Unused # {}
  <2> HIDE DEF held
  <2> QED
    BY <1>4, <1>5, NoneAssumption
<1>7. Unused \subseteq 0 .. n + 1 /\ n + 1 \in Nat
  BY <1>1 DEF Unused, Lock
<1>8. Min(Unused) \in Unused
  <2> HIDE DEF n
  <2> QED
    BY <1>6, <1>7, LeastExists
<1> QED
  BY <1>6, <1>8 DEF Unused
-----------------------------------------------------------------------------
(***************************************************************************)
(* The inductive invariant.                                                *)
(***************************************************************************)

\* A call was made before now, and a caller past the lock table has a lock that nobody
\* else holds.
LocksHeld ==
    /\ \A c \in Caller : call[c].time <= now
    /\ \A c \in Caller : call[c].pc \notin {"idle", "locking"} <=> call[c].lock # None
    /\ \A c, d \in Caller :
          Holding(c) /\ Holding(d) /\ call[c].lock = call[d].lock => c = d
    /\ walk # None => At(walk.by, "walking")

\* As long as every caller that returned left a fresh bundle: one that fetches found
\* nothing in the storage that was good at the time of its call ...
FetchersMiss == \A c \in Caller : Fetching(c) => ~FromCache(call[c].time)

\* ... and one whose lock is no longer in the table, where the next caller would look for
\* it, finds what it wants in the storage.
OrphansHit ==
    \A c \in Caller : call[c].lock \notin {None, inflight} => FromCache(call[c].time)

Deduplicated == missed \/ (FetchersMiss /\ OrphansHit)

\* The peers a walk is done with: not one that made next_peer give up.
Asked(w) == w.visited \cup {b.peer : b \in w.bundles} \cup w.failed

\* The limit of next_peer, and what it knows of the peers it has handed out.
WalkOnCourse ==
    walk # None =>
        /\ ~walk.gated => walk.radius = None
        /\ walk.state = "walking" =>
              /\ walk.since <= MaxSince
              /\ walk.since > 0 \/ walk.high > 0 => walk.queried # {}
              /\ walk.queried # {} =>
                    \E q \in walk.queried \cap Asked(walk) : Agreement[q] >= walk.high

IInv == TypeOK /\ LocksHeld /\ Deduplicated /\ WalkOnCourse /\ NobodyNearerLeft /\ SavedOrMarked
-----------------------------------------------------------------------------
(***************************************************************************)
(* next_peer.                                                              *)
(***************************************************************************)

\* Widening stays within the bound and never makes up a radius.
LEMMA WidenedLemma ==
    ASSUME NEW r \in 0 .. MaxRadius \cup {None}
    PROVE  Widened(r) \in 0 .. MaxRadius \cup {None} /\ (r = None => Widened(r) = None)
BY Constants DEF Widened

\* The candidates of next_peer are known peers that it has not handed out, and without a
\* radius nobody who is left is nearer.
LEMMA NearestLemma ==
    ASSUME TypeOK, walk \in Walk, NEW p \in Nearest
    PROVE  /\ p \in Peer /\ p \in peers /\ p \notin walk.queried
           /\ walk.radius = None => \A q \in Unvisited : Agreement[p] >= Agreement[q]
BY DEF TypeOK, Nearest, Admitted, Unvisited

\* What next_peer has done when it has looked at p.
LEMMA TakenLemma ==
    ASSUME walk \in Walk, NEW p \in Peer, walk.since <= MaxSince
    PROVE  /\ Taken(p) \in Walk
           /\ Taken(p).queried = walk.queried \cup {p}
           /\ Taken(p).high = IF Agreement[p] > walk.high THEN Agreement[p] ELSE walk.high
           /\ Taken(p).since = IF Agreement[p] > walk.high THEN 0 ELSE walk.since + 1
           /\ Taken(p).by = walk.by /\ Taken(p).state = walk.state
           /\ Taken(p).radius = walk.radius /\ Taken(p).gated = walk.gated
           /\ Taken(p).visited = walk.visited /\ Taken(p).failed = walk.failed
           /\ Taken(p).bundles = walk.bundles /\ Taken(p).positive = walk.positive
<1>1. Agreement[p] \in Nat /\ MaxSince \in Nat
  BY Constants
<1>2. walk.since \in Nat /\ walk.high \in Nat
  BY <1>1 DEF Walk
<1>3. walk.since + 1 \in 0 .. MaxSince + 1 /\ 0 \in 0 .. MaxSince + 1
  BY <1>1, <1>2
<1> QED
  BY <1>1, <1>2, <1>3 DEF Taken, Walk

\* What next_peer has done when it returns p.
LEMMA NextPeerLemma ==
    ASSUME walk \in Walk, NEW p \in Peer, walk.since <= MaxSince, ~Exceeded(p)
    PROVE  /\ Next_peer(p) \in Walk
           /\ Next_peer(p).queried = walk.queried \cup {p}
           /\ Next_peer(p).high = IF Agreement[p] > walk.high THEN Agreement[p] ELSE walk.high
           /\ Next_peer(p).since \in 0 .. MaxSince
           /\ Next_peer(p).by = walk.by /\ Next_peer(p).state = walk.state
           /\ Next_peer(p).radius = Widened(walk.radius) /\ Next_peer(p).gated = walk.gated
           /\ Next_peer(p).visited = walk.visited /\ Next_peer(p).failed = walk.failed
           /\ Next_peer(p).bundles = walk.bundles /\ Next_peer(p).positive = walk.positive
<1> DEFINE t == Taken(p)
<1>1. /\ t \in Walk
      /\ t.queried = walk.queried \cup {p}
      /\ t.high = IF Agreement[p] > walk.high THEN Agreement[p] ELSE walk.high
      /\ t.by = walk.by /\ t.state = walk.state
      /\ t.radius = walk.radius /\ t.gated = walk.gated
      /\ t.visited = walk.visited /\ t.failed = walk.failed
      /\ t.bundles = walk.bundles /\ t.positive = walk.positive
  BY TakenLemma
<1>2. t.since \in 0 .. MaxSince
  <2>1. t.since \in 0 .. MaxSince + 1 /\ ~(t.since > MaxSince) /\ MaxSince \in Nat
    BY <1>1, Constants DEF Walk, Exceeded
  <2> QED
    BY <2>1
<1>3. Widened(t.radius) \in 0 .. MaxRadius \cup {None}
  BY <1>1, WidenedLemma DEF Walk
<1>4. Next_peer(p) = [t EXCEPT !.radius = Widened(@)]
  BY DEF Next_peer
<1> HIDE DEF t
<1> QED
  BY <1>1, <1>2, <1>3, <1>4 DEF Walk

\* Where next_peer returns a peer with which the walk is then done, the walk stays on its
\* course: some peer that it is done with is as near as the nearest it took.
LEMMA CourseLemma ==
    ASSUME walk \in Walk, WalkOnCourse, walk.state = "walking",
           NEW p \in Peer, NEW v \in Walk,
           v.queried = walk.queried \cup {p},
           v.high = IF Agreement[p] > walk.high THEN Agreement[p] ELSE walk.high,
           v.since \in 0 .. MaxSince,
           v.radius = Widened(walk.radius), v.gated = walk.gated,
           Asked(walk) \cup {p} \subseteq Asked(v)
    PROVE  /\ ~v.gated => v.radius = None
           /\ v.since <= MaxSince /\ v.queried # {}
           /\ \E q \in v.queried \cap Asked(v) : Agreement[q] >= v.high
<1>1. walk # None
  BY NoneAssumption
<1>2. ~v.gated => v.radius = None
  BY <1>1, WidenedLemma DEF WalkOnCourse, Walk
<1>3. v.since <= MaxSince /\ v.queried # {}
  BY Constants
<1>4. Agreement[p] \in Nat /\ walk.high \in Nat
  BY Constants DEF Walk
<1> DEFINE NearAsked == \E q \in v.queried \cap Asked(v) : Agreement[q] >= v.high
<1>5. CASE Agreement[p] >= v.high
  <2>1. NearAsked
    BY <1>5
  <2> QED
    BY <1>2, <1>3, <2>1
<1>6. CASE ~(Agreement[p] >= v.high)
  <2>1. v.high = walk.high /\ walk.high > 0
    BY <1>4, <1>6
  <2>2. PICK q \in walk.queried \cap Asked(walk) : Agreement[q] >= walk.high
    BY <1>1, <2>1 DEF WalkOnCourse
  <2>3. NearAsked
    BY <2>1, <2>2
  <2> QED
    BY <1>2, <1>3, <2>3
<1> QED
  BY <1>5, <1>6
\* Everything but the walk and the tracker is left alone while a walk is under way.
WalkAction(c) == Widen(c) \/ GiveUp(c) \/ Skip(c) \/ Fail(c) \/ Answer(c)

\* A step of a walk keeps it on course, marks every change of the tracker, and gives up
\* only when nobody nearer is left.
LEMMA WalkActionLemma ==
    ASSUME TypeOK, WalkOnCourse, NEW c \in Caller, WalkAction(c)
    PROVE  /\ walk \in Walk /\ walk' \in Walk /\ walk.by = c /\ walk'.by = c
           /\ WalkOnCourse' /\ NobodyNearerLeft'
           /\ peers' \subseteq Peer /\ needFlush' \in BOOLEAN
           /\ needFlush' \/ UNCHANGED <<peers, needFlush>>
<1>1. walk # None /\ walk.by = c /\ walk.state = "walking"
  BY DEF WalkAction, Widen, GiveUp, Skip, Fail, Answer, Walking
<1>2. walk \in Walk /\ peers \subseteq Peer /\ needFlush \in BOOLEAN
  BY <1>1 DEF TypeOK
<1>3. /\ ~walk.gated => walk.radius = None
      /\ walk.since <= MaxSince
      /\ walk.since > 0 \/ walk.high > 0 => walk.queried # {}
      /\ walk.queried # {} => \E q \in walk.queried \cap Asked(walk) : Agreement[q] >= walk.high
  BY <1>1 DEF WalkOnCourse
<1>4. \A p \in Nearest : p \in Peer
  BY <1>2, NearestLemma
<1>5. CASE Widen(c)
  <2>1. walk' = [walk EXCEPT !.radius = Widened(@)] /\ UNCHANGED <<peers, needFlush>>
    BY <1>5 DEF Widen, tracker
  <2>2. Widened(walk.radius) \in 0 .. MaxRadius \cup {None}
        /\ (walk.radius = None => Widened(walk.radius) = None)
    BY <1>2, WidenedLemma DEF Walk
  <2>3. /\ walk' \in Walk /\ walk'.by = c /\ walk'.state = "walking"
        /\ walk'.radius = Widened(walk.radius) /\ walk'.gated = walk.gated
        /\ walk'.since = walk.since /\ walk'.queried = walk.queried /\ walk'.high = walk.high
        /\ Asked(walk') = Asked(walk)
    BY <1>1, <1>2, <2>1, <2>2 DEF Walk, Asked
  <2>4. WalkOnCourse' /\ NobodyNearerLeft'
    BY <1>3, <2>2, <2>3 DEF WalkOnCourse, NobodyNearerLeft
  <2> QED
    BY <1>1, <1>2, <2>1, <2>3, <2>4
<1>6. CASE GiveUp(c)
  <2>1. UNCHANGED <<peers, needFlush>>
    BY <1>6 DEF GiveUp, tracker
  <2>2. CASE Unvisited = {} /\ walk' = [walk EXCEPT !.state = "gaveup"]
    <3>1. /\ walk' \in Walk /\ walk'.by = c /\ walk'.state = "gaveup"
          /\ walk'.radius = walk.radius /\ walk'.gated = walk.gated
          /\ walk'.queried = walk.queried
      BY <1>1, <1>2, <2>2 DEF Walk
    <3>2. Unvisited' = {}
      BY <2>1, <2>2, <3>1 DEF Unvisited
    <3>3. WalkOnCourse' /\ NobodyNearerLeft'
      BY <1>3, <3>1, <3>2 DEF WalkOnCourse, NobodyNearerLeft
    <3> QED
      BY <1>1, <1>2, <2>1, <3>1, <3>3
  <2>3. ASSUME NEW p \in Nearest, Exceeded(p), walk' = [Taken(p) EXCEPT !.state = "gaveup"]
        PROVE  walk' \in Walk /\ walk'.by = c /\ WalkOnCourse' /\ NobodyNearerLeft'
    <3> DEFINE t == Taken(p)
    <3>1. /\ t \in Walk /\ t.by = c /\ t.queried = walk.queried \cup {p}
          /\ t.since = IF Agreement[p] > walk.high THEN 0 ELSE walk.since + 1
          /\ t.radius = walk.radius /\ t.gated = walk.gated
          /\ t.visited = walk.visited /\ t.failed = walk.failed /\ t.bundles = walk.bundles
      BY <1>1, <1>2, <1>3, <1>4, TakenLemma
    <3>2. t.since > MaxSince
      BY <2>3 DEF Exceeded
    <3> HIDE DEF t
    <3>3. /\ walk' \in Walk /\ walk'.by = c /\ walk'.state = "gaveup"
          /\ walk'.radius = walk.radius /\ walk'.gated = walk.gated
          /\ walk'.queried = walk.queried \cup {p}
          /\ walk'.visited = walk.visited /\ walk'.failed = walk.failed
          /\ walk'.bundles = walk.bundles
      BY <2>3, <3>1 DEF Walk, t
    <3>4. WalkOnCourse'
      BY <1>3, <3>3 DEF WalkOnCourse
    <3>5. ~(Agreement[p] > walk.high) /\ walk.since > 0
      BY <1>2, <1>3, <3>1, <3>2, Constants DEF Walk
    <3>6. PICK q \in walk.queried \cap Asked(walk) : Agreement[q] >= walk.high
      BY <1>3, <3>5
    <3>7. q \in walk'.visited \cup Retrieved' \cup walk'.failed /\ q \in walk'.queried
      BY <3>3, <3>6 DEF Asked, Retrieved
    <3>8. ASSUME walk.radius = None, NEW r \in Unvisited' PROVE Agreement[q] >= Agreement[r]
      <4>1. r \in Unvisited
        BY <2>1, <3>3, <3>8 DEF Unvisited
      <4>2. Agreement[p] >= Agreement[r]
        BY <1>2, <3>8, <4>1, NearestLemma
      <4>3. p \in Peer /\ q \in Peer /\ r \in Peer
        BY <1>2, <1>4, <3>6, <4>1 DEF Walk, Unvisited
      <4>4. {Agreement[p], Agreement[q], Agreement[r], walk.high} \subseteq Nat
        BY <1>2, <4>3, Constants DEF Walk
      <4> QED
        BY <3>5, <3>6, <4>2, <4>4
    <3>9. NobodyNearerLeft'
      BY <1>3, <3>3, <3>7, <3>8 DEF NobodyNearerLeft
    <3> QED
      BY <3>3, <3>4, <3>9
  <2> QED
    BY <1>1, <1>2, <1>6, <2>1, <2>2, <2>3 DEF GiveUp
<1>7. CASE Skip(c)
  <2>1. PICK p \in Nearest : ~Exceeded(p) /\ p \in Retrieved /\ walk' = Next_peer(p)
    BY <1>7 DEF Skip
  <2>2. UNCHANGED <<peers, needFlush>>
    BY <1>7 DEF Skip, tracker
  <2> DEFINE v == Next_peer(p)
  <2>3. /\ v \in Walk /\ v.queried = walk.queried \cup {p}
        /\ v.high = IF Agreement[p] > walk.high THEN Agreement[p] ELSE walk.high
        /\ v.since \in 0 .. MaxSince /\ v.by = c /\ v.state = "walking"
        /\ v.radius = Widened(walk.radius) /\ v.gated = walk.gated
        /\ v.visited = walk.visited /\ v.failed = walk.failed /\ v.bundles = walk.bundles
    BY <1>1, <1>2, <1>3, <1>4, <2>1, NextPeerLemma
  <2> HIDE DEF v
  <2>4. Asked(walk) \cup {p} \subseteq Asked(v)
    BY <2>1, <2>3 DEF Asked, Retrieved
  <2>5. /\ ~v.gated => v.radius = None
        /\ v.since <= MaxSince /\ v.queried # {}
        /\ \E q \in v.queried \cap Asked(v) : Agreement[q] >= v.high
    BY <1>1, <1>2, <1>4, <2>3, <2>4, CourseLemma
  <2>6. walk' = v
    BY <2>1 DEF v
  <2>7. WalkOnCourse' /\ NobodyNearerLeft'
    BY <2>3, <2>5, <2>6 DEF WalkOnCourse, NobodyNearerLeft
  <2> QED
    BY <1>1, <1>2, <2>2, <2>3, <2>6, <2>7
<1>8. CASE Fail(c)
  <2>1. PICK p \in Nearest : /\ ~Exceeded(p)
                             /\ walk' = [Next_peer(p) EXCEPT !.failed = @ \cup {p}]
                             /\ Forget(p)
    BY <1>8 DEF Fail
  <2>2. peers' = peers \ {p} /\ needFlush' = TRUE
    BY <2>1 DEF Forget
  <2> DEFINE u == Next_peer(p)
             v == [u EXCEPT !.failed = @ \cup {p}]
  <2>3. /\ u \in Walk /\ u.queried = walk.queried \cup {p}
        /\ u.high = IF Agreement[p] > walk.high THEN Agreement[p] ELSE walk.high
        /\ u.since \in 0 .. MaxSince /\ u.by = c /\ u.state = "walking"
        /\ u.radius = Widened(walk.radius) /\ u.gated = walk.gated
        /\ u.visited = walk.visited /\ u.failed = walk.failed /\ u.bundles = walk.bundles
    BY <1>1, <1>2, <1>3, <1>4, <2>1, NextPeerLemma
  <2> HIDE DEF u
  <2>4. /\ v \in Walk /\ v.queried = walk.queried \cup {p}
        /\ v.high = IF Agreement[p] > walk.high THEN Agreement[p] ELSE walk.high
        /\ v.since \in 0 .. MaxSince /\ v.by = c /\ v.state = "walking"
        /\ v.radius = Widened(walk.radius) /\ v.gated = walk.gated
        /\ v.visited = walk.visited /\ v.failed = walk.failed \cup {p}
        /\ v.bundles = walk.bundles
    BY <1>4, <2>3 DEF Walk
  <2> HIDE DEF v
  <2>5. Asked(walk) \cup {p} \subseteq Asked(v)
    BY <2>4 DEF Asked
  <2>6. /\ ~v.gated => v.radius = None
        /\ v.since <= MaxSince /\ v.queried # {}
        /\ \E q \in v.queried \cap Asked(v) : Agreement[q] >= v.high
    BY <1>1, <1>2, <1>4, <2>4, <2>5, CourseLemma
  <2>7. walk' = v
    BY <2>1 DEF u, v
  <2>8. WalkOnCourse' /\ NobodyNearerLeft'
    BY <2>4, <2>6, <2>7 DEF WalkOnCourse, NobodyNearerLeft
  <2> QED
    BY <1>1, <1>2, <2>2, <2>4, <2>7, <2>8
<1>9. CASE Answer(c)
  <2> DEFINE Got(old, own, valid) == old \cup (IF valid THEN own ELSE {})
             Outcome(p, named, old, own, valid) ==
                /\ ~Exceeded(p)
                /\ peers' = Learnt(named) \ (IF valid THEN {} ELSE {p})
                /\ needFlush' = (needFlush \/ named # {} \/ ~valid)
                /\ walk' = [Next_peer(p) EXCEPT
                      !.visited = @ \cup {p},
                      !.bundles = walk.bundles \cup Got(old, own, valid),
                      !.positive = IF Got(old, own, valid) # {} /\ valid THEN @ \cup {p} ELSE @,
                      !.state = IF valid /\ Cardinality(walk.bundles \cup Got(old, own, valid))
                                              >= Redundant
                                THEN "enough" ELSE "walking"]
  <2>a. \E p \in Nearest : \E named \in SUBSET world.servers :
          \E old \in {{}} \cup {{b} : b \in Snapshots(p)}, own \in {{}} \cup {{b} : b \in Own(p)} :
          \E valid \in (IF own = {} THEN {TRUE} ELSE BOOLEAN) : Outcome(p, named, old, own, valid)
    BY <1>9 DEF Answer
  <2> HIDE DEF Outcome
  <2>b. PICK p \in Nearest, named \in SUBSET world.servers :
          \E old \in {{}} \cup {{b} : b \in Snapshots(p)}, own \in {{}} \cup {{b} : b \in Own(p)} :
          \E valid \in (IF own = {} THEN {TRUE} ELSE BOOLEAN) : Outcome(p, named, old, own, valid)
    BY <2>a
  <2>c. PICK old \in {{}} \cup {{b} : b \in Snapshots(p)}, own \in {{}} \cup {{b} : b \in Own(p)} :
          \E valid \in (IF own = {} THEN {TRUE} ELSE BOOLEAN) : Outcome(p, named, old, own, valid)
    BY <2>b
  <2>1. PICK valid \in BOOLEAN : Outcome(p, named, old, own, valid)
    BY <2>c
  <2> USE DEF Outcome
  <2> DEFINE got == Got(old, own, valid)
             all == walk.bundles \cup got
             u == Next_peer(p)
             v == [u EXCEPT !.visited = @ \cup {p},
                            !.bundles = all,
                            !.positive = IF got # {} /\ valid THEN @ \cup {p} ELSE @,
                            !.state = IF valid /\ Cardinality(all) >= Redundant
                                      THEN "enough" ELSE "walking"]
  <2>2. named \subseteq Peer /\ old \subseteq Bundle /\ own \subseteq Bundle /\ valid \in BOOLEAN
    BY WalkAssumption DEF TypeOK, Snapshots, Own
  <2>3. /\ peers' \subseteq Peer /\ needFlush' \in BOOLEAN
        /\ needFlush' \/ UNCHANGED <<peers, needFlush>>
    BY <1>2, <2>1, <2>2 DEF Learnt
  <2>4. /\ u \in Walk /\ u.queried = walk.queried \cup {p}
        /\ u.high = IF Agreement[p] > walk.high THEN Agreement[p] ELSE walk.high
        /\ u.since \in 0 .. MaxSince /\ u.by = c /\ u.state = "walking"
        /\ u.radius = Widened(walk.radius) /\ u.gated = walk.gated
        /\ u.visited = walk.visited /\ u.failed = walk.failed /\ u.bundles = walk.bundles
    BY <1>1, <1>2, <1>3, <1>4, <2>1, NextPeerLemma
  <2>5. all \subseteq Bundle /\ walk.bundles \subseteq all
    BY <1>2, <2>2 DEF Walk
  <2>6. walk' = v
    BY <2>1
  <2> HIDE DEF u, all, got
  <2>7. /\ v \in Walk /\ v.queried = walk.queried \cup {p}
        /\ v.high = IF Agreement[p] > walk.high THEN Agreement[p] ELSE walk.high
        /\ v.since \in 0 .. MaxSince /\ v.by = c /\ v.state \in {"walking", "enough"}
        /\ v.radius = Widened(walk.radius) /\ v.gated = walk.gated
        /\ v.visited = walk.visited \cup {p} /\ v.failed = walk.failed /\ v.bundles = all
    BY <1>4, <2>4, <2>5 DEF Walk
  <2> HIDE DEF v
  <2>8. Asked(walk) \cup {p} \subseteq Asked(v)
    BY <2>5, <2>7 DEF Asked
  <2>9. /\ ~v.gated => v.radius = None
        /\ v.since <= MaxSince /\ v.queried # {}
        /\ \E q \in v.queried \cap Asked(v) : Agreement[q] >= v.high
    BY <1>1, <1>2, <1>4, <2>7, <2>8, CourseLemma
  <2>10. WalkOnCourse' /\ NobodyNearerLeft'
    BY <2>6, <2>7, <2>9 DEF WalkOnCourse, NobodyNearerLeft
  <2> QED
    BY <1>1, <1>2, <2>3, <2>6, <2>7, <2>10
<1> QED
  BY <1>5, <1>6, <1>7, <1>8, <1>9 DEF WalkAction
-----------------------------------------------------------------------------
(***************************************************************************)
(* Types.                                                                  *)
(***************************************************************************)

\* Calls stay calls when they move on.
LEMMA CallLemma ==
    ASSUME TypeOK, NEW c \in Caller
    PROVE  /\ Idle \in Call /\ 0 \in 0 .. MaxTime /\ call[c] \in Call
           /\ \A pc \in {"idle", "locking", "waiting", "postflight", "tracker", "walking",
                         "storing"} : Goto(c, pc) => call' \in [Caller -> Call]
           /\ call' = [call EXCEPT ![c] = Idle] => call' \in [Caller -> Call]
<1>1. 0 \in 0 .. MaxTime
  BY Constants
<1>2. Idle \in Call
  BY <1>1 DEF Idle, Call
<1>3. call[c] \in Call
  BY DEF TypeOK
<1>4. ASSUME NEW pc \in {"idle", "locking", "waiting", "postflight", "tracker", "walking",
                         "storing"}, Goto(c, pc)
      PROVE  call' \in [Caller -> Call]
  <2>1. [call[c] EXCEPT !.pc = pc] \in Call
    BY <1>3 DEF Call
  <2> QED
    BY <1>4, <2>1 DEF Goto, TypeOK
<1>5. ASSUME call' = [call EXCEPT ![c] = Idle] PROVE call' \in [Caller -> Call]
  BY <1>2, <1>5 DEF TypeOK
<1> QED
  BY <1>1, <1>2, <1>3, <1>4, <1>5

\* The state stays within its types, whatever step is taken.
LEMMA TypeStep ==
    ASSUME TypeOK, LocksHeld, WalkOnCourse, [Next]_vars
    PROVE  TypeOK'
<1> USE DEF tracker, TypeOK
<1>0. \A c \in world.callers : c \in Caller
  BY WalkAssumption
<1>1. ASSUME NEW c \in Caller, GetPostBundle(c) PROVE TypeOK'
  <2>1. [call[c] EXCEPT !.pc = "locking", !.time = now] \in Call
    BY CallLemma DEF Call
  <2>2. call' = call \/ call' = [call EXCEPT ![c] = [call[c] EXCEPT !.pc = "locking", !.time = now]]
    BY <1>1 DEF GetPostBundle
  <2>3. call' \in [Caller -> Call]
    BY <2>1, <2>2
  <2> QED
    BY <1>1, <2>3 DEF GetPostBundle
<1>2. ASSUME NEW c \in Caller, GetLock(c) PROVE TypeOK'
  <2>1. KeyLock(c) \in Lock
    BY UnusedLemma DEF KeyLock
  <2>2. [call[c] EXCEPT !.pc = "waiting", !.lock = KeyLock(c)] \in Call
    BY <2>1, CallLemma DEF Call
  <2>3. call' = [call EXCEPT ![c] = [call[c] EXCEPT !.pc = "waiting", !.lock = KeyLock(c)]]
    BY <1>2 DEF GetLock
  <2>4. call' \in [Caller -> Call]
    BY <2>2, <2>3
  <2> QED
    BY <1>2, <2>1, <2>4 DEF GetLock
<1>3. ASSUME NEW c \in Caller, Acquire(c) PROVE TypeOK'
  <2>1. call' \in [Caller -> Call]
    BY <1>3, CallLemma DEF Acquire
  <2> QED
    BY <1>3, <2>1 DEF Acquire
<1>4. ASSUME NEW c \in Caller, Postflight(c) PROVE TypeOK'
  <2>1. call' \in [Caller -> Call]
    BY <1>4, CallLemma DEF Postflight, Return
  <2> QED
    BY <1>4, <2>1 DEF Postflight, Return
<1>5. ASSUME NEW c \in Caller, StartWalk(c) PROVE TypeOK'
  <2>1. call' \in [Caller -> Call]
    BY <1>5, CallLemma DEF StartWalk
  <2>2. KnownRadius(call[c].time) \in 0 .. MaxRadius \cup {None}
    BY DEF KnownRadius, Radius
  <2>3. 0 \in Nat /\ 0 \in 0 .. MaxSince + 1
    BY Constants
  <2>4. walk' \in Walk
    BY <1>5, <2>2, <2>3 DEF StartWalk, Walk
  <2>5. peers' \subseteq Peer
    BY <1>5, WalkAssumption DEF StartWalk, Bootstrapped
  <2> QED
    BY <1>5, <2>1, <2>4, <2>5 DEF StartWalk
<1>6. ASSUME NEW c \in Caller, WalkAction(c) PROVE TypeOK'
  <2>1. walk' \in Walk /\ peers' \subseteq Peer /\ needFlush' \in BOOLEAN
    BY <1>6, WalkActionLemma
  <2>2. UNCHANGED <<world, now, saved, cached, radius, inflight, call, missed, faults>>
    BY <1>6 DEF WalkAction, Widen, GiveUp, Skip, Fail, Answer
  <2> QED
    BY <2>1, <2>2
<1>7. ASSUME NEW c \in Caller, EndWalk(c) PROVE TypeOK'
  <2>1. walk \in Walk /\ walk' = None /\ UNCHANGED <<world, now, cached>>
    BY <1>7 DEF EndWalk
  <2>2. peers' \subseteq Peer /\ needFlush' \in BOOLEAN /\ saved' \subseteq Peer
        /\ faults' \in 0 .. MaxFaults
    <3>1. Fault => faults' \in 0 .. MaxFaults
      BY Constants DEF Fault
    <3>2. Flush
      BY <1>7 DEF EndWalk
    <3>3. faults' \in 0 .. MaxFaults
      BY <3>1, <3>2 DEF Flush
    <3> QED
      BY <3>2, <3>3 DEF Flush
  <2>3. radius' = None \/ radius' \in Radius
    <3>1. CASE walk.positive = {}
      BY <1>7, <3>1 DEF EndWalk
    <3>2. CASE walk.positive # {}
      <4>1. MinAgreement(walk.positive) \in 0 .. MaxRadius
        BY <2>1, <3>2, MinAgreementLemma DEF Walk
      <4>2. call[c].time \in 0 .. MaxTime
        BY CallLemma DEF Call
      <4> QED
        BY <1>7, <3>2, <4>1, <4>2 DEF EndWalk, Radius
    <3> QED
      BY <3>1, <3>2
  <2>4. CASE Return(c)
    BY <2>1, <2>2, <2>3, <2>4, CallLemma DEF Return
  <2>5. ASSUME NEW b \in Best(walk.bundles),
               call' = [call EXCEPT ![c].pc = "storing",
                                    ![c].best = [ids |-> b.ids, at |-> b.at]],
               UNCHANGED <<inflight, missed>>
        PROVE  TypeOK'
    <3>1. b \in Bundle
      BY <2>1 DEF Best, Walk
    <3>2. [ids |-> b.ids, at |-> b.at] \in Stored
      BY <3>1 DEF Bundle, Stored
    <3>3. [call[c] EXCEPT !.pc = "storing", !.best = [ids |-> b.ids, at |-> b.at]] \in Call
      BY <3>2, CallLemma DEF Call
    <3>4. call' = [call EXCEPT ![c] =
                     [call[c] EXCEPT !.pc = "storing", !.best = [ids |-> b.ids, at |-> b.at]]]
      BY <2>5
    <3>5. call' \in [Caller -> Call]
      BY <3>3, <3>4
    <3> QED
      BY <2>1, <2>2, <2>3, <2>5, <3>5
  <2> QED
    BY <1>7, <2>4, <2>5 DEF EndWalk
<1>8. ASSUME NEW c \in Caller, Store(c) PROVE TypeOK'
  <2>1. cached' = None \/ cached' \in Stored
    BY <1>8, CallLemma DEF Store, Call
  <2>2. call' \in [Caller -> Call] /\ inflight' \in Lock \cup {None} /\ missed' \in BOOLEAN
    BY <1>8, CallLemma DEF Store, Return
  <2>3. faults' \in 0 .. MaxFaults
    BY <1>8, Constants DEF Store, Fault
  <2> QED
    BY <1>8, <2>1, <2>2, <2>3 DEF Store
<1>9. CASE Tick
  <2>1. world.until \in 0 .. MaxTime
    BY WalkAssumption
  <2>2. now' \in 0 .. MaxTime
    BY <1>9, <2>1, Constants DEF Tick
  <2> QED
    BY <1>9, <2>2 DEF Tick
<1>10. CASE Restart
  <2>1. call' \in [Caller -> Call]
    BY <1>10, CallLemma DEF Restart
  <2>2. faults' \in 0 .. MaxFaults
    BY <1>10, Constants DEF Restart, Fault
  <2> QED
    BY <1>10, <2>1, <2>2 DEF Restart
<1>11. CASE UNCHANGED vars
  BY <1>11 DEF vars
<1> QED
  BY <1>0, <1>1, <1>2, <1>3, <1>4, <1>5, <1>6, <1>7, <1>8, <1>9, <1>10, <1>11
  DEF Next, Step, WalkAction
-----------------------------------------------------------------------------
(***************************************************************************)
(* Locks.                                                                  *)
(***************************************************************************)

\* A bundle that is good now was good at the time of every call that is under way.
LEMMA FreshForAll ==
    ASSUME TypeOK, TypeOK', LocksHeld, now' = now, NEW c \in Caller, cached' # None,
           Sealed(cached') \/ now - cached'.at < CacheDuration
    PROVE  Sealed(cached') \/ call[c].time - cached'.at < CacheDuration
<1>1. call[c].time <= now /\ call[c].time \in Nat /\ now \in Nat
  BY Constants DEF TypeOK, LocksHeld, Call
<1>2. cached'.at \in Nat
  BY Constants DEF TypeOK, Stored
<1> QED
  BY <1>1, <1>2, Constants

\* Locks stay held by one caller at a time, and a walk belongs to a caller that walks.
LEMMA LocksStep ==
    ASSUME TypeOK, TypeOK', LocksHeld, WalkOnCourse, [Next]_vars
    PROVE  LocksHeld'
<1> USE DEF tracker
<1>0. \A c \in world.callers : c \in Caller
  BY WalkAssumption DEF TypeOK
<1>t. \A c \in Caller : call[c].time \in Nat /\ call[c].time <= now /\ now \in Nat /\ now' \in Nat
  BY Constants DEF TypeOK, LocksHeld, Call
<1>i. 0 <= now' /\ Idle.time = 0 /\ Idle.pc = "idle" /\ Idle.lock = None
  BY Constants DEF TypeOK, Idle
<1>1. ASSUME NEW c \in Caller, GetPostBundle(c) PROVE LocksHeld'
  <2>1. CASE call' = call
    BY <1>1, <2>1 DEF GetPostBundle, LocksHeld, Holding, At
  <2>2. CASE call' = [call EXCEPT ![c].pc = "locking", ![c].time = now]
    <3>1. \A d \in Caller : d # c => call'[d] = call[d]
      BY <2>2 DEF TypeOK
    <3>2. call'[c].pc = "locking" /\ call'[c].time = now /\ call[c].pc = "idle"
          /\ call'[c].lock = call[c].lock
      BY <1>1, <2>2 DEF TypeOK, Call, GetPostBundle, At
    <3>3. now' = now /\ walk' = walk
      BY <1>1 DEF GetPostBundle
    <3>4. walk # None => walk.by \in Caller
      BY DEF TypeOK, Walk
    <3> QED
      BY <1>t, <3>1, <3>2, <3>3, <3>4 DEF LocksHeld, Holding, At
  <2> QED
    BY <1>1, <2>1, <2>2 DEF GetPostBundle
<1>2. ASSUME NEW c \in Caller, GetLock(c) PROVE LocksHeld'
  <2>1. \A d \in Caller : d # c => call'[d] = call[d]
    BY <1>2 DEF TypeOK, GetLock
  <2>2. call'[c].pc = "waiting" /\ call'[c].time = call[c].time /\ call'[c].lock = KeyLock(c)
        /\ call[c].pc = "locking"
    BY <1>2 DEF TypeOK, Call, GetLock, At
  <2>3. KeyLock(c) # None
    BY UnusedLemma, NoneAssumption DEF KeyLock
  <2>4. now' = now /\ walk' = walk
    BY <1>2 DEF GetLock
  <2>5. walk # None => walk.by \in Caller
    BY DEF TypeOK, Walk
  <2> QED
    BY <1>t, <2>1, <2>2, <2>3, <2>4, <2>5 DEF LocksHeld, Holding, At
<1>3. ASSUME NEW c \in Caller, Acquire(c) PROVE LocksHeld'
  <2>1. \A d \in Caller : d # c => call'[d] = call[d]
    BY <1>3 DEF TypeOK, Acquire, Goto
  <2>2. call'[c].pc = "postflight" /\ call'[c].time = call[c].time
        /\ call'[c].lock = call[c].lock /\ call[c].pc = "waiting"
    BY <1>3 DEF TypeOK, Call, Acquire, Goto, At
  <2>3. \A d \in Caller : Holding(d) => call[d].lock # call[c].lock
    BY <1>3 DEF Acquire
  <2>4. now' = now /\ walk' = walk
    BY <1>3 DEF Acquire
  <2>5. walk # None => walk.by \in Caller
    BY DEF TypeOK, Walk
  <2> QED
    BY <1>t, <2>1, <2>2, <2>3, <2>4, <2>5 DEF LocksHeld, Holding, At
<1>r. ASSUME NEW c \in Caller, call' = [call EXCEPT ![c] = Idle], now' = now,
             walk' = None \/ (walk' = walk /\ ~At(c, "walking"))
      PROVE  LocksHeld'
  <2>1. \A d \in Caller : d # c => call'[d] = call[d]
    BY <1>r DEF TypeOK
  <2>2. call'[c].pc = "idle" /\ call'[c].time = 0 /\ call'[c].lock = None
    BY <1>r, <1>i DEF TypeOK
  <2>3. walk # None => walk.by \in Caller
    BY DEF TypeOK, Walk
  <2> QED
    BY <1>t, <1>r, <1>i, <2>1, <2>2, <2>3 DEF LocksHeld, Holding, At
<1>4. ASSUME NEW c \in Caller, Postflight(c) PROVE LocksHeld'
  <2>1. now' = now /\ walk' = walk /\ call[c].pc = "postflight"
    BY <1>4 DEF Postflight, At
  <2>2. CASE Return(c)
    BY <1>r, <2>1, <2>2 DEF Return, At
  <2>3. CASE Goto(c, "tracker")
    <3>1. \A d \in Caller : d # c => call'[d] = call[d]
      BY <2>3 DEF TypeOK, Goto
    <3>2. call'[c].pc = "tracker" /\ call'[c].time = call[c].time /\ call'[c].lock = call[c].lock
      BY <2>3 DEF TypeOK, Call, Goto
    <3>3. walk # None => walk.by \in Caller
      BY DEF TypeOK, Walk
    <3> QED
      BY <1>t, <2>1, <3>1, <3>2, <3>3 DEF LocksHeld, Holding, At
  <2> QED
    BY <1>4, <2>2, <2>3 DEF Postflight
<1>5. ASSUME NEW c \in Caller, StartWalk(c) PROVE LocksHeld'
  <2>1. now' = now /\ walk'.by = c /\ call[c].pc = "tracker"
    BY <1>5 DEF StartWalk, At
  <2>2. \A d \in Caller : d # c => call'[d] = call[d]
    BY <1>5 DEF TypeOK, StartWalk, Goto
  <2>3. call'[c].pc = "walking" /\ call'[c].time = call[c].time /\ call'[c].lock = call[c].lock
    BY <1>5 DEF TypeOK, Call, StartWalk, Goto
  <2> QED
    BY <1>t, <2>1, <2>2, <2>3 DEF LocksHeld, Holding, At
<1>6. ASSUME NEW c \in Caller, WalkAction(c) PROVE LocksHeld'
  <2>1. walk # None /\ walk'.by = walk.by
    BY <1>6, WalkActionLemma, NoneAssumption
  <2>2. now' = now /\ call' = call
    BY <1>6 DEF WalkAction, Widen, GiveUp, Skip, Fail, Answer
  <2> QED
    BY <2>1, <2>2 DEF LocksHeld, Holding, At
<1>7. ASSUME NEW c \in Caller, EndWalk(c) PROVE LocksHeld'
  <2>1. now' = now /\ walk' = None /\ walk # None /\ walk.by = c
    BY <1>7 DEF EndWalk
  <2>2. call[c].pc = "walking"
    BY <2>1 DEF LocksHeld, At
  <2>3. CASE Return(c)
    BY <1>r, <2>1, <2>3 DEF Return
  <2>4. ASSUME NEW b \in Best(walk.bundles),
               call' = [call EXCEPT ![c].pc = "storing",
                                    ![c].best = [ids |-> b.ids, at |-> b.at]]
        PROVE  LocksHeld'
    <3>1. \A d \in Caller : d # c => call'[d] = call[d]
      BY <2>4 DEF TypeOK
    <3>2. call'[c].pc = "storing" /\ call'[c].time = call[c].time /\ call'[c].lock = call[c].lock
      BY <2>4 DEF TypeOK, Call
    <3> QED
      BY <1>t, <2>1, <2>2, <3>1, <3>2 DEF LocksHeld, Holding, At
  <2> QED
    BY <1>7, <2>3, <2>4 DEF EndWalk
<1>8. ASSUME NEW c \in Caller, Store(c) PROVE LocksHeld'
  <2>1. now' = now /\ walk' = walk /\ call[c].pc = "storing" /\ call' = [call EXCEPT ![c] = Idle]
    BY <1>8 DEF Store, Return, At
  <2> QED
    BY <1>r, <2>1 DEF At
<1>9. CASE Tick
  <2>1. now <= now' /\ call' = call /\ walk' = walk
    BY <1>9, Constants DEF Tick, TypeOK
  <2>2. \A c \in Caller : call[c].time <= now'
    BY <1>t, <2>1
  <2> QED
    BY <2>1, <2>2 DEF LocksHeld, Holding, At
<1>10. CASE Restart
  <2>1. walk' = None /\ \A d \in Caller : call'[d] = Idle
    BY <1>10 DEF Restart
  <2> QED
    BY <1>i, <2>1 DEF LocksHeld, Holding, At
<1>11. CASE UNCHANGED vars
  BY <1>11 DEF vars, LocksHeld, Holding, At
<1> QED
  BY <1>0, <1>1, <1>2, <1>3, <1>4, <1>5, <1>6, <1>7, <1>8, <1>9, <1>10, <1>11
  DEF Next, Step, WalkAction
\* Two callers that fetch have the lock that is in the table, and so are one.
LEMMA ExclusiveLemma ==
    ASSUME TypeOK, LocksHeld, Deduplicated
    PROVE  FetchesExclusive
<1> SUFFICES ASSUME ~missed, NEW c \in Caller, NEW d \in Caller, Fetching(c), Fetching(d)
             PROVE  c = d
  BY DEF FetchesExclusive
<1>1. \A e \in Caller : Fetching(e) => Holding(e) /\ call[e].lock # None
  BY DEF Fetching, Holding, LocksHeld
<1>2. \A e \in Caller : Fetching(e) => call[e].lock = inflight
  BY <1>1 DEF Deduplicated, FetchersMiss, OrphansHit
<1> QED
  BY <1>1, <1>2 DEF LocksHeld

\* The table and the second look at the storage go on keeping callers apart.
LEMMA DeduplicatedStep ==
    ASSUME TypeOK, TypeOK', LocksHeld, WalkOnCourse, Deduplicated, [Next]_vars
    PROVE  Deduplicated'
<1> USE DEF tracker
<1>0. \A c \in world.callers : c \in Caller
  BY WalkAssumption DEF TypeOK
<1>i. Idle.pc = "idle" /\ Idle.lock = None
  BY DEF Idle
<1>10. CASE Restart
  <2>1. \A d \in Caller : call'[d] = Idle
    BY <1>10 DEF Restart
  <2> QED
    BY <1>i, <2>1 DEF Deduplicated, FetchersMiss, OrphansHit, Fetching
<1> SUFFICES ASSUME ~Restart, ~missed' PROVE FetchersMiss' /\ OrphansHit'
  BY <1>10 DEF Deduplicated
<1>m. ~missed
  BY DEF Next, Step, vars, GetPostBundle, GetLock, Acquire, Postflight, Return, StartWalk, Widen,
         GiveUp, Skip, Fail, Answer, EndWalk, Store, Tick, TypeOK
<1>f. FetchersMiss /\ OrphansHit
  BY <1>m DEF Deduplicated
\* A caller that moves on with its lock and the time of its call.
<1>k. ASSUME NEW c \in Caller, UNCHANGED <<cached, inflight>>,
             \A d \in Caller : d # c => call'[d] = call[d],
             call'[c].lock = call[c].lock, call'[c].time = call[c].time,
             call'[c].pc \in {"tracker", "walking", "storing"} =>
                Fetching(c) \/ ~FromCache(call[c].time)
      PROVE  FetchersMiss' /\ OrphansHit'
  BY <1>f, <1>k DEF FetchersMiss, OrphansHit, Fetching, FromCache, Sealed
\* A caller that returns.
<1>r. ASSUME NEW c \in Caller, Return(c), now' = now, cached' = cached \/ Fetching(c)
      PROVE  FetchersMiss' /\ OrphansHit'
  <2>1. \A d \in Caller : d # c => call'[d] = call[d]
    BY <1>r DEF Return, TypeOK
  <2>2. call'[c].pc = "idle" /\ call'[c].lock = None
    BY <1>r, <1>i DEF Return, TypeOK
  <2>3. cached' # None /\ (Sealed(cached') \/ now - cached'.at < CacheDuration)
    BY <1>r DEF Return, TypeOK
  <2>4. \A d \in Caller : Sealed(cached') \/ call[d].time - cached'.at < CacheDuration
    BY <1>r, <2>3, FreshForAll
  <2>5. \A d \in Caller : d # c => FromCache(call[d].time)'
    BY <2>1, <2>3, <2>4 DEF FromCache, Sealed
  <2>6. OrphansHit'
    BY <2>2, <2>5 DEF OrphansHit
  <2>7. ASSUME NEW d \in Caller, d # c, Fetching(d) PROVE FALSE
    <3>1. CASE cached' = cached
      <4>1. FromCache(call[d].time)
        BY <2>3, <2>4, <3>1 DEF FromCache, Sealed
      <4> QED
        BY <1>f, <2>7, <4>1 DEF FetchersMiss
    <3>2. CASE Fetching(c)
      BY <1>m, <2>7, <3>2, ExclusiveLemma DEF FetchesExclusive
    <3> QED
      BY <1>r, <3>1, <3>2
  <2>8. FetchersMiss'
    BY <2>1, <2>2, <2>7 DEF FetchersMiss, Fetching
  <2> QED
    BY <2>6, <2>8
<1>1. ASSUME NEW c \in Caller, GetPostBundle(c) PROVE FetchersMiss' /\ OrphansHit'
  <2>1. CASE call' = call
    BY <1>1, <1>f, <2>1 DEF GetPostBundle, FetchersMiss, OrphansHit, Fetching, FromCache, Sealed
  <2>2. CASE call' = [call EXCEPT ![c].pc = "locking", ![c].time = now] /\ ~FromCache(now)
    <3>1. \A d \in Caller : d # c => call'[d] = call[d]
      BY <2>2 DEF TypeOK
    <3>2. call'[c].pc = "locking" /\ call'[c].lock = call[c].lock /\ call'[c].time = now
      BY <2>2 DEF TypeOK, Call
    <3>3. UNCHANGED <<cached, inflight>>
      BY <1>1 DEF GetPostBundle
    <3>4. call[c].lock = None
      BY <1>1 DEF GetPostBundle, At, LocksHeld
    <3> QED
      BY <1>f, <3>1, <3>2, <3>3, <3>4 DEF FetchersMiss, OrphansHit, Fetching, FromCache, Sealed
  <2> QED
    BY <1>1, <2>1, <2>2 DEF GetPostBundle
<1>2. ASSUME NEW c \in Caller, GetLock(c) PROVE FetchersMiss' /\ OrphansHit'
  <2>1. \A d \in Caller : d # c => call'[d] = call[d]
    BY <1>2 DEF TypeOK, GetLock
  <2>2. call'[c].pc = "waiting" /\ call'[c].lock = KeyLock(c) /\ inflight' = KeyLock(c)
    BY <1>2 DEF TypeOK, Call, GetLock
  <2>3. cached' = cached
    BY <1>2 DEF GetLock
  <2>4. inflight = None \/ inflight' = inflight
    BY <2>2 DEF KeyLock
  <2> QED
    BY <1>f, <2>1, <2>2, <2>3, <2>4 DEF FetchersMiss, OrphansHit, Fetching, FromCache, Sealed
<1>3. ASSUME NEW c \in Caller, Acquire(c) PROVE FetchersMiss' /\ OrphansHit'
  <2>1. \A d \in Caller : d # c => call'[d] = call[d]
    BY <1>3 DEF TypeOK, Acquire, Goto
  <2>2. call'[c].pc = "postflight" /\ call'[c].time = call[c].time /\ call'[c].lock = call[c].lock
    BY <1>3 DEF TypeOK, Call, Acquire, Goto
  <2>3. UNCHANGED <<cached, inflight>>
    BY <1>3 DEF Acquire
  <2> QED
    BY <1>k, <2>1, <2>2, <2>3
<1>4. ASSUME NEW c \in Caller, Postflight(c) PROVE FetchersMiss' /\ OrphansHit'
  <2>1. now' = now /\ cached' = cached
    BY <1>4 DEF Postflight
  <2>2. CASE Return(c)
    BY <1>r, <2>1, <2>2
  <2>3. CASE ~FromCacheNow(c) /\ Goto(c, "tracker") /\ UNCHANGED <<cached, inflight, missed>>
    <3>1. \A d \in Caller : d # c => call'[d] = call[d]
      BY <2>3 DEF TypeOK, Goto
    <3>2. call'[c].time = call[c].time /\ call'[c].lock = call[c].lock
      BY <2>3 DEF TypeOK, Call, Goto
    <3>3. ~FromCache(call[c].time)
      BY <2>3 DEF FromCacheNow
    <3> QED
      BY <1>k, <2>3, <3>1, <3>2, <3>3
  <2> QED
    BY <1>4, <2>2, <2>3 DEF Postflight
<1>5. ASSUME NEW c \in Caller, StartWalk(c) PROVE FetchersMiss' /\ OrphansHit'
  <2>1. \A d \in Caller : d # c => call'[d] = call[d]
    BY <1>5 DEF TypeOK, StartWalk, Goto
  <2>2. call'[c].time = call[c].time /\ call'[c].lock = call[c].lock /\ Fetching(c)
    BY <1>5 DEF TypeOK, Call, StartWalk, Goto, At, Fetching
  <2>3. UNCHANGED <<cached, inflight>>
    BY <1>5 DEF StartWalk
  <2> QED
    BY <1>k, <2>1, <2>2, <2>3
<1>6. ASSUME NEW c \in Caller, WalkAction(c) PROVE FetchersMiss' /\ OrphansHit'
  <2>1. UNCHANGED <<cached, inflight, call>>
    BY <1>6 DEF WalkAction, Widen, GiveUp, Skip, Fail, Answer
  <2> QED
    BY <1>f, <2>1 DEF FetchersMiss, OrphansHit, Fetching, FromCache, Sealed
<1>7. ASSUME NEW c \in Caller, EndWalk(c) PROVE FetchersMiss' /\ OrphansHit'
  <2>1. now' = now /\ cached' = cached /\ walk # None /\ walk.by = c
    BY <1>7 DEF EndWalk
  <2>2. Fetching(c)
    BY <2>1 DEF LocksHeld, At, Fetching
  <2>3. CASE Return(c)
    BY <1>r, <2>1, <2>3
  <2>4. ASSUME NEW b \in Best(walk.bundles),
               call' = [call EXCEPT ![c].pc = "storing",
                                    ![c].best = [ids |-> b.ids, at |-> b.at]],
               UNCHANGED <<inflight, missed>>
        PROVE  FetchersMiss' /\ OrphansHit'
    <3>1. \A d \in Caller : d # c => call'[d] = call[d]
      BY <2>4 DEF TypeOK
    <3>2. call'[c].time = call[c].time /\ call'[c].lock = call[c].lock
      BY <2>4 DEF TypeOK, Call
    <3> QED
      BY <1>k, <2>1, <2>2, <2>4, <3>1, <3>2
  <2> QED
    BY <1>7, <2>3, <2>4 DEF EndWalk
<1>8. ASSUME NEW c \in Caller, Store(c) PROVE FetchersMiss' /\ OrphansHit'
  <2>1. now' = now /\ Return(c) /\ Fetching(c)
    BY <1>8 DEF Store, At, Fetching
  <2> QED
    BY <1>r, <2>1
<1>9. CASE Tick
  BY <1>9, <1>f DEF Tick, FetchersMiss, OrphansHit, Fetching, FromCache, Sealed
<1>11. CASE UNCHANGED vars
  BY <1>11, <1>f DEF vars, FetchersMiss, OrphansHit, Fetching, FromCache, Sealed
<1> QED
  BY <1>0, <1>1, <1>2, <1>3, <1>4, <1>5, <1>6, <1>7, <1>8, <1>9, <1>11
  DEF Next, Step, WalkAction
-----------------------------------------------------------------------------
(***************************************************************************)
(* Walks and the tracker.                                                  *)
(***************************************************************************)

\* A walk stays on course, and one that gives up leaves nobody nearer, whatever step is
\* taken.
LEMMA CourseStep ==
    ASSUME TypeOK, LocksHeld, WalkOnCourse, NobodyNearerLeft, [Next]_vars
    PROVE  WalkOnCourse' /\ NobodyNearerLeft'
<1> USE DEF tracker
<1>0. \A c \in world.callers : c \in Caller
  BY WalkAssumption DEF TypeOK
<1>1. ASSUME NEW c \in Caller, StartWalk(c) PROVE WalkOnCourse' /\ NobodyNearerLeft'
  <2>1. /\ walk'.state = "walking" /\ walk'.queried = {} /\ walk'.since = 0 /\ walk'.high = 0
        /\ ~walk'.gated => walk'.radius = None
    BY <1>1 DEF StartWalk
  <2> QED
    BY <2>1, Constants DEF WalkOnCourse, NobodyNearerLeft
<1>2. ASSUME NEW c \in Caller, WalkAction(c) PROVE WalkOnCourse' /\ NobodyNearerLeft'
  BY <1>2, WalkActionLemma
<1>3. CASE walk' = None
  BY <1>3 DEF WalkOnCourse, NobodyNearerLeft
<1>4. CASE UNCHANGED <<walk, peers>>
  BY <1>4 DEF WalkOnCourse, NobodyNearerLeft, Asked, Unvisited, Retrieved
<1>5. \/ UNCHANGED <<walk, peers>> \/ walk' = None
      \/ \E c \in world.callers : StartWalk(c) \/ WalkAction(c)
  BY DEF Next, Step, vars, WalkAction, GetPostBundle, GetLock, Acquire, Postflight, EndWalk,
         Store, Tick, Restart
<1> QED
  BY <1>0, <1>1, <1>2, <1>3, <1>4, <1>5

\* Every change of the tracker is marked, and the mark goes when it is written.
LEMMA SavedStep ==
    ASSUME TypeOK, WalkOnCourse, SavedOrMarked, [Next]_vars
    PROVE  SavedOrMarked'
<1> USE DEF tracker
<1>0. \A c \in world.callers : c \in Caller
  BY WalkAssumption DEF TypeOK
<1>f. faults \in Nat /\ faults' \in Nat /\ faults <= faults' /\ (Fault => faults' > 0)
  <2>1. faults \in Nat
    BY Constants DEF TypeOK
  <2>2. faults' = faults \/ Fault
    BY DEF Next, Step, vars, GetPostBundle, GetLock, Acquire, Postflight, StartWalk, Widen,
           GiveUp, Skip, Fail, Answer, EndWalk, Flush, Store, Tick, Restart
  <2> QED
    BY <2>1, <2>2 DEF Fault
<1>1. ASSUME NEW c \in Caller, StartWalk(c) PROVE SavedOrMarked'
  BY <1>1, <1>f DEF StartWalk, SavedOrMarked, TypeOK
<1>2. ASSUME NEW c \in Caller, WalkAction(c) PROVE SavedOrMarked'
  <2>1. needFlush' \/ UNCHANGED <<peers, needFlush>>
    BY <1>2, WalkActionLemma
  <2>2. saved' = saved
    BY <1>2 DEF WalkAction, Widen, GiveUp, Skip, Fail, Answer
  <2> QED
    BY <1>f, <2>1, <2>2 DEF SavedOrMarked
<1>3. ASSUME NEW c \in Caller, EndWalk(c) PROVE SavedOrMarked'
  <2>1. Flush
    BY <1>3 DEF EndWalk
  <2> QED
    BY <1>f, <2>1 DEF Flush, SavedOrMarked
<1>4. CASE Restart
  BY <1>4 DEF Restart, SavedOrMarked
<1>5. CASE UNCHANGED <<peers, needFlush, saved>>
  BY <1>5, <1>f DEF SavedOrMarked
<1>6. \/ UNCHANGED <<peers, needFlush, saved>> \/ Restart
      \/ \E c \in world.callers : StartWalk(c) \/ WalkAction(c) \/ EndWalk(c)
  BY DEF Next, Step, vars, WalkAction, GetPostBundle, GetLock, Acquire, Postflight, Store, Tick
<1> QED
  BY <1>0, <1>1, <1>2, <1>3, <1>4, <1>5, <1>6

\* heal_post_bundles offers every post that one of the bundles has to every server that was
\* asked and lacks it, whatever the bundles are.
LEMMA HealsEveryGap ==
    ASSUME NEW visited, NEW bundles, NEW t \in bundles, NEW d \in bundles, t.peer \in visited,
           NEW x \in d.ids \ t.ids
    PROVE  \E h \in HealWork(visited, bundles) : h[2] = t.peer /\ x \in h[1]
<1> DEFINE w == <<d, t>>
<1>1. w \in bundles \X bundles /\ w[1] = d /\ w[2] = t
  OBVIOUS
<1>2. ~(d.ids \subseteq t.ids)
  OBVIOUS
<1>3. <<d.ids, t.peer>> \in HealWork(visited, bundles)
  <2> HIDE DEF w
  <2> QED
    BY <1>1, <1>2 DEF HealWork
<1> QED
  BY <1>3

-----------------------------------------------------------------------------
(***************************************************************************)
(* Theorems.                                                               *)
(***************************************************************************)

\* IInv is an inductive invariant of the client.
THEOREM Inductive == Spec => []IInv
<1>1. Init => IInv
  <2> SUFFICES ASSUME Init PROVE IInv
    OBVIOUS
  <2> USE DEF Init
  <2>1. Idle \in Call /\ Idle.time = 0 /\ Idle.pc = "idle" /\ Idle.lock = None
    BY Constants DEF Idle, Call
  <2>2. TypeOK
    <3>1. 0 \in 0 .. MaxTime /\ 0 \in 0 .. MaxFaults
      BY Constants
    <3>2. call \in [Caller -> Call]
      BY <2>1
    <3> QED
      BY <3>1, <3>2 DEF TypeOK
  <2>3. LocksHeld
    BY <2>1 DEF LocksHeld, Holding
  <2>4. Deduplicated
    BY <2>1 DEF Deduplicated, FetchersMiss, OrphansHit, Fetching
  <2>5. WalkOnCourse /\ NobodyNearerLeft /\ SavedOrMarked
    BY DEF WalkOnCourse, NobodyNearerLeft, SavedOrMarked
  <2> QED
    BY <2>2, <2>3, <2>4, <2>5 DEF IInv
<1>2. IInv /\ [Next]_vars => IInv'
  BY TypeStep, LocksStep, DeduplicatedStep, CourseStep, SavedStep DEF IInv
<1> QED
  BY <1>1, <1>2, PTL DEF Spec

\* Callers of get_post_bundle fetch one at a time as long as every one left a bundle that
\* the others can use; a walk that gives up has left nobody nearer unasked; every change of
\* the peers is saved or marked; and every gap that a walk sees is healed.
THEOREM WalksCorrect == Spec => []WalkInv
<1>1. IInv => WalkInv
  <2> SUFFICES ASSUME IInv PROVE WalkInv
    OBVIOUS
  <2>1. FetchesExclusive
    BY ExclusiveLemma DEF IInv
  <2>2. EveryGapHealed
    BY HealsEveryGap DEF EveryGapHealed
  <2> QED
    BY <2>1, <2>2 DEF IInv, WalkInv
<1> QED
  BY <1>1, Inductive, PTL

\* A sealed bundle in the storage is replaced only by a sealed one, as long as every caller
\* left a bundle that the others can use: a caller that fetches found no such bundle.
THEOREM SealedAlwaysKept == Spec => SealedKept
<1>1. ASSUME IInv, [Next]_vars
      PROVE  [(cached # None /\ Sealed(cached) /\ ~missed) => Sealed(cached')]_vars
  <2> SUFFICES ASSUME cached # None, Sealed(cached), ~missed, ~UNCHANGED vars
               PROVE  Sealed(cached')
    BY DEF vars
  <2>0. \A c \in world.callers : c \in Caller
    BY <1>1, WalkAssumption DEF IInv, TypeOK
  <2>1. ASSUME NEW c \in Caller, Store(c) PROVE FALSE
    <3>1. Fetching(c)
      BY <2>1 DEF Store, At, Fetching
    <3>2. ~FromCache(call[c].time)
      BY <1>1, <3>1 DEF IInv, Deduplicated, FetchersMiss
    <3> QED
      BY <3>2 DEF FromCache
  <2>2. cached' = cached
    BY <1>1, <2>0, <2>1
    DEF Next, Step, GetPostBundle, GetLock, Acquire, Postflight, StartWalk, Widen, GiveUp,
        Skip, Fail, Answer, EndWalk, Tick, Restart
  <2> QED
    BY <2>2
<1> QED
  BY <1>1, Inductive, PTL DEF Spec, SealedKept
=============================================================================
