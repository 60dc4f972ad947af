--------------------------- MODULE PostBundleCache ----------------------------
(***************************************************************************)
(* The read cache in which a server keeps bundles of other servers, and    *)
(* the tokens with which it asks clients to fill it.                       *)
(*                                                                         *)
(* Times are kept as what is left of them, so that the clock needs no      *)
(* bound: an entry goes when it was not asked for during TTI, a live       *)
(* bundle is stale after LiveTTL and stays in its entry, a token and its   *)
(* mark in inflight last TokenTTL.  A token is still good at the very      *)
(* instant at which its mark goes.                                         *)
(*                                                                         *)
(* A CachePostBundleV1 request with several bundles has the effect of one  *)
(* request for each of them, all with the same token.                      *)
(***************************************************************************)
EXTENDS Integers, FiniteSets, FiniteSetsExt

CONSTANTS
    Location,
    Originator,         \* servers whose bundles are cached
    Agreement,          \* Agreement[l][o]: leading_agreement_bits_xor of o and l
    MaxOriginators,     \* max_originators_per_location
    HitThreshold,       \* CACHE_HIT_THRESHOLD
    TTI,                \* CACHE_LOCATION_TTI
    TokenTTL,           \* CACHE_REQUEST_TOKEN_TTL_DURATION
    LiveTTL,            \* lifetime of a live bundle (5 minutes)
    MaxBytes,           \* max_capacity of the moka cache
    PlaceholderWeight,  \* POST_BUNDLE_PLACEHOLDER_WEIGHT
    MaxRestarts,        \* bound of the model
    NoEntry

ASSUME CacheAssumption ==
    /\ Agreement \in [Location -> [Originator -> Nat]]
    /\ {MaxOriginators, HitThreshold, TTI, TokenTTL, LiveTTL} \subseteq Nat \ {0}
    /\ {MaxBytes, PlaceholderWeight, MaxRestarts} \subseteq Nat

\* What is left of a bundle's time; a sealed bundle never expires.
Sealed == LiveTTL + 1
Remaining == 0 .. Sealed
Absent == -1

VARIABLES
    entry,      \* entry[l]: the CachedPostBundleLocationEntry of l, or NoEntry
    inflight,   \* inflight[l]: what is left of the mark of l, 0 if none
    tokens,     \* CacheRequestTokenV1s in the hands of clients
    restarts

cacheVars == <<entry, inflight, tokens, restarts>>

\* hits stops at the threshold, the only thing it is compared with.
Entry == [hits : 0 .. HitThreshold, idle : 1 .. TTI, weight : Nat,
          bundles : [Originator -> Remaining \cup {Absent}]]

Token == [loc : Location, left : 0 .. TokenTTL, cached : SUBSET Originator,
          epoch : 0 .. MaxRestarts]

ASSUME NoEntryAssumption == NoEntry \notin Entry

CacheTypeOK ==
    /\ entry \in [Location -> Entry \cup {NoEntry}]
    /\ inflight \in [Location -> 0 .. TokenTTL]
    /\ tokens \subseteq Token
    /\ restarts \in 0 .. MaxRestarts

CacheInit ==
    /\ entry = [l \in Location |-> NoEntry]
    /\ inflight = [l \in Location |-> 0]
    /\ tokens = {}
    /\ restarts = 0

Present(e) == {o \in Originator : e.bundles[o] # Absent}

Placeholder == [hits |-> 0, idle |-> TTI, weight |-> PlaceholderWeight,
                bundles |-> [o \in Originator |-> Absent]]

Weight(entries) ==
    MapThenSumSet(LAMBDA l : IF entries[l] = NoEntry THEN 0 ELSE entries[l].weight, Location)

\* moka weighs an entry when it is inserted; over its capacity it gives up entries
\* of its choice, the new one not excepted.
Trimmed(entries) ==
    {kept \in {[l \in Location |-> IF l \in gone THEN NoEntry ELSE entries[l]] :
                  gone \in SUBSET {l \in Location : entries[l] # NoEntry}} :
        Weight(kept) <= MaxBytes /\ (Weight(entries) <= MaxBytes => kept = entries)}

-----------------------------------------------------------------------------
Touched(l) == [(IF entry[l] = NoEntry THEN Placeholder ELSE entry[l])
                 EXCEPT !.idle = TTI]

\* Mutant: the mark is not looked at.
IssuesTokenAlways(l, e) == e.hits >= HitThreshold

IssuesToken(l, e) == e.hits >= HitThreshold /\ inflight[l] = 0

\* on_get, of every GetPostBundleV1: the fresh bundles are served, a hot location
\* gets a token that lists all originators in the entry.
OnGet(l) ==
    LET old == Touched(l)
        e == [old EXCEPT !.hits = IF @ < HitThreshold THEN @ + 1 ELSE @]
    IN  /\ entry' \in (IF entry[l] = NoEntry
                       THEN Trimmed([entry EXCEPT ![l] = e])
                       ELSE {[entry EXCEPT ![l] = e]})
        /\ \/ /\ IssuesToken(l, e)
              /\ inflight' = [inflight EXCEPT ![l] = TokenTTL]
              /\ tokens' = tokens \cup {[loc |-> l, left |-> TokenTTL,
                                         cached |-> Present(e), epoch |-> restarts]}
           \/ /\ ~IssuesToken(l, e)
              /\ UNCHANGED <<inflight, tokens>>
        /\ UNCHANGED restarts

\* The order of eviction: far from the location before near, then soonest to expire.
Worse(l, bundles, o, q) ==
    \/ Agreement[l][o] < Agreement[l][q]
    \/ Agreement[l][o] = Agreement[l][q] /\ bundles[o] <= bundles[q]

\* Mutant: the comparison of the distances is the wrong way round.
WorstNearest(l, bundles, present) ==
    {o \in present : \A q \in present : Agreement[l][o] >= Agreement[l][q]}

Worst(l, bundles, present) ==
    {o \in present : \A q \in present : Worse(l, bundles, o, q)}

\* upload_post_bundle_caches: a client sends the bundles of those whom the token, if it
\* still holds, does not list.
Uploaded(t) == Originator \ t.cached

\* on_upload puts what was sent into the entry, if there still is one.
OnUpload(t, o, left) ==
    LET l == t.loc
        e == entry[l]
        bundles == [e.bundles EXCEPT ![o] = left]
        present == Present(e) \cup {o}
    IN  /\ o \in Uploaded(t)
        /\ e # NoEntry
        /\ \/ /\ Cardinality(present) <= MaxOriginators
              /\ entry' = [entry EXCEPT ![l].bundles = bundles, ![l].idle = TTI]
           \/ /\ Cardinality(present) > MaxOriginators
              /\ \E worst \in Worst(l, bundles, present) :
                    entry' = [entry EXCEPT
                        ![l].bundles = [bundles EXCEPT ![worst] = Absent],
                        ![l].idle = TTI]
        /\ UNCHANGED <<inflight, tokens, restarts>>

\* Mutant: the time left of a mark runs on below zero.
LessUnchecked(n) == n - 1

Less(n) == IF n > 0 THEN n - 1 ELSE 0

\* A moment passes: idle entries, marks and tokens go; live bundles grow stale.
AgedEntry(e) ==
    [e EXCEPT !.idle = @ - 1,
              !.bundles = [o \in Originator |->
                  IF @[o] \in {Absent, Sealed} THEN @[o] ELSE Less(@[o])]]

CacheTick ==
    /\ entry' = [l \in Location |-> IF entry[l] = NoEntry \/ entry[l].idle = 1 THEN NoEntry
                                    ELSE AgedEntry(entry[l])]
    /\ inflight' = [l \in Location |-> Less(inflight[l])]
    /\ tokens' = {[t EXCEPT !.left = @ - 1] : t \in {t \in tokens : t.left > 0}}
    /\ UNCHANGED restarts

\* The caches are in memory; tokens are signed with a key that is not.
CacheRestart ==
    /\ restarts < MaxRestarts
    /\ restarts' = restarts + 1
    /\ entry' = [l \in Location |-> NoEntry]
    /\ inflight' = [l \in Location |-> 0]
    /\ UNCHANGED tokens

CacheNext ==
    \/ \E l \in Location : OnGet(l)
    \/ \E t \in tokens, o \in Originator, left \in {LiveTTL, Sealed} : OnUpload(t, o, left)
    \/ CacheTick
    \/ CacheRestart

CacheSpec == CacheInit /\ [][CacheNext]_cacheVars

-----------------------------------------------------------------------------
(***************************************************************************)
(* Properties.                                                             *)
(***************************************************************************)

\* The inflight mark and the token expire together: a process never has two tokens
\* for one location outstanding, except for the instant at which one runs out.
OneTokenOutstanding ==
    \A t, u \in tokens :
        t.loc = u.loc /\ t.epoch = u.epoch /\ t.left > 0 /\ u.left > 0 => t = u

\* on_upload against floods of far-away originators: when an originator is dropped
\* from an entry, nobody who stays is farther from the location.
FarthestDropped ==
    [][\A l \in Location :
          entry[l] # NoEntry /\ entry'[l] # NoEntry =>
              \A o \in Present(entry[l]) \ Present(entry'[l]), q \in Present(entry'[l]) :
                  Agreement[l][q] >= Agreement[l][o]]_cacheVars

\* No location has two tokens outstanding, by whichever of the two clocks they expire
\* (post_bundle_caching.rs, on_get: the inflight mark and the signed expires_at).
CacheInv == CacheTypeOK /\ OneTokenOutstanding
=============================================================================
