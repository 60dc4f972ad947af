------------------------------ MODULE Services ------------------------------
(***************************************************************************)
(* The secondary services of a server: trending hashtags, counted from the   *)
(* claims it grants and answered from a list it keeps for a while; a signed   *)
(* document about itself, the same for everyone for a while; and previews of  *)
(* web pages, whose host is resolved and checked once and then visited.       *)
(*                                                                         *)
(* The sketch that counts distinct authors is taken as exact.                *)
(***************************************************************************)
EXTENDS Integers, Sequences, FiniteSets

CONSTANTS
  Tags,            \* hashtags as written in posts
  Fallback,        \* TRENDING_HASHTAGS_FALLBACK
  Lowered,         \* Lowered[t]: a hashtag in lower case without its leading #
  TagAuthors,      \* authors of posts
  Limits,          \* limits that clients ask for
  TrendingTtl,     \* 30 s
  StatsTtl,        \* 60 s
  PublicIps,       \* addresses that may be visited
  ProtectedIps,    \* is_ssrf_protected_ip
  ServiceTime,     \* bound: the clock
  MaxAsked         \* bound: requests counted

ASSUME ServicesAssumption ==
  /\ {TrendingTtl, StatsTtl} \subseteq Nat \ {0}
  /\ {ServiceTime, MaxAsked} \cup Limits \subseteq Nat
  /\ IsFiniteSet(Tags) /\ IsFiniteSet(TagAuthors)
  /\ PublicIps \cap ProtectedIps = {}

VARIABLES
  seconds,     \* the time
  seenBy,      \* trending_hashtags: the authors of each hashtag
  trending,    \* trending_hashtags_response_cache
  stats,       \* peer_stats_response_cache
  requests,    \* request_counters, their sum
  preview,     \* a preview under way
  told         \* the last answer given, with what was asked

servicesVars == <<seconds, seenBy, trending, stats, requests, preview, told>>

-----------------------------------------------------------------------------
Uncached == [at |-> -1]

IsFresh(cached, ttl) == cached # Uncached /\ seconds - cached.at < ttl

Truncated(list, limit) == SubSeq(list, 1, IF limit < Len(list) THEN limit ELSE Len(list))

(* The hashtags somebody used, by how many did; equals in any order.           *)
Used == {t \in Tags : seenBy[t] # {}}

Ranked ==
  {list \in [1 .. Cardinality(Used) -> [tag : Used, count : 1 .. Cardinality(TagAuthors)]] :
     /\ {list[i].tag : i \in DOMAIN list} = Used
     /\ \A i \in DOMAIN list : list[i].count = Cardinality(seenBy[list[i].tag])
     /\ \A i, j \in DOMAIN list : i < j => list[i].count >= list[j].count}

NormalisedHashtags(list) == {Lowered[list[i].tag] : i \in DOMAIN list}

\* One fallback after the other, while there is room and unless it is there.
TopUpWith(list, limit, tag) ==
  IF Len(list) >= limit \/ Lowered[tag] \in NormalisedHashtags(list) THEN list
  ELSE Append(list, [tag |-> tag, count |-> 0])

TopUp(list, limit) == TopUpWith(TopUpWith(list, limit, Fallback[1]), limit, Fallback[2])

-----------------------------------------------------------------------------
ServicesInit ==
  /\ seconds = 0
  /\ seenBy = [t \in Tags |-> {}]
  /\ trending = Uncached
  /\ stats = Uncached
  /\ requests = 0
  /\ preview = [st |-> "none"]
  /\ told = [what |-> "nothing"]

SecondPassesBy(n) ==
  /\ seconds + n <= ServiceTime
  /\ seconds' = seconds + n
  /\ told' = [what |-> "nothing"]
  /\ UNCHANGED <<seenBy, trending, stats, requests, preview>>

(* A claim for a post of an author's own bucket was granted.  Hashtags that    *)
(* the post is not linked to do not count.                                   *)
TrackHashtags(author, referenced, linked) ==
  /\ seenBy' = [t \in Tags |-> IF t \in referenced \cap linked THEN seenBy[t] \cup {author} ELSE seenBy[t]]
  /\ told' = [what |-> "nothing"]
  /\ UNCHANGED <<seconds, trending, stats, requests, preview>>

\* Mutant: the list is kept as it was cut for the first who asked.
KeptForOthersCut(list, limit) == Truncated(list, limit)

KeptForOthers(list, limit) == list

AnswerTrending(limit, list, at) ==
  told' = [what |-> "trending", limit |-> limit, list |-> TopUp(Truncated(list, limit), limit), at |-> at]

TrendingHashtagsFetch(limit) ==
  /\ IF IsFresh(trending, TrendingTtl)
     THEN AnswerTrending(limit, trending.list, trending.at) /\ UNCHANGED trending
     ELSE \E list \in Ranked :
            /\ trending' = [at |-> seconds, list |-> KeptForOthers(list, limit), known |-> Used]
            /\ AnswerTrending(limit, list, seconds)
  /\ UNCHANGED <<seconds, seenBy, stats, requests, preview>>

(* The document is signed with the time it was made at.                       *)
NewStats == [at |-> seconds, doc |-> requests]

\* Mutant: the document made last is given without a look at its age.
GivenStatsEver == IF stats # Uncached THEN stats ELSE NewStats

GivenStats == IF IsFresh(stats, StatsTtl) THEN stats ELSE NewStats

PeerStatsRequestV1(enoughPow) ==
  /\ requests < MaxAsked
  /\ requests' = requests + 1
  /\ stats' = IF enoughPow THEN GivenStats ELSE stats
  /\ told' = IF enoughPow THEN [what |-> "stats", given |-> GivenStats] ELSE [what |-> "refused"]
  /\ UNCHANGED <<seconds, seenBy, trending, preview>>

(* A url is https with a host that is a name; all its addresses are checked,    *)
(* and kept for the visit.  Somebody else's name server answers differently    *)
(* from one query to the next.                                               *)
FetchUrlPreview(https, named, dns) ==
  /\ preview.st = "none"
  /\ IF https /\ named /\ dns # {} /\ dns \cap ProtectedIps = {}
     THEN preview' = [st |-> "checked", resolved |-> dns] /\ told' = [what |-> "nothing"]
     ELSE preview' = preview /\ told' = [what |-> "refused"]
  /\ UNCHANGED <<seconds, seenBy, trending, stats, requests>>

\* Mutant: the name is resolved again for the visit.
ResolvedAgain(dns) == dns

ResolveToAddrs(dns) == preview.resolved

VisitUrl(dns) ==
  /\ preview.st = "checked"
  /\ preview' = [st |-> "none"]
  /\ told' = [what |-> "visited", ips |-> ResolveToAddrs(dns)]
  /\ UNCHANGED <<seconds, seenBy, trending, stats, requests>>

ServicesNext ==
  \/ \E n \in {1, TrendingTtl} : SecondPassesBy(n)
  \/ \E a \in TagAuthors, r \in SUBSET Tags, l \in SUBSET Tags : TrackHashtags(a, r, l)
  \/ \E limit \in Limits : TrendingHashtagsFetch(limit)
  \/ \E enough \in BOOLEAN : PeerStatsRequestV1(enough)
  \/ \E dns \in SUBSET (PublicIps \cup ProtectedIps) :
       VisitUrl(dns) \/ \E https, named \in BOOLEAN : FetchUrlPreview(https, named, dns)

ServicesSpec == ServicesInit /\ [][ServicesNext]_servicesVars

-----------------------------------------------------------------------------
Smaller(a, b) == IF a < b THEN a ELSE b

(* Who asks for trending hashtags gets as many as were asked for, as far as     *)
(* there are any that were used when the list was made: whoever asked before    *)
(* them, for however few.  They are not older than the time to live, the most   *)
(* used are first, and fillers come last and do not repeat any of them.        *)
TrendingAnswered ==
  told.what = "trending" =>
    LET real == {i \in DOMAIN told.list : told.list[i].count > 0}
    IN /\ Cardinality(real) = Smaller(told.limit, Cardinality(trending.known))
       /\ seconds - told.at < TrendingTtl
       /\ \A i, j \in DOMAIN told.list : i < j => told.list[i].count >= told.list[j].count
       /\ \A i \in DOMAIN told.list, j \in DOMAIN told.list \ real :
            i # j => Lowered[told.list[i].tag] # Lowered[told.list[j].tag]
       /\ Len(told.list) <= told.limit

(* Everyone who asks within the time to live is given one and the same signed   *)
(* document, and nobody one that is older.                                   *)
StatsGiven ==
  told.what = "stats" => told.given = stats /\ seconds - told.given.at < StatsTtl

(* No preview visits an address that was not checked, however the name          *)
(* resolves by then.                                                         *)
VisitsChecked == told.what = "visited" => told.ips # {} /\ told.ips \cap ProtectedIps = {}

\* Answers kept for a while serve callers with other limits as fresh ones would, and only
\* addresses that were checked are visited.
ServicesConsistent == TrendingAnswered /\ StatsGiven /\ VisitsChecked
=============================================================================
