------------------------ MODULE FeedbackServersProofs -------------------------
(***************************************************************************)
(* Proofs about FeedbackServers, for every set of servers, clients, posts  *)
(* and feedback types and all bounds.                                      *)
(***************************************************************************)
EXTENDS FeedbackServers, FiniteSetTheorems, WellFoundedInduction, TLAPS

-----------------------------------------------------------------------------
(***************************************************************************)
(* Proofs of work, bodies and merges.                                      *)
(***************************************************************************)

\* A set of proofs of work that is not empty has a strongest one.
LEMMA StrongestExists ==
    ASSUME NEW S \in SUBSET (0 .. MaxPow), S # {}
    PROVE  \E pow \in S : \A q \in S : q <= pow
<1> DEFINE Above(x) == {y \in S : y > x}
           T == {Above(x) : x \in S}
           Order == StrictSubsetOrdering(S)
<1>1. IsFiniteSet(S)
  <2>1. IsFiniteSet(0 .. MaxPow)
    BY FeedbackAssumption, FS_Interval
  <2> QED
    BY <2>1, FS_Subset
<1>2. IsWellFoundedOn(Order, FiniteSubsetsOf(S))
  BY FS_StrictSubsetOrderingWellFounded
<1>3. T \subseteq FiniteSubsetsOf(S) /\ T # {}
  <2>1. FiniteSubsetsOf(S) = SUBSET S
    BY <1>1, FS_FiniteSubsetsOfFinite
  <2>2. T \subseteq SUBSET S /\ T # {}
    OBVIOUS
  <2> QED
    BY <2>1, <2>2
<1>4. PICK A \in T : \A B \in T : ~(<<B, A>> \in Order)
  <2> HIDE DEF T, Order
  <2> QED
    BY <1>2, <1>3, WFMin
<1>5. PICK x \in S : A = Above(x)
  BY <1>4
<1>6. ASSUME NEW q \in S, ~(q <= x) PROVE FALSE
  <2>1. \A y \in S : y \in Int
    BY FeedbackAssumption
  <2>2. q > x /\ \A y \in S : y > q => y > x
    BY <1>6, <2>1
  <2>3. q \in Above(x)
    BY <2>2
  <2>4. q \notin Above(q)
    BY <2>1
  <2>5. Above(q) \subseteq Above(x)
    BY <2>2
  <2>6. <<Above(q), Above(x)>> \in Order
    BY <2>3, <2>4, <2>5 DEF StrictSubsetOrdering
  <2> QED
    BY <1>4, <1>5, <2>6
<1> QED
  BY <1>6

\* Bodies of bundles are bodies.
LEMMA BodyTypes ==
    /\ MaxPow \in Nat
    /\ NoEntries \in Body
    /\ \A k \in Key : NoEntries[k] = 0
    /\ \A b \in Bundle : b.peer \in Server /\ b.body \in Body /\ b.hash \in Body
    /\ \A body \in Body, k \in Key : body[k] \in 0 .. MaxPow
BY FeedbackAssumption DEF Body, NoEntries, Bundle

\* EncodedPostBundleFeedbackV1::merge takes every entry from one of the bundles, and none
\* of them has a stronger one.
LEMMA MergedPowLemma ==
    ASSUME NEW bundles \in SUBSET Bundle, bundles # {}, NEW k \in Key
    PROVE  /\ \E b \in bundles : MergedPow(bundles, k) = b.body[k]
           /\ \A b \in bundles : b.body[k] <= MergedPow(bundles, k)
           /\ MergedPow(bundles, k) \in 0 .. MaxPow
<1> DEFINE S == {b.body[k] : b \in bundles}
<1>1. S \in SUBSET (0 .. MaxPow) /\ S # {}
  BY BodyTypes
<1>2. \E pow \in S : \A q \in S : q <= pow
  BY <1>1, StrongestExists
<1>3. \E pow \in S : \A b \in bundles : b.body[k] <= pow
  BY <1>2
<1>4. MergedPow(bundles, k) \in S /\ \A b \in bundles : b.body[k] <= MergedPow(bundles, k)
  BY <1>3 DEF MergedPow
<1> QED
  BY <1>1, <1>4

\* What merge returns is a bundle, and its body is the merge.
LEMMA MergesLemma ==
    ASSUME NEW bundles \in SUBSET Bundle, bundles # {}, NEW merged \in Merges(bundles)
    PROVE  /\ merged \in Bundle
           /\ merged.body \in Body
           /\ \A k \in Key : merged.body[k] = MergedPow(bundles, k)
<1>1. MergedBody(bundles) \in Body /\ \A k \in Key : MergedBody(bundles)[k] = MergedPow(bundles, k)
  BY MergedPowLemma DEF MergedBody, Body
<1>2. merged.body = MergedBody(bundles)
  BY DEF Merges
<1>3. merged \in Bundle
  BY <1>1, BodyTypes DEF Merges, Bundle
<1> QED
  BY <1>1, <1>2, <1>3

\* heal_post_bundle_feedbacks sends entries of the merge, to servers of bundles.
LEMMA HealWorkLemma ==
    ASSUME NEW w \in Walk, NEW merged \in Body
    PROVE  /\ HealWork(w, merged) \subseteq Message
           /\ \A m \in HealWork(w, merged), k \in Key : m.body[k] \in {0, merged[k]}
           /\ \A b \in ToSet(w.bundles), k \in Key :
                 Len(w.bundles) >= 2 /\ b.peer \in w.visited /\ WeakerAt(b, merged, k) =>
                     \E m \in HealWork(w, merged) : m.server = b.peer /\ m.body[k] = merged[k]
<1> DEFINE Sent(b) == [server |-> b.peer,
                       body |-> [k \in Key |-> IF WeakerAt(b, merged, k) THEN merged[k] ELSE 0]]
<1>1. ToSet(w.bundles) \subseteq Bundle
  BY DEF Walk, ToSet
<1>2. ASSUME NEW b \in Bundle
      PROVE  /\ Sent(b) \in Message
             /\ \A k \in Key : Sent(b).body[k] = IF WeakerAt(b, merged, k) THEN merged[k] ELSE 0
  <2>1. \A k \in Key : merged[k] \in 0 .. MaxPow /\ 0 \in 0 .. MaxPow
    BY BodyTypes
  <2>2. [k \in Key |-> IF WeakerAt(b, merged, k) THEN merged[k] ELSE 0] \in Body
    BY <2>1 DEF Body
  <2> QED
    BY <2>2, BodyTypes DEF Message
<1>3. HealWork(w, merged) = {Sent(b) : b \in {b \in ToSet(w.bundles) :
                  /\ Len(w.bundles) >= 2
                  /\ b.peer \in w.visited
                  /\ \E k \in Key : WeakerAt(b, merged, k)}}
  BY DEF HealWork
<1> HIDE DEF Sent
<1>4. \A b : Sent(b).server = b.peer
  BY DEF Sent
<1> QED
  BY <1>1, <1>2, <1>3, <1>4

-----------------------------------------------------------------------------
(***************************************************************************)
(* The inductive invariant.                                                *)
(***************************************************************************)

\* What a heal was to bring a server up to is stored there, or is about to be put, or is
\* still on its way.  (A heal that meets a server without the post takes its claim back.)
GoalBacked(s, k) ==
    \/ goal[s][k] <= feedback[s][k]
    \/ goal[s][k] <= pending[s][k]
    \/ \E m \in heals : m.server = s /\ goal[s][k] <= m.body[k]

GoalsBacked == \A s \in Server, k \in Key : GoalBacked(s, k)

\* A server whose rows are about to be deleted owes nothing, and no walk that asked it
\* will claim anything for it.
DeletionSpoils ==
    \A s \in Server : deleting[s] # Idle =>
        /\ goal[s] = NoEntries
        /\ \A c \in Client : walk[c] # None /\ s \in walk[c].visited => s \in walk[c].spoiled

\* Of a server that a walk asked and that has not been spoiled since, the walk has a bundle
\* with nothing stronger than what the server stores.
AnswersHold ==
    \A c \in Client : walk[c] # None =>
        \A s \in walk[c].visited \ walk[c].spoiled :
            \E b \in ToSet(walk[c].bundles) :
                b.peer = s /\ \A k \in Key : b.body[k] <= feedback[s][k]

\* Every entry of a body was submitted.
Genuine(body, S) == \A k \in Key : body[k] # 0 => <<k, body[k]>> \in S

\* OnlySubmitted, place by place.
AllGenuine ==
    /\ \A s \in Server : Genuine(feedback[s], submitted) /\ Genuine(pending[s], submitted)
    /\ \A s \in Server : cache[s] # None => Genuine(cache[s].body, submitted)
    /\ \A c \in Client : walk[c] # None =>
          \A b \in ToSet(walk[c].bundles) : Genuine(b.body, submitted)
    /\ \A u \in uploads : Genuine(u.bundle.body, submitted)
    /\ \A m \in heals : Genuine(m.body, submitted)

IInv == TypeOK /\ AllGenuine /\ GoalsBacked /\ DeletionSpoils /\ AnswersHold

-----------------------------------------------------------------------------
(***************************************************************************)
(* Walks.                                                                  *)
(***************************************************************************)

\* A walk is not None, and neither is a bundle.
LEMMA NoneDistinct ==
    /\ \A w \in Walk : w # None
    /\ \A b \in Bundle : b # None
BY NoneAssumption

\* The elements of two sequences one after the other.
LEMMA ToSetConcat ==
    ASSUME NEW S, NEW s \in Seq(S), NEW t \in Seq(S)
    PROVE  s \o t \in Seq(S) /\ ToSet(s \o t) = ToSet(s) \cup ToSet(t)
<1>1. s \o t \in Seq(S) /\ Len(s \o t) = Len(s) + Len(t)
  OBVIOUS
<1>2. \A i \in 1 .. Len(s) : (s \o t)[i] = s[i]
  OBVIOUS
<1>3. \A i \in 1 .. Len(t) : (s \o t)[Len(s) + i] = t[i]
  OBVIOUS
<1>4. \A i \in 1 .. Len(s) + Len(t) :
        i \in 1 .. Len(s) \/ \E j \in 1 .. Len(t) : i = Len(s) + j
  <2> TAKE i \in 1 .. Len(s) + Len(t)
  <2>1. Len(s) \in Nat /\ Len(t) \in Nat
    OBVIOUS
  <2>2. CASE i <= Len(s)
    BY <2>1, <2>2
  <2>3. CASE i > Len(s)
    <3>1. i - Len(s) \in 1 .. Len(t) /\ i = Len(s) + (i - Len(s))
      BY <2>1, <2>3
    <3> QED
      BY <3>1
  <2> QED
    BY <2>1, <2>2, <2>3
<1>5. /\ DOMAIN s = 1 .. Len(s) /\ DOMAIN t = 1 .. Len(t)
      /\ DOMAIN (s \o t) = 1 .. Len(s) + Len(t)
  BY <1>1
<1>6. \A i \in 1 .. Len(s) : i \in 1 .. Len(s) + Len(t)
  OBVIOUS
<1>7. \A i \in 1 .. Len(t) : Len(s) + i \in 1 .. Len(s) + Len(t)
  OBVIOUS
<1>8. ToSet(s \o t) \subseteq ToSet(s) \cup ToSet(t)
  <2> SUFFICES ASSUME NEW i \in 1 .. Len(s) + Len(t) PROVE (s \o t)[i] \in ToSet(s) \cup ToSet(t)
    BY <1>5 DEF ToSet
  <2>1. CASE i \in 1 .. Len(s)
    BY <1>2, <1>5, <2>1 DEF ToSet
  <2>2. CASE \E j \in 1 .. Len(t) : i = Len(s) + j
    BY <1>3, <1>5, <2>2 DEF ToSet
  <2> QED
    BY <1>4, <2>1, <2>2
<1>9. ToSet(s) \subseteq ToSet(s \o t)
  BY <1>2, <1>5, <1>6 DEF ToSet
<1>10. ToSet(t) \subseteq ToSet(s \o t)
  BY <1>3, <1>5, <1>7 DEF ToSet
<1> QED
  BY <1>1, <1>8, <1>9, <1>10

\* What one more peer adds to a walk.
LEMMA AnswerLemma ==
    ASSUME TypeOK, NEW c \in Client, NEW s \in Server, GetPostBundleFeedback(c, s)
    PROVE  \E token \in BOOLEAN, w \in Walk :
             /\ walk' = [walk EXCEPT ![c] = w]
             /\ w.visited = walk[c].visited \cup {s}
             /\ w.spoiled = IF deleting[s] = Idle /\ known[s] THEN walk[c].spoiled
                            ELSE walk[c].spoiled \cup {s}
             /\ ToSet(w.bundles) = ToSet(walk[c].bundles)
                                   \cup ToSet(CachedItems(s, Retrieved(walk[c])))
                                   \cup ToSet(OwnBundle(s))
<1> DEFINE v == walk[c]
           items == CachedItems(s, Retrieved(v))
           own == OwnBundle(s)
<1>1. v \in Walk
  BY NoneDistinct DEF GetPostBundleFeedback, TypeOK
<1>2. items \in Seq(Bundle) /\ own \in Seq(Bundle)
  <2>1. items \in Seq(Bundle)
    BY DEF CachedItems, TypeOK
  <2>2. own \in Seq(Bundle)
    <3>1. [peer |-> s, hash |-> feedback[s], body |-> feedback[s], sorted |-> TRUE] \in Bundle
      BY DEF TypeOK, Bundle
    <3> QED
      BY <3>1 DEF OwnBundle
  <2> QED
    BY <2>1, <2>2
<1>3. PICK token \in BOOLEAN :
        walk' = [walk EXCEPT ![c] =
                  [v EXCEPT !.visited = @ \cup {s},
                            !.tokens = IF token THEN @ \cup {s} ELSE @,
                            !.spoiled = IF deleting[s] = Idle /\ known[s] THEN @ ELSE @ \cup {s},
                            !.bundles = @ \o items \o own]]
  BY DEF GetPostBundleFeedback
<1> DEFINE all == v.bundles \o items \o own
           w == [v EXCEPT !.visited = @ \cup {s},
                          !.tokens = IF token THEN @ \cup {s} ELSE @,
                          !.spoiled = IF deleting[s] = Idle /\ known[s] THEN @ ELSE @ \cup {s},
                          !.bundles = @ \o items \o own]
<1>4. v.bundles \in Seq(Bundle)
  BY <1>1 DEF Walk
<1> HIDE DEF items, own
<1>5. all \in Seq(Bundle) /\ ToSet(all) = ToSet(v.bundles) \cup ToSet(items) \cup ToSet(own)
  <2> DEFINE first == v.bundles \o items
  <2>1. first \in Seq(Bundle) /\ ToSet(first) = ToSet(v.bundles) \cup ToSet(items)
    BY <1>2, <1>4, ToSetConcat
  <2> HIDE DEF first
  <2>2. first \o own \in Seq(Bundle) /\ ToSet(first \o own) = ToSet(first) \cup ToSet(own)
    BY <1>2, <2>1, ToSetConcat
  <2> QED
    BY <2>1, <2>2 DEF first
<1> HIDE DEF all
<1>6. /\ w \in Walk
      /\ w.visited = v.visited \cup {s}
      /\ w.spoiled = IF deleting[s] = Idle /\ known[s] THEN v.spoiled ELSE v.spoiled \cup {s}
      /\ w.bundles = all
  BY <1>1, <1>5 DEF Walk, all
<1> QED
  BY <1>3, <1>5, <1>6 DEF items, own
\* A walk that ends without a bundle changes nothing but itself; one with bundles
\* merges them.
LEMMA EndWalkLemma ==
    ASSUME TypeOK, NEW c \in Client, EndWalk(c)
    PROVE  /\ walk[c] \in Walk /\ ToSet(walk[c].bundles) \subseteq Bundle
           /\ \/ UNCHANGED <<heals, uploads, goal>>
              \/ /\ ToSet(walk[c].bundles) # {}
                 /\ \E merged \in Merges(ToSet(walk[c].bundles)) :
                    /\ heals' = heals \cup HealWork(walk[c], merged.body)
                    /\ uploads' = uploads
                          \cup {[server |-> s, bundle |-> merged] : s \in walk[c].tokens}
                    /\ goal' = [s \in Server |->
                          IF s \in (walk[c].visited \cap Retrieved(walk[c])) \ walk[c].spoiled
                          THEN merged.body ELSE goal[s]]
<1>1. walk[c] \in Walk
  BY DEF EndWalk, TypeOK
<1>2. ToSet(walk[c].bundles) \subseteq Bundle
  BY <1>1 DEF Walk, ToSet
<1>3. \A merged : merged \notin Merges({})
  BY DEF Merges
<1> QED
  BY <1>1, <1>2, <1>3 DEF EndWalk

-----------------------------------------------------------------------------
(***************************************************************************)
(* Types.                                                                  *)
(***************************************************************************)

\* The state stays within its types, whatever step is taken.
LEMMA TypeStep ==
    ASSUME TypeOK, [Next]_vars
    PROVE  TypeOK'
<1> USE DEF stores, clients, history, TypeOK
<1>1. ASSUME NEW s \in Server, NEW p \in Post, StorePost(s, p) PROVE TypeOK'
  BY <1>1 DEF StorePost
<1>2. ASSUME NEW s \in Server, NEW k \in Key, NEW pow \in Pow, SubmitPostFeedback(s, k, pow)
      PROVE  TypeOK'
  <2>1. pow \in 0 .. MaxPow /\ 0 \in 0 .. MaxPow
    BY FeedbackAssumption DEF Pow
  <2>2. pending' \in [Server -> Body]
    BY <1>2, <2>1 DEF SubmitPostFeedback, Body
  <2> QED
    BY <1>2, <2>2 DEF SubmitPostFeedback
<1>3. ASSUME NEW s \in Server, NEW k \in Key, PutPostFeedback(s, k) PROVE TypeOK'
  <2>1. 0 \in 0 .. MaxPow /\ MorePowerful(s, k, pending[s][k]) \in 0 .. MaxPow
    BY FeedbackAssumption DEF MorePowerful, Body
  <2>2. pending' \in [Server -> Body] /\ feedback' \in [Server -> Body]
    BY <1>3, <2>1 DEF PutPostFeedback, Body
  <2> QED
    BY <1>3, <2>2 DEF PutPostFeedback
<1>4. ASSUME NEW m \in heals, HealPostBundleFeedback(m) PROVE TypeOK'
  <2>1. m.server \in Server /\ m.body \in Body /\ 0 \in 0 .. MaxPow
    BY FeedbackAssumption DEF Message
  <2>2. [k \in Key |-> IF k[1] \in posts[m.server] THEN m.body[k] ELSE 0] \in Body
    BY <2>1 DEF Body
  <2>3. [k \in Key |-> IF k[1] \in posts[m.server] \/ m.body[k] = 0
                       THEN goal[m.server][k] ELSE 0] \in Body
    BY <2>1 DEF Body
  <2>4. pending' \in [Server -> Body] /\ goal' \in [Server -> Body]
    BY <1>4, <2>2, <2>3 DEF HealPostBundleFeedback
  <2> QED
    BY <1>4, <2>4 DEF HealPostBundleFeedback
<1>5. ASSUME NEW u \in uploads, CachePostBundleFeedback(u) PROVE TypeOK'
  BY <1>5 DEF CachePostBundleFeedback, Upload
<1>6. ASSUME NEW s \in Server, CacheExpires(s) PROVE TypeOK'
  BY <1>6 DEF CacheExpires
<1>7. ASSUME NEW s \in Server, CollectFeedbackKeys(s) PROVE TypeOK'
  <2>1. deleting' \in [Server -> Deletion]
    BY <1>7 DEF CollectFeedbackKeys, Deletion
  <2>2. goal' \in [Server -> Body]
    BY <1>7, BodyTypes DEF CollectFeedbackKeys
  <2>3. \A w \in Walk : [w EXCEPT !.spoiled = @ \cup {s}] \in Walk
    BY DEF Walk
  <2>4. walk' \in [Client -> Walk \cup {None}]
    BY <1>7, <2>3 DEF CollectFeedbackKeys
  <2> QED
    BY <1>7, <2>1, <2>2, <2>4 DEF CollectFeedbackKeys, Fault
<1>8. ASSUME NEW s \in Server, DeleteFile(s) PROVE TypeOK'
  <2>1. [deleting[s] EXCEPT !.stage = "rows"] \in Deletion
    BY <1>8 DEF DeleteFile, Deletion, Idle
  <2>2. deleting' \in [Server -> Deletion]
    BY <1>8, <2>1 DEF DeleteFile
  <2> QED
    BY <1>8, <2>2 DEF DeleteFile
<1>9. ASSUME NEW s \in Server, DeleteRows(s) PROVE TypeOK'
  <2>1. [k \in Key |-> IF k \in deleting[s].keys THEN 0 ELSE feedback[s][k]] \in Body
    BY FeedbackAssumption DEF Body
  <2>2. deleting' \in [Server -> Deletion] /\ feedback' \in [Server -> Body]
    BY <1>9, <2>1 DEF DeleteRows, Deletion
  <2> QED
    BY <1>9, <2>2 DEF DeleteRows
<1>10. ASSUME NEW s \in Server, Restart(s) PROVE TypeOK'
  <2>1. deleting' \in [Server -> Deletion]
    BY <1>10 DEF Restart, Deletion
  <2>2. goal' \in [Server -> Body] /\ pending' \in [Server -> Body]
    BY <1>10, BodyTypes DEF Restart
  <2> QED
    BY <1>10, <2>1, <2>2 DEF Restart, Fault
<1>11. ASSUME NEW c \in Client, StartWalk(c) PROVE TypeOK'
  <2>1. [visited |-> {}, tokens |-> {}, spoiled |-> {}, bundles |-> << >>] \in Walk
    BY DEF Walk
  <2>2. walk' \in [Client -> Walk \cup {None}]
    BY <1>11, <2>1 DEF StartWalk
  <2> QED
    BY <1>11, <2>2 DEF StartWalk
<1>12. ASSUME NEW c \in Client, NEW s \in Server, GetPostBundleFeedback(c, s) PROVE TypeOK'
  <2>1. PICK w \in Walk : walk' = [walk EXCEPT ![c] = w]
    BY <1>12, AnswerLemma
  <2>2. walk' \in [Client -> Walk \cup {None}]
    BY <2>1
  <2> QED
    BY <1>12, <2>2 DEF GetPostBundleFeedback
<1>13. ASSUME NEW c \in Client, EndWalk(c) PROVE TypeOK'
  <2>1. walk' \in [Client -> Walk \cup {None}]
    BY <1>13 DEF EndWalk
  <2>2. walk[c] \in Walk /\ ToSet(walk[c].bundles) \subseteq Bundle
    BY <1>13, EndWalkLemma
  <2>3. CASE UNCHANGED <<heals, uploads, goal>>
    BY <1>13, <2>1, <2>3 DEF EndWalk
  <2>4. ASSUME ToSet(walk[c].bundles) # {}, NEW merged \in Merges(ToSet(walk[c].bundles)),
               heals' = heals \cup HealWork(walk[c], merged.body),
               uploads' = uploads \cup {[server |-> s, bundle |-> merged] : s \in walk[c].tokens},
               goal' = [s \in Server |->
                    IF s \in (walk[c].visited \cap Retrieved(walk[c])) \ walk[c].spoiled
                    THEN merged.body ELSE goal[s]]
        PROVE  TypeOK'
    <3>1. merged \in Bundle /\ merged.body \in Body
      BY <2>2, <2>4, MergesLemma
    <3>2. heals' \subseteq Message
      BY <2>2, <2>4, <3>1, HealWorkLemma
    <3>3. uploads' \subseteq Upload
      BY <2>2, <2>4, <3>1 DEF Upload, Walk
    <3>4. goal' \in [Server -> Body]
      BY <2>4, <3>1
    <3> QED
      BY <1>13, <2>1, <3>2, <3>3, <3>4 DEF EndWalk
  <2> QED
    BY <1>13, <2>3, <2>4, EndWalkLemma
<1>14. ASSUME NEW m \in heals, HealLost(m) PROVE TypeOK'
  <2>1. goal' \in [Server -> Body]
    BY <1>14, BodyTypes DEF HealLost
  <2> QED
    BY <1>14, <2>1 DEF HealLost
<1>15. ASSUME NEW u \in uploads, UploadLost(u) PROVE TypeOK'
  BY <1>15 DEF UploadLost
<1>16. CASE UNCHANGED vars
  BY <1>16 DEF vars
<1> QED
  BY <1>1, <1>2, <1>3, <1>4, <1>5, <1>6, <1>7, <1>8, <1>9, <1>10, <1>11, <1>12, <1>13,
     <1>14, <1>15, <1>16 DEF Next
-----------------------------------------------------------------------------
(***************************************************************************)
(* Feedback is never made up.                                              *)
(***************************************************************************)

\* Saying it place by place is saying it of all bundles.
LEMMA GenuineIsSubmitted == AllGenuine => OnlySubmitted
<1>1. \A body, S : Genuine(body, S) => Entries(body) \subseteq S
  BY DEF Genuine, Entries
<1> HIDE DEF Genuine, Entries
<1> SUFFICES ASSUME AllGenuine PROVE OnlySubmitted
  OBVIOUS
<1>2. \A s \in Server : Entries(feedback[s]) \cup Entries(pending[s]) \subseteq submitted
  BY <1>1 DEF AllGenuine
<1>3. \A b \in Bundles : Entries(b.body) \subseteq submitted
  <2> DEFINE cached == {cache[s] : s \in Server} \ {None}
             walked == UNION {ToSet(walk[c].bundles) : c \in {c \in Client : walk[c] # None}}
             sent == {u.bundle : u \in uploads}
  <2>1. \A b \in cached : Entries(b.body) \subseteq submitted
    BY <1>1 DEF AllGenuine
  <2>2. \A b \in walked : Entries(b.body) \subseteq submitted
    BY <1>1 DEF AllGenuine
  <2>3. \A b \in sent : Entries(b.body) \subseteq submitted
    BY <1>1 DEF AllGenuine
  <2>4. Bundles = cached \cup walked \cup sent
    BY DEF Bundles
  <2> HIDE DEF cached, walked, sent
  <2> QED
    BY <2>1, <2>2, <2>3, <2>4
<1>4. \A m \in heals : Entries(m.body) \subseteq submitted
  BY <1>1 DEF AllGenuine
<1> QED
  BY <1>2, <1>3, <1>4 DEF OnlySubmitted

\* A body stays genuine when more is submitted, the empty body is, and one whose entries
\* come from genuine bodies or are missing is.
LEMMA GenuineLemma ==
    /\ \A body, S, T : S \subseteq T /\ Genuine(body, S) => Genuine(body, T)
    /\ \A S : Genuine(NoEntries, S)
    /\ \A body, S, k : Genuine(body, S) /\ k \in Key /\ body[k] # 0 => <<k, body[k]>> \in S
    /\ \A body, S : (\A k \in Key : body[k] # 0 => <<k, body[k]>> \in S) => Genuine(body, S)
BY DEF Genuine, NoEntries

\* A merge of genuine bundles is genuine.
LEMMA MergeGenuine ==
    ASSUME NEW bundles \in SUBSET Bundle, bundles # {}, NEW merged \in Merges(bundles), NEW S,
           \A b \in bundles : Genuine(b.body, S)
    PROVE  Genuine(merged.body, S)
<1> SUFFICES ASSUME NEW k \in Key, merged.body[k] # 0
             PROVE  <<k, merged.body[k]>> \in S
  BY DEF Genuine
<1>1. merged.body[k] = MergedPow(bundles, k)
  BY MergesLemma
<1>2. PICK b \in bundles : MergedPow(bundles, k) = b.body[k]
  BY MergedPowLemma
<1> QED
  BY <1>1, <1>2 DEF Genuine

\* No step makes up feedback.
LEMMA GenuineStep ==
    ASSUME TypeOK, AllGenuine, [Next]_vars
    PROVE  AllGenuine'
<1> USE DEF stores, clients, history
<1>1. ASSUME NEW s \in Server, NEW p \in Post, StorePost(s, p) PROVE AllGenuine'
  BY <1>1 DEF StorePost, AllGenuine
<1>2. ASSUME NEW s \in Server, NEW k \in Key, NEW pow \in Pow, SubmitPostFeedback(s, k, pow)
      PROVE  AllGenuine'
  <2>1. submitted \subseteq submitted' /\ <<k, pow>> \in submitted'
    BY <1>2 DEF SubmitPostFeedback
  <2>2. \A body : Genuine(body, submitted) => Genuine(body, submitted')
    BY <2>1, GenuineLemma
  <2>3. Genuine(pending'[s], submitted')
    <3>1. /\ pending'[s][k] \in {0, pow}
          /\ \A l \in Key : l # k => pending'[s][l] = pending[s][l]
      BY <1>2 DEF SubmitPostFeedback, TypeOK, Body
    <3>2. Genuine(pending[s], submitted)
      BY DEF AllGenuine
    <3> QED
      BY <2>1, <3>1, <3>2 DEF Genuine
  <2>4. \A r \in Server : r # s => pending'[r] = pending[r]
    BY <1>2 DEF SubmitPostFeedback, TypeOK
  <2>5. \A r \in Server : Genuine(pending'[r], submitted')
    BY <2>2, <2>3, <2>4 DEF AllGenuine
  <2> QED
    BY <1>2, <2>2, <2>5 DEF SubmitPostFeedback, AllGenuine
<1>3. ASSUME NEW s \in Server, NEW k \in Key, PutPostFeedback(s, k) PROVE AllGenuine'
  <2>1. Genuine(pending[s], submitted) /\ Genuine(feedback[s], submitted)
    BY DEF AllGenuine
  <2>2. /\ pending'[s][k] = 0 /\ feedback'[s][k] \in {feedback[s][k], pending[s][k]}
        /\ \A l \in Key : l # k => /\ pending'[s][l] = pending[s][l]
                                   /\ feedback'[s][l] = feedback[s][l]
    BY <1>3 DEF PutPostFeedback, MorePowerful, TypeOK, Body
  <2>3. Genuine(pending'[s], submitted) /\ Genuine(feedback'[s], submitted)
    BY <2>1, <2>2 DEF Genuine
  <2>4. \A r \in Server : r # s => pending'[r] = pending[r] /\ feedback'[r] = feedback[r]
    BY <1>3 DEF PutPostFeedback, TypeOK
  <2>5. \A r \in Server : Genuine(pending'[r], submitted) /\ Genuine(feedback'[r], submitted)
    BY <2>3, <2>4 DEF AllGenuine
  <2> QED
    BY <1>3, <2>5 DEF PutPostFeedback, AllGenuine
<1>4. ASSUME NEW m \in heals, HealPostBundleFeedback(m) PROVE AllGenuine'
  <2>1. m.server \in Server /\ Genuine(m.body, submitted)
    BY DEF AllGenuine, TypeOK, Message
  <2>2. \A k \in Key : pending'[m.server][k] \in {0, m.body[k]}
    BY <1>4, <2>1 DEF HealPostBundleFeedback, TypeOK
  <2>3. Genuine(pending'[m.server], submitted)
    BY <2>1, <2>2 DEF Genuine
  <2>4. \A r \in Server : r # m.server => pending'[r] = pending[r]
    BY <1>4 DEF HealPostBundleFeedback, TypeOK
  <2>5. \A r \in Server : Genuine(pending'[r], submitted)
    BY <2>3, <2>4 DEF AllGenuine
  <2> QED
    BY <1>4, <2>5 DEF HealPostBundleFeedback, AllGenuine
<1>5. ASSUME NEW u \in uploads, CachePostBundleFeedback(u) PROVE AllGenuine'
  <2>1. \A r \in Server : cache'[r] \in {cache[r], u.bundle}
    BY <1>5 DEF CachePostBundleFeedback, TypeOK
  <2>2. \A r \in Server : cache'[r] # None => Genuine(cache'[r].body, submitted)
    BY <2>1 DEF AllGenuine
  <2> QED
    BY <1>5, <2>2 DEF CachePostBundleFeedback, AllGenuine
<1>6. ASSUME NEW s \in Server, CacheExpires(s) PROVE AllGenuine'
  BY <1>6 DEF CacheExpires, AllGenuine, TypeOK
<1>7. ASSUME NEW s \in Server, CollectFeedbackKeys(s) PROVE AllGenuine'
  <2>1. \A c \in Client : walk'[c] # None =>
          walk[c] # None /\ walk'[c].bundles = walk[c].bundles
    BY <1>7 DEF CollectFeedbackKeys, TypeOK, Walk
  <2> QED
    BY <1>7, <2>1 DEF CollectFeedbackKeys, AllGenuine
<1>8. ASSUME NEW s \in Server, DeleteFile(s) PROVE AllGenuine'
  BY <1>8 DEF DeleteFile, AllGenuine
<1>9. ASSUME NEW s \in Server, DeleteRows(s) PROVE AllGenuine'
  <2>1. \A k \in Key : feedback'[s][k] \in {0, feedback[s][k]}
    BY <1>9 DEF DeleteRows, TypeOK
  <2>2. Genuine(feedback'[s], submitted)
    BY <2>1 DEF Genuine, AllGenuine
  <2>3. \A r \in Server : r # s => feedback'[r] = feedback[r]
    BY <1>9 DEF DeleteRows, TypeOK
  <2>4. \A r \in Server : Genuine(feedback'[r], submitted)
    BY <2>2, <2>3 DEF AllGenuine
  <2> QED
    BY <1>9, <2>4 DEF DeleteRows, AllGenuine
<1>10. ASSUME NEW s \in Server, Restart(s) PROVE AllGenuine'
  <2>1. \A r \in Server : pending'[r] \in {NoEntries, pending[r]} /\ cache'[r] \in {None, cache[r]}
    BY <1>10 DEF Restart, TypeOK
  <2>2. \A r \in Server : /\ Genuine(pending'[r], submitted)
                          /\ cache'[r] # None => Genuine(cache'[r].body, submitted)
    BY <2>1, GenuineLemma DEF AllGenuine
  <2> QED
    BY <1>10, <2>2 DEF Restart, AllGenuine
<1>11. ASSUME NEW c \in Client, StartWalk(c) PROVE AllGenuine'
  <2>1. ToSet(walk'[c].bundles) = {}
    BY <1>11 DEF StartWalk, TypeOK, ToSet
  <2>2. \A d \in Client : d # c => walk'[d] = walk[d]
    BY <1>11 DEF StartWalk, TypeOK
  <2>3. \A d \in Client : walk'[d] # None =>
          \A b \in ToSet(walk'[d].bundles) : Genuine(b.body, submitted)
    BY <2>1, <2>2 DEF AllGenuine
  <2> QED
    BY <1>11, <2>3 DEF StartWalk, AllGenuine
<1>12. ASSUME NEW c \in Client, NEW s \in Server, GetPostBundleFeedback(c, s) PROVE AllGenuine'
  <2>1. PICK w \in Walk :
          /\ walk' = [walk EXCEPT ![c] = w]
          /\ ToSet(w.bundles) = ToSet(walk[c].bundles)
                                \cup ToSet(CachedItems(s, Retrieved(walk[c])))
                                \cup ToSet(OwnBundle(s))
    BY <1>12, AnswerLemma
  <2>2. \A b \in ToSet(walk[c].bundles) : Genuine(b.body, submitted)
    BY <1>12 DEF GetPostBundleFeedback, AllGenuine
  <2>3. \A b \in ToSet(CachedItems(s, Retrieved(walk[c]))) : Genuine(b.body, submitted)
    <3>1. ToSet(CachedItems(s, Retrieved(walk[c]))) \subseteq {cache[s]} \ {None}
      BY DEF CachedItems, ToSet
    <3> QED
      BY <3>1 DEF AllGenuine
  <2>4. \A b \in ToSet(OwnBundle(s)) : Genuine(b.body, submitted)
    <3>1. \A b \in ToSet(OwnBundle(s)) : b.body = feedback[s]
      BY DEF OwnBundle, ToSet
    <3> QED
      BY <3>1 DEF AllGenuine
  <2>5. \A b \in ToSet(w.bundles) : Genuine(b.body, submitted)
    BY <2>1, <2>2, <2>3, <2>4
  <2>6. \A d \in Client : walk'[d] = IF d = c THEN w ELSE walk[d]
    BY <2>1 DEF TypeOK
  <2>7. \A d \in Client : walk'[d] # None =>
          \A b \in ToSet(walk'[d].bundles) : Genuine(b.body, submitted)
    BY <2>5, <2>6 DEF AllGenuine
  <2> QED
    BY <1>12, <2>7 DEF GetPostBundleFeedback, AllGenuine
<1>13. ASSUME NEW c \in Client, EndWalk(c) PROVE AllGenuine'
  <2>1. \A d \in Client : walk'[d] \in {None, walk[d]}
    BY <1>13 DEF EndWalk, TypeOK
  <2>2. \A d \in Client : walk'[d] # None =>
          \A b \in ToSet(walk'[d].bundles) : Genuine(b.body, submitted)
    BY <2>1 DEF AllGenuine
  <2>3. /\ \A u \in uploads' : Genuine(u.bundle.body, submitted)
        /\ \A m \in heals' : Genuine(m.body, submitted)
    <3>1. CASE UNCHANGED <<heals, uploads, goal>>
      BY <3>1 DEF AllGenuine
    <3>2. ASSUME ToSet(walk[c].bundles) # {}, NEW merged \in Merges(ToSet(walk[c].bundles)),
                 heals' = heals \cup HealWork(walk[c], merged.body),
                 uploads' = uploads
                    \cup {[server |-> s, bundle |-> merged] : s \in walk[c].tokens}
          PROVE  /\ \A u \in uploads' : Genuine(u.bundle.body, submitted)
                 /\ \A m \in heals' : Genuine(m.body, submitted)
      <4>1. walk[c] \in Walk /\ ToSet(walk[c].bundles) \subseteq Bundle
        BY <1>13, EndWalkLemma
      <4>2. walk[c] # None /\ \A b \in ToSet(walk[c].bundles) : Genuine(b.body, submitted)
        BY <1>13 DEF EndWalk, AllGenuine
      <4>3. Genuine(merged.body, submitted) /\ merged.body \in Body
        BY <3>2, <4>1, <4>2, MergeGenuine, MergesLemma
      <4>4. \A u \in uploads' : u \in uploads \/ u.bundle = merged
        BY <3>2
      <4>5. \A m \in HealWork(walk[c], merged.body), k \in Key : m.body[k] \in {0, merged.body[k]}
        BY <4>1, <4>3, HealWorkLemma
      <4>6. \A m \in HealWork(walk[c], merged.body) : Genuine(m.body, submitted)
        BY <4>3, <4>5 DEF Genuine
      <4> QED
        BY <3>2, <4>3, <4>4, <4>6 DEF AllGenuine
    <3> QED
      BY <1>13, <3>1, <3>2, EndWalkLemma
  <2> QED
    BY <1>13, <2>2, <2>3 DEF EndWalk, AllGenuine
<1>14. ASSUME NEW m \in heals, HealLost(m) PROVE AllGenuine'
  BY <1>14 DEF HealLost, AllGenuine
<1>15. ASSUME NEW u \in uploads, UploadLost(u) PROVE AllGenuine'
  BY <1>15 DEF UploadLost, AllGenuine
<1>16. CASE UNCHANGED vars
  BY <1>16 DEF vars, AllGenuine
<1> QED
  BY <1>1, <1>2, <1>3, <1>4, <1>5, <1>6, <1>7, <1>8, <1>9, <1>10, <1>11, <1>12, <1>13,
     <1>14, <1>15, <1>16 DEF Next
-----------------------------------------------------------------------------
(***************************************************************************)
(* What heals are to bring about.                                          *)
(***************************************************************************)

\* While the rows of a server are being deleted nothing is claimed for it.
LEMMA DeletionStep ==
    ASSUME TypeOK, DeletionSpoils, [Next]_vars
    PROVE  DeletionSpoils'
<1> USE DEF stores, clients, history
<1>1. ASSUME NEW s \in Server, NEW p \in Post, StorePost(s, p) PROVE DeletionSpoils'
  BY <1>1 DEF StorePost, DeletionSpoils
<1>2. ASSUME NEW s \in Server, NEW k \in Key, NEW pow \in Pow, SubmitPostFeedback(s, k, pow)
      PROVE  DeletionSpoils'
  BY <1>2 DEF SubmitPostFeedback, DeletionSpoils
<1>3. ASSUME NEW s \in Server, NEW k \in Key, PutPostFeedback(s, k) PROVE DeletionSpoils'
  BY <1>3 DEF PutPostFeedback, DeletionSpoils
<1>4. ASSUME NEW m \in heals, HealPostBundleFeedback(m) PROVE DeletionSpoils'
  <2>1. ASSUME NEW r \in Server, goal[r] = NoEntries PROVE goal'[r] = NoEntries
    <3>1. CASE r # m.server
      BY <1>4, <2>1, <3>1 DEF HealPostBundleFeedback, TypeOK
    <3>2. CASE r = m.server
      <4>1. goal'[r] = [k \in Key |-> IF k[1] \in posts[r] \/ m.body[k] = 0 THEN goal[r][k] ELSE 0]
        BY <1>4, <3>2 DEF HealPostBundleFeedback, TypeOK
      <4> QED
        BY <2>1, <4>1 DEF NoEntries
    <3> QED
      BY <3>1, <3>2
  <2> QED
    BY <1>4, <2>1 DEF HealPostBundleFeedback, DeletionSpoils
<1>5. ASSUME NEW u \in uploads, CachePostBundleFeedback(u) PROVE DeletionSpoils'
  BY <1>5 DEF CachePostBundleFeedback, DeletionSpoils
<1>6. ASSUME NEW s \in Server, CacheExpires(s) PROVE DeletionSpoils'
  BY <1>6 DEF CacheExpires, DeletionSpoils
<1>7. ASSUME NEW s \in Server, CollectFeedbackKeys(s) PROVE DeletionSpoils'
  <2>1. \A r \in Server : /\ goal'[r] = IF r = s THEN NoEntries ELSE goal[r]
                          /\ deleting'[r] # Idle => r = s \/ deleting[r] # Idle
    BY <1>7 DEF CollectFeedbackKeys, TypeOK
  <2>2. \A c \in Client : walk'[c] # None =>
          /\ walk[c] # None /\ walk'[c].visited = walk[c].visited
          /\ walk'[c].spoiled = walk[c].spoiled \cup {s}
    BY <1>7 DEF CollectFeedbackKeys, TypeOK, Walk
  <2> QED
    BY <2>1, <2>2 DEF DeletionSpoils
<1>8. ASSUME NEW s \in Server, DeleteFile(s) PROVE DeletionSpoils'
  <2>1. deleting[s] # Idle
    BY <1>8 DEF DeleteFile, Idle
  <2>2. \A r \in Server : r # s => deleting'[r] = deleting[r]
    BY <1>8 DEF DeleteFile, TypeOK
  <2> QED
    BY <1>8, <2>1, <2>2 DEF DeleteFile, DeletionSpoils
<1>9. ASSUME NEW s \in Server, DeleteRows(s) PROVE DeletionSpoils'
  <2>1. \A r \in Server : deleting'[r] \in {Idle, deleting[r]}
    BY <1>9 DEF DeleteRows, TypeOK
  <2> QED
    BY <1>9, <2>1 DEF DeleteRows, DeletionSpoils
<1>10. ASSUME NEW s \in Server, Restart(s) PROVE DeletionSpoils'
  <2>1. \A r \in Server : deleting'[r] \in {Idle, deleting[r]} /\ goal'[r] \in {NoEntries, goal[r]}
    BY <1>10 DEF Restart, TypeOK
  <2> QED
    BY <1>10, <2>1 DEF Restart, DeletionSpoils
<1>11. ASSUME NEW c \in Client, StartWalk(c) PROVE DeletionSpoils'
  <2>1. \A d \in Client : d # c => walk'[d] = walk[d]
    BY <1>11 DEF StartWalk, TypeOK
  <2>2. walk'[c].visited = {}
    BY <1>11 DEF StartWalk, TypeOK
  <2> QED
    BY <1>11, <2>1, <2>2 DEF StartWalk, DeletionSpoils
<1>12. ASSUME NEW c \in Client, NEW s \in Server, GetPostBundleFeedback(c, s)
       PROVE  DeletionSpoils'
  <2>1. PICK w \in Walk :
          /\ walk' = [walk EXCEPT ![c] = w]
          /\ w.visited = walk[c].visited \cup {s}
          /\ w.spoiled = IF deleting[s] = Idle /\ known[s] THEN walk[c].spoiled
                         ELSE walk[c].spoiled \cup {s}
    BY <1>12, AnswerLemma
  <2>2. \A d \in Client : walk'[d] = IF d = c THEN w ELSE walk[d]
    BY <2>1 DEF TypeOK
  <2>3. walk[c] # None /\ UNCHANGED <<goal, deleting>>
    BY <1>12 DEF GetPostBundleFeedback
  <2>4. ASSUME NEW r \in Server, deleting[r] # Idle, r \in w.visited PROVE r \in w.spoiled
    BY <2>1, <2>3, <2>4 DEF DeletionSpoils
  <2> QED
    BY <2>2, <2>3, <2>4 DEF DeletionSpoils
<1>13. ASSUME NEW c \in Client, EndWalk(c) PROVE DeletionSpoils'
  <2>1. \A d \in Client : walk'[d] \in {None, walk[d]}
    BY <1>13 DEF EndWalk, TypeOK
  <2>2. walk[c] # None /\ deleting' = deleting
    BY <1>13 DEF EndWalk
  <2>3. ASSUME NEW r \in Server, deleting[r] # Idle PROVE goal'[r] = NoEntries
    <3>1. goal[r] = NoEntries /\ (r \in walk[c].visited => r \in walk[c].spoiled)
      BY <2>2, <2>3 DEF DeletionSpoils
    <3>2. goal'[r] = goal[r]
      BY <1>13, <3>1, EndWalkLemma
    <3> QED
      BY <3>1, <3>2
  <2> QED
    BY <2>1, <2>2, <2>3 DEF DeletionSpoils
<1>14. ASSUME NEW m \in heals, HealLost(m) PROVE DeletionSpoils'
  <2>1. \A r \in Server : goal'[r] \in {NoEntries, goal[r]}
    BY <1>14 DEF HealLost, TypeOK
  <2> QED
    BY <1>14, <2>1 DEF HealLost, DeletionSpoils
<1>15. ASSUME NEW u \in uploads, UploadLost(u) PROVE DeletionSpoils'
  BY <1>15 DEF UploadLost, DeletionSpoils
<1>16. CASE UNCHANGED vars
  BY <1>16 DEF vars, DeletionSpoils
<1> QED
  BY <1>1, <1>2, <1>3, <1>4, <1>5, <1>6, <1>7, <1>8, <1>9, <1>10, <1>11, <1>12, <1>13,
     <1>14, <1>15, <1>16 DEF Next
\* A step other than the deletion of rows weakens no entry that is stored.
LEMMA FeedbackGrows ==
    ASSUME TypeOK, Next, \A s \in Server : ~DeleteRows(s)
    PROVE  \A s \in Server, k \in Key : feedback[s][k] <= feedback'[s][k]
<1> USE DEF stores, clients, history
<1>1. \A s \in Server, k \in Key : feedback[s][k] \in Int /\ pending[s][k] \in Int
  BY FeedbackAssumption DEF TypeOK, Body
<1>2. CASE feedback' = feedback
  BY <1>1, <1>2
<1>3. ASSUME NEW s \in Server, NEW k \in Key, PutPostFeedback(s, k)
      PROVE  \A r \in Server, l \in Key : feedback[r][l] <= feedback'[r][l]
  <2>1. \A r \in Server, l \in Key :
          feedback'[r][l] = IF r = s /\ l = k THEN MorePowerful(s, k, pending[s][k])
                            ELSE feedback[r][l]
    BY <1>3 DEF PutPostFeedback, TypeOK, Body
  <2>2. feedback[s][k] <= MorePowerful(s, k, pending[s][k])
    BY <1>1 DEF MorePowerful
  <2> QED
    BY <1>1, <2>1, <2>2
<1>4. (\E s \in Server, k \in Key : PutPostFeedback(s, k)) \/ feedback' = feedback
  BY DEF Next, StorePost, SubmitPostFeedback, HealPostBundleFeedback, CachePostBundleFeedback,
         CacheExpires, CollectFeedbackKeys, DeleteFile, Restart, StartWalk,
         GetPostBundleFeedback, EndWalk, HealLost, UploadLost
<1> QED
  BY <1>2, <1>3, <1>4

\* What a walk has of a server that has not been spoiled stays no stronger than what the
\* server stores.
LEMMA AnswersStep ==
    ASSUME TypeOK, DeletionSpoils, AnswersHold, [Next]_vars
    PROVE  AnswersHold'
<1> USE DEF stores, clients, history
<1> DEFINE Answered(w, s, stored) ==
        \E b \in ToSet(w.bundles) : b.peer = s /\ \A k \in Key : b.body[k] <= stored[k]
<1>1. \A c \in Client : walk[c] # None =>
        \A s \in walk[c].visited \ walk[c].spoiled : Answered(walk[c], s, feedback[s])
  BY DEF AnswersHold
<1>2. SUFFICES \A c \in Client : walk'[c] # None =>
        \A s \in walk'[c].visited \ walk'[c].spoiled : Answered(walk'[c], s, feedback'[s])
  BY DEF AnswersHold
<1>3. \A c \in Client : walk[c] # None =>
        walk[c] \in Walk /\ walk[c].visited \subseteq Server /\ ToSet(walk[c].bundles) \subseteq Bundle
  BY DEF TypeOK, Walk, ToSet
<1>4. \A c \in Client : walk[c] # None =>
        \A s \in walk[c].visited \ walk[c].spoiled : Answered(walk[c], s, feedback'[s])
  <2>1. CASE UNCHANGED vars
    BY <1>1, <2>1 DEF vars
  <2>2. ASSUME NEW s \in Server, DeleteRows(s)
        PROVE  \A c \in Client : walk[c] # None =>
                 \A r \in walk[c].visited \ walk[c].spoiled : Answered(walk[c], r, feedback'[r])
    <3>1. deleting[s] # Idle
      BY <2>2 DEF DeleteRows, Idle
    <3>2. \A c \in Client : walk[c] # None => s \notin walk[c].visited \ walk[c].spoiled
      BY <3>1 DEF DeletionSpoils
    <3>3. \A r \in Server : r # s => feedback'[r] = feedback[r]
      BY <2>2 DEF DeleteRows, TypeOK
    <3> QED
      BY <1>1, <1>3, <3>2, <3>3
  <2>3. CASE Next /\ \A s \in Server : ~DeleteRows(s)
    <3>1. \A s \in Server, k \in Key : feedback[s][k] <= feedback'[s][k]
      BY <2>3, FeedbackGrows
    <3>2. \A s \in Server, k \in Key : feedback[s][k] \in Int /\ feedback'[s][k] \in Int
      BY FeedbackAssumption, TypeStep DEF TypeOK, Body
    <3>3. \A b \in Bundle, k \in Key : b.body[k] \in Int
      BY BodyTypes
    <3>4. ASSUME NEW c \in Client, walk[c] # None, NEW s \in walk[c].visited \ walk[c].spoiled
          PROVE  Answered(walk[c], s, feedback'[s])
      <4>1. PICK b \in ToSet(walk[c].bundles) :
              b.peer = s /\ \A k \in Key : b.body[k] <= feedback[s][k]
        BY <1>1, <3>4
      <4>2. s \in Server /\ b \in Bundle
        BY <1>3, <3>4
      <4>3. \A k \in Key : b.body[k] <= feedback'[s][k]
        BY <3>1, <3>2, <3>3, <4>1, <4>2
      <4> QED
        BY <4>1, <4>3
    <3> QED
      BY <3>4
  <2> QED
    BY <2>1, <2>2, <2>3
<1>5. CASE walk' = walk
  BY <1>4, <1>5
<1>6. ASSUME NEW s \in Server, CollectFeedbackKeys(s)
      PROVE  \A c \in Client : walk'[c] # None =>
               \A r \in walk'[c].visited \ walk'[c].spoiled : Answered(walk'[c], r, feedback'[r])
  <2>1. \A c \in Client : walk'[c] # None =>
          /\ walk[c] # None /\ walk'[c].visited = walk[c].visited
          /\ walk'[c].spoiled = walk[c].spoiled \cup {s}
          /\ walk'[c].bundles = walk[c].bundles
    BY <1>6 DEF CollectFeedbackKeys, TypeOK, Walk
  <2> QED
    BY <1>4, <2>1
<1>7. ASSUME NEW c \in Client, StartWalk(c)
      PROVE  \A d \in Client : walk'[d] # None =>
               \A r \in walk'[d].visited \ walk'[d].spoiled : Answered(walk'[d], r, feedback'[r])
  <2>1. walk'[c].visited = {} /\ \A d \in Client : d # c => walk'[d] = walk[d]
    BY <1>7 DEF StartWalk, TypeOK
  <2> QED
    BY <1>4, <2>1
<1>8. ASSUME NEW c \in Client, NEW s \in Server, GetPostBundleFeedback(c, s)
      PROVE  \A d \in Client : walk'[d] # None =>
               \A r \in walk'[d].visited \ walk'[d].spoiled : Answered(walk'[d], r, feedback'[r])
  <2>1. PICK w \in Walk :
          /\ walk' = [walk EXCEPT ![c] = w]
          /\ w.visited = walk[c].visited \cup {s}
          /\ w.spoiled = IF deleting[s] = Idle /\ known[s] THEN walk[c].spoiled
                         ELSE walk[c].spoiled \cup {s}
          /\ ToSet(w.bundles) = ToSet(walk[c].bundles)
                                \cup ToSet(CachedItems(s, Retrieved(walk[c])))
                                \cup ToSet(OwnBundle(s))
    BY <1>8, AnswerLemma
  <2>2. \A d \in Client : walk'[d] = IF d = c THEN w ELSE walk[d]
    BY <2>1 DEF TypeOK
  <2>3. walk[c] # None /\ feedback' = feedback
    BY <1>8 DEF GetPostBundleFeedback
  <2>4. ASSUME s \notin w.spoiled PROVE Answered(w, s, feedback'[s])
    <3>1. known[s]
      BY <2>1, <2>4
    <3> DEFINE own == [peer |-> s, hash |-> feedback[s], body |-> feedback[s], sorted |-> TRUE]
    <3>2. OwnBundle(s) = <<own>>
      BY <3>1 DEF OwnBundle
    <3>3. \A x : x \in ToSet(<<x>>)
      <4> TAKE x
      <4>1. 1 \in DOMAIN <<x>> /\ <<x>>[1] = x
        OBVIOUS
      <4> QED
        BY <4>1 DEF ToSet
    <3>4. own.peer = s /\ own.body = feedback[s]
      OBVIOUS
    <3>5. \A k \in Key : feedback[s][k] <= feedback[s][k]
      BY FeedbackAssumption DEF TypeOK, Body
    <3> HIDE DEF own
    <3> QED
      BY <2>1, <2>3, <3>2, <3>3, <3>4, <3>5
  <2>5. ASSUME NEW r \in w.visited \ w.spoiled PROVE Answered(w, r, feedback'[r])
    <3>1. CASE r = s
      BY <2>4, <2>5, <3>1
    <3>2. CASE r # s
      <4>1. r \in walk[c].visited \ walk[c].spoiled
        BY <2>1, <2>5, <3>2
      <4>2. Answered(walk[c], r, feedback'[r])
        BY <1>4, <2>3, <4>1
      <4> QED
        BY <2>1, <4>2
    <3> QED
      BY <3>1, <3>2
  <2> QED
    BY <1>4, <2>2, <2>5
<1>9. ASSUME NEW c \in Client, EndWalk(c)
      PROVE  \A d \in Client : walk'[d] # None =>
               \A r \in walk'[d].visited \ walk'[d].spoiled : Answered(walk'[d], r, feedback'[r])
  <2>1. \A d \in Client : walk'[d] \in {None, walk[d]}
    BY <1>9 DEF EndWalk, TypeOK
  <2> QED
    BY <1>4, <2>1
<1>10. \/ walk' = walk
       \/ \E s \in Server : CollectFeedbackKeys(s)
       \/ \E c \in Client : StartWalk(c) \/ EndWalk(c)
       \/ \E c \in Client, s \in Server : GetPostBundleFeedback(c, s)
  BY DEF vars, Next, StorePost, SubmitPostFeedback, PutPostFeedback, HealPostBundleFeedback,
         CachePostBundleFeedback, CacheExpires, DeleteFile, DeleteRows, Restart, HealLost,
         UploadLost
<1> HIDE DEF Answered
<1> QED
  BY <1>5, <1>6, <1>7, <1>8, <1>9, <1>10
\* A merge of a single bundle is no stronger than that bundle.
LEMMA MergeNeedsTwo ==
    ASSUME NEW w \in Walk, NEW merged \in Merges(ToSet(w.bundles)),
           NEW b \in ToSet(w.bundles), NEW k \in Key, merged.body[k] > b.body[k]
    PROVE  Len(w.bundles) >= 2
<1>1. w.bundles \in Seq(Bundle) /\ ToSet(w.bundles) \subseteq Bundle
  BY DEF Walk, ToSet
<1>2. merged.body[k] = MergedPow(ToSet(w.bundles), k)
  BY <1>1, MergesLemma
<1>3. PICK d \in ToSet(w.bundles) : MergedPow(ToSet(w.bundles), k) = d.body[k]
  BY <1>1, MergedPowLemma
<1>4. b.body[k] \in Int /\ d.body[k] \in Int
  BY <1>1, BodyTypes
<1>5. d # b
  BY <1>2, <1>3, <1>4
<1>6. PICK i \in 1 .. Len(w.bundles), j \in 1 .. Len(w.bundles) :
        w.bundles[i] = b /\ w.bundles[j] = d
  BY <1>1 DEF ToSet
<1>7. i # j /\ Len(w.bundles) \in Nat
  BY <1>1, <1>5, <1>6
<1> QED
  BY <1>7

\* A step that takes the claim back, or keeps it and weakens nothing that backs it.
StillBacked(s, k) ==
    \/ goal'[s][k] = 0
    \/ /\ goal'[s][k] = goal[s][k]
       /\ feedback[s][k] <= feedback'[s][k]
       /\ \/ pending[s][k] = 0
          \/ pending[s][k] <= pending'[s][k]
          \/ pending[s][k] <= feedback'[s][k]
       /\ \A m \in heals : m.server = s =>
             m \in heals' \/ m.body[k] = 0 \/ m.body[k] <= pending'[s][k]

\* Such a step leaves every claim backed.
LEMMA BackedLemma ==
    ASSUME TypeOK, TypeOK', GoalsBacked, \A s \in Server, k \in Key : StillBacked(s, k)
    PROVE  GoalsBacked'
<1>1. \A s \in Server, k \in Key :
        /\ goal[s][k] \in Nat /\ goal'[s][k] \in Nat
        /\ feedback[s][k] \in Nat /\ feedback'[s][k] \in Nat
        /\ pending[s][k] \in Nat /\ pending'[s][k] \in Nat
  BY FeedbackAssumption DEF TypeOK, Body
<1>2. \A m \in heals, k \in Key : m.body[k] \in Nat
  BY FeedbackAssumption DEF TypeOK, Message, Body
<1> SUFFICES ASSUME NEW s \in Server, NEW k \in Key PROVE GoalBacked(s, k)'
  BY DEF GoalsBacked
<1>3. CASE goal'[s][k] = 0
  BY <1>1, <1>3 DEF GoalBacked, StillBacked
<1>4. CASE goal'[s][k] # 0
  <2>1. CASE goal[s][k] <= feedback[s][k]
    BY <1>1, <1>4, <2>1 DEF GoalBacked, StillBacked
  <2>2. CASE goal[s][k] <= pending[s][k]
    BY <1>1, <1>4, <2>2 DEF GoalBacked, StillBacked
  <2>3. ASSUME NEW m \in heals, m.server = s, goal[s][k] <= m.body[k]
        PROVE  GoalBacked(s, k)'
    BY <1>1, <1>2, <1>4, <2>3 DEF GoalBacked, StillBacked
  <2>4. GoalBacked(s, k)
    BY DEF GoalsBacked
  <2> QED
    BY <2>1, <2>2, <2>3, <2>4 DEF GoalBacked
<1> QED
  BY <1>3, <1>4
\* Every claim that a heal is to bring about stays backed.
LEMMA GoalsStep ==
    ASSUME TypeOK, GoalsBacked, DeletionSpoils, AnswersHold, [Next]_vars
    PROVE  GoalsBacked'
<1> USE DEF stores, clients, history
<1>0. TypeOK'
  BY TypeStep
<1> SUFFICES ASSUME ~UNCHANGED vars PROVE GoalsBacked'
  BY DEF vars, GoalsBacked, GoalBacked
<1>t. \A s \in Server, k \in Key :
        /\ goal[s][k] \in Nat /\ feedback[s][k] \in Nat /\ pending[s][k] \in Nat
        /\ goal'[s][k] \in Nat /\ feedback'[s][k] \in Nat /\ pending'[s][k] \in Nat
  BY <1>0, FeedbackAssumption DEF TypeOK, Body
<1>z. \A k \in Key : NoEntries[k] = 0
  BY BodyTypes
<1>1. ASSUME NEW s \in Server, NEW p \in Post, StorePost(s, p) PROVE GoalsBacked'
  BY <1>1 DEF StorePost, GoalsBacked, GoalBacked
<1>2. ASSUME NEW s \in Server, NEW k \in Key, NEW pow \in Pow, SubmitPostFeedback(s, k, pow)
      PROVE  GoalsBacked'
  <2>1. \A l \in Key : pending[s][l] = 0
    BY <1>2, <1>z DEF SubmitPostFeedback, Ready
  <2>2. \A r \in Server : r # s => pending'[r] = pending[r]
    BY <1>2 DEF SubmitPostFeedback, TypeOK
  <2>3. UNCHANGED <<goal, feedback, heals>>
    BY <1>2 DEF SubmitPostFeedback
  <2>4. \A r \in Server, l \in Key : StillBacked(r, l)
    BY <1>t, <2>1, <2>2, <2>3 DEF StillBacked
  <2> QED
    BY <1>0, <2>4, BackedLemma
<1>3. ASSUME NEW s \in Server, NEW k \in Key, PutPostFeedback(s, k) PROVE GoalsBacked'
  <2>1. \A r \in Server, l \in Key :
          /\ feedback'[r][l] = IF r = s /\ l = k THEN MorePowerful(s, k, pending[s][k])
                               ELSE feedback[r][l]
          /\ pending'[r][l] = IF r = s /\ l = k THEN 0 ELSE pending[r][l]
    BY <1>3 DEF PutPostFeedback, TypeOK, Body
  <2>2. feedback[s][k] <= MorePowerful(s, k, pending[s][k])
        /\ pending[s][k] <= MorePowerful(s, k, pending[s][k])
    BY <1>t DEF MorePowerful
  <2>3. UNCHANGED <<goal, heals>>
    BY <1>3 DEF PutPostFeedback
  <2>4. \A r \in Server, l \in Key : StillBacked(r, l)
    BY <1>t, <2>1, <2>2, <2>3 DEF StillBacked
  <2> QED
    BY <1>0, <2>4, BackedLemma
<1>4. ASSUME NEW m \in heals, HealPostBundleFeedback(m) PROVE GoalsBacked'
  <2>1. m.server \in Server /\ m.body \in Body /\ \A k \in Key : m.body[k] \in Nat
    BY FeedbackAssumption DEF TypeOK, Message, Body
  <2>2. \A k \in Key : pending[m.server][k] = 0
    BY <1>4, <1>z DEF HealPostBundleFeedback, Ready
  <2>3. \A k \in Key :
          /\ pending'[m.server][k] = IF k[1] \in posts[m.server] THEN m.body[k] ELSE 0
          /\ goal'[m.server][k] = IF k[1] \in posts[m.server] \/ m.body[k] = 0
                                  THEN goal[m.server][k] ELSE 0
    BY <1>4, <2>1 DEF HealPostBundleFeedback, TypeOK
  <2>4. \A r \in Server : r # m.server => pending'[r] = pending[r] /\ goal'[r] = goal[r]
    BY <1>4 DEF HealPostBundleFeedback, TypeOK
  <2>5. feedback' = feedback /\ heals' = heals \ {m}
    BY <1>4 DEF HealPostBundleFeedback
  <2>6. ASSUME NEW r \in Server, NEW k \in Key PROVE StillBacked(r, k)
    <3>1. CASE r # m.server
      BY <1>t, <2>4, <2>5, <3>1 DEF StillBacked
    <3>2. CASE r = m.server
      BY <1>t, <2>1, <2>2, <2>3, <2>5, <3>2 DEF StillBacked
    <3> QED
      BY <3>1, <3>2
  <2> QED
    BY <1>0, <2>6, BackedLemma
<1>5. ASSUME NEW u \in uploads, CachePostBundleFeedback(u) PROVE GoalsBacked'
  BY <1>5 DEF CachePostBundleFeedback, GoalsBacked, GoalBacked
<1>6. ASSUME NEW s \in Server, CacheExpires(s) PROVE GoalsBacked'
  BY <1>6 DEF CacheExpires, GoalsBacked, GoalBacked
<1>7. ASSUME NEW s \in Server, CollectFeedbackKeys(s) PROVE GoalsBacked'
  <2>1. \A r \in Server : goal'[r] \in {NoEntries, goal[r]}
    BY <1>7 DEF CollectFeedbackKeys, TypeOK
  <2>2. UNCHANGED <<feedback, pending, heals>>
    BY <1>7 DEF CollectFeedbackKeys
  <2>3. \A r \in Server, k \in Key : StillBacked(r, k)
    BY <1>t, <1>z, <2>1, <2>2 DEF StillBacked
  <2> QED
    BY <1>0, <2>3, BackedLemma
<1>8. ASSUME NEW s \in Server, DeleteFile(s) PROVE GoalsBacked'
  BY <1>8 DEF DeleteFile, GoalsBacked, GoalBacked
<1>9. ASSUME NEW s \in Server, DeleteRows(s) PROVE GoalsBacked'
  <2>1. deleting[s] # Idle
    BY <1>9 DEF DeleteRows, Idle
  <2>2. goal[s] = NoEntries
    BY <2>1 DEF DeletionSpoils
  <2>3. \A r \in Server : r # s => feedback'[r] = feedback[r]
    BY <1>9 DEF DeleteRows, TypeOK
  <2>4. UNCHANGED <<goal, pending, heals>>
    BY <1>9 DEF DeleteRows
  <2>5. \A r \in Server, k \in Key : StillBacked(r, k)
    BY <1>t, <1>z, <2>2, <2>3, <2>4 DEF StillBacked
  <2> QED
    BY <1>0, <2>5, BackedLemma
<1>10. ASSUME NEW s \in Server, Restart(s) PROVE GoalsBacked'
  <2>1. \A r \in Server : IF r = s THEN goal'[r] = NoEntries
                          ELSE goal'[r] = goal[r] /\ pending'[r] = pending[r]
    BY <1>10 DEF Restart, TypeOK
  <2>2. UNCHANGED <<feedback, heals>>
    BY <1>10 DEF Restart
  <2>3. \A r \in Server, k \in Key : StillBacked(r, k)
    BY <1>t, <1>z, <2>1, <2>2 DEF StillBacked
  <2> QED
    BY <1>0, <2>3, BackedLemma
<1>11. ASSUME NEW c \in Client, StartWalk(c) PROVE GoalsBacked'
  BY <1>11 DEF StartWalk, GoalsBacked, GoalBacked
<1>12. ASSUME NEW c \in Client, NEW s \in Server, GetPostBundleFeedback(c, s) PROVE GoalsBacked'
  BY <1>12 DEF GetPostBundleFeedback, GoalsBacked, GoalBacked
<1>13. ASSUME NEW c \in Client, EndWalk(c) PROVE GoalsBacked'
  <2>1. UNCHANGED <<feedback, pending>> /\ walk[c] # None
    BY <1>13 DEF EndWalk
  <2>2. walk[c] \in Walk /\ ToSet(walk[c].bundles) \subseteq Bundle
    BY <1>13, EndWalkLemma
  <2>3. CASE UNCHANGED <<heals, uploads, goal>>
    BY <2>1, <2>3 DEF GoalsBacked, GoalBacked
  <2>4. ASSUME ToSet(walk[c].bundles) # {}, NEW merged \in Merges(ToSet(walk[c].bundles)),
               heals' = heals \cup HealWork(walk[c], merged.body),
               goal' = [s \in Server |->
                    IF s \in (walk[c].visited \cap Retrieved(walk[c])) \ walk[c].spoiled
                    THEN merged.body ELSE goal[s]]
        PROVE  GoalsBacked'
    <3>1. merged.body \in Body /\ \A k \in Key : merged.body[k] \in Nat
      BY <2>2, <2>4, MergesLemma, FeedbackAssumption DEF Body
    <3>2. ASSUME NEW s \in Server, NEW k \in Key, goal'[s] = goal[s] PROVE GoalBacked(s, k)'
      <4>1. GoalBacked(s, k)
        BY DEF GoalsBacked
      <4> QED
        BY <2>1, <2>4, <3>2, <4>1 DEF GoalBacked
    <3>3. ASSUME NEW s \in Server, NEW k \in Key, s \in walk[c].visited \ walk[c].spoiled,
                 goal'[s] = merged.body
          PROVE  GoalBacked(s, k)'
      <4>1. PICK b \in ToSet(walk[c].bundles) : b.peer = s /\ b.body[k] <= feedback[s][k]
        BY <2>1, <3>3 DEF AnswersHold
      <4>2. b.body[k] \in Nat
        BY <2>2, BodyTypes
      <4>3. CASE merged.body[k] <= b.body[k]
        BY <1>t, <2>1, <3>1, <3>3, <4>1, <4>2, <4>3 DEF GoalBacked
      <4>4. CASE merged.body[k] > b.body[k]
        <5>1. Len(walk[c].bundles) >= 2
          BY <2>2, <4>4, MergeNeedsTwo
        <5>2. PICK m \in HealWork(walk[c], merged.body) :
                m.server = s /\ m.body[k] = merged.body[k]
          BY <2>2, <3>1, <3>3, <4>1, <4>4, <5>1, HealWorkLemma DEF WeakerAt
        <5>3. m \in heals' /\ goal'[s][k] <= m.body[k]
          BY <2>4, <3>1, <3>3, <5>2
        <5> QED
          BY <5>2, <5>3 DEF GoalBacked
      <4> QED
        BY <3>1, <4>2, <4>3, <4>4
    <3> QED
      BY <2>4, <3>2, <3>3 DEF GoalsBacked
  <2> QED
    BY <1>13, <2>3, <2>4, EndWalkLemma
<1>14. ASSUME NEW m \in heals, HealLost(m) PROVE GoalsBacked'
  <2>1. \A r \in Server : goal'[r] = IF r = m.server THEN NoEntries ELSE goal[r]
    BY <1>14 DEF HealLost, TypeOK
  <2>2. UNCHANGED <<feedback, pending>> /\ heals' = heals \ {m}
    BY <1>14 DEF HealLost
  <2>3. \A r \in Server, k \in Key : StillBacked(r, k)
    BY <1>t, <1>z, <2>1, <2>2 DEF StillBacked
  <2> QED
    BY <1>0, <2>3, BackedLemma
<1>15. ASSUME NEW u \in uploads, UploadLost(u) PROVE GoalsBacked'
  BY <1>15 DEF UploadLost, GoalsBacked, GoalBacked
<1> QED
  BY <1>1, <1>2, <1>3, <1>4, <1>5, <1>6, <1>7, <1>8, <1>9, <1>10, <1>11, <1>12, <1>13,
     <1>14, <1>15 DEF Next

-----------------------------------------------------------------------------
(***************************************************************************)
(* Theorems.                                                               *)
(***************************************************************************)

\* IInv is an inductive invariant of the servers and clients.
THEOREM Inductive == Spec => []IInv
<1>1. Init => IInv
  <2> SUFFICES ASSUME Init PROVE IInv
    OBVIOUS
  <2> USE DEF Init
  <2>1. TypeOK
    BY BodyTypes DEF TypeOK, Deletion
  <2>2. AllGenuine
    BY GenuineLemma DEF AllGenuine
  <2>3. GoalsBacked
    BY BodyTypes DEF GoalsBacked, GoalBacked
  <2>4. DeletionSpoils /\ AnswersHold
    BY DEF DeletionSpoils, AnswersHold
  <2> QED
    BY <2>1, <2>2, <2>3, <2>4 DEF IInv
<1>2. IInv /\ [Next]_vars => IInv'
  BY TypeStep, GenuineStep, DeletionStep, AnswersStep, GoalsStep DEF IInv
<1> QED
  BY <1>1, <1>2, PTL DEF Spec

\* Whatever servers, caches, walks, merges, heals and crashes do, every feedback that is
\* anywhere was submitted by a client with that proof of work.
THEOREM FeedbackAlwaysSound == Spec => []FeedbackInv
<1>1. IInv => FeedbackInv
  BY GenuineIsSubmitted DEF IInv, FeedbackInv
<1> QED
  BY <1>1, Inductive, PTL

\* Once the heals of a walk have arrived, every server that they were for is as strong as
\* the merge they were made from, for the posts it holds.
THEOREM HealsAlwaysReachMerge == Spec => []HealsReachMerge
<1>1. IInv => HealsReachMerge
  <2> SUFFICES ASSUME IInv, NEW s \in Server, Ready(s), \A m \in heals : m.server # s,
                      NEW k \in Key
               PROVE  feedback[s][k] >= goal[s][k]
    BY DEF HealsReachMerge
  <2>1. goal[s][k] \in Nat /\ feedback[s][k] \in Nat
    BY FeedbackAssumption DEF IInv, TypeOK, Body
  <2>2. pending[s][k] = 0
    BY BodyTypes DEF Ready
  <2>3. GoalBacked(s, k)
    BY DEF IInv, GoalsBacked
  <2> QED
    BY <2>1, <2>2, <2>3 DEF GoalBacked
<1> QED
  BY <1>1, Inductive, PTL
\* Every step of the servers and clients is a step of the replicated set of strongest
\* proofs, or leaves it as it is.
LEMMA StepRefines ==
    ASSUME IInv, [Next]_vars
    PROVE  [Replicated!Next]_(Replicated!vars)
<1> USE DEF stores, clients, history
<1>1. ASSUME NEW s \in Server, NEW k \in Key, NEW pow \in Pow, SubmitPostFeedback(s, k, pow)
      PROVE  Replicated!Next
  <2>1. Replicated!Submit(k, pow)
    BY <1>1 DEF SubmitPostFeedback, Replicated!Submit
  <2> QED
    BY <2>1 DEF Replicated!Next
<1>2. ASSUME NEW s \in Server, NEW k \in Key, PutPostFeedback(s, k)
      PROVE  Replicated!Next \/ UNCHANGED <<submitted, feedback>>
  <2>1. pending[s][k] \in Pow /\ feedback[s][k] \in Nat
    BY <1>2, FeedbackAssumption DEF PutPostFeedback, IInv, TypeOK, Body, Pow
  <2>2. <<k, pending[s][k]>> \in submitted
    BY <1>2 DEF PutPostFeedback, IInv, AllGenuine, Genuine
  <2>3. submitted' = submitted
        /\ feedback' = [feedback EXCEPT ![s][k] = MorePowerful(s, k, pending[s][k])]
    BY <1>2 DEF PutPostFeedback
  <2>4. CASE feedback[s][k] >= pending[s][k]
    <3>1. feedback' = feedback
      BY <2>3, <2>4 DEF MorePowerful, IInv, TypeOK, Body
    <3> QED
      BY <2>3, <3>1
  <2>5. CASE ~(feedback[s][k] >= pending[s][k])
    <3>1. pending[s][k] > feedback[s][k]
      BY <2>1, <2>5 DEF Pow
    <3>2. feedback' = [feedback EXCEPT ![s][k] = pending[s][k]]
      BY <2>3, <2>5 DEF MorePowerful
    <3>3. Replicated!Raise(s, k, pending[s][k])
      BY <2>2, <2>3, <3>1, <3>2 DEF Replicated!Raise
    <3> QED
      BY <2>1, <3>3 DEF Replicated!Next
  <2> QED
    BY <2>4, <2>5
<1>3. ASSUME NEW s \in Server, DeleteRows(s) PROVE Replicated!Next
  <2>1. deleting[s] \in Deletion
    BY DEF IInv, TypeOK
  <2>2. deleting[s].keys \in SUBSET Key
    BY <2>1 DEF Deletion, Idle
  <2>3. Replicated!Delete(s, deleting[s].keys)
    BY <1>3 DEF DeleteRows, Replicated!Delete
  <2> QED
    BY <2>2, <2>3 DEF Replicated!Next
<1>4. \/ UNCHANGED <<submitted, feedback>>
      \/ \E s \in Server, k \in Key, pow \in Pow : SubmitPostFeedback(s, k, pow)
      \/ \E s \in Server, k \in Key : PutPostFeedback(s, k)
      \/ \E s \in Server : DeleteRows(s)
  BY DEF vars, Next, StorePost, HealPostBundleFeedback, CachePostBundleFeedback,
         CacheExpires, CollectFeedbackKeys, DeleteFile, Restart, StartWalk,
         GetPostBundleFeedback, EndWalk, HealLost, UploadLost
<1> QED
  BY <1>1, <1>2, <1>3, <1>4 DEF Replicated!vars

\* The servers implement ReplicatedFeedback: per post and type each keeps the strongest
\* proof it was given, and only submitted proofs.
THEOREM ServersRefineReplicatedFeedback == Spec => ReplicatedFeedbackSpec
<1>1. Init => Replicated!Init
  BY DEF Init, Replicated!Init, NoEntries
<1>2. IInv /\ [Next]_vars => [Replicated!Next]_(Replicated!vars)
  BY StepRefines
<1> QED
  BY <1>1, <1>2, Inductive, PTL DEF Spec, ReplicatedFeedbackSpec, Replicated!Spec
=============================================================================
