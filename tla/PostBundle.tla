------------------------------ MODULE PostBundle ------------------------------
(***************************************************************************)
(* The record a server keeps for one location: the signed header of the    *)
(* EncodedPostBundleV1 on disk and the PostBundleMetadata row beside it,   *)
(* and what each handler computes from them.                               *)
(*                                                                         *)
(* The vector encoded_post_ids is kept as the set of its entries together  *)
(* with its length, so that an id pushed twice shows as                    *)
(* len # Cardinality(ids); the order of the posts, their bytes, the        *)
(* signature and time_millis (which only the client's cache reads) are     *)
(* left out.  metadata.size is modelled in Environment.                    *)
(***************************************************************************)
EXTENDS Integers, FiniteSets

CONSTANTS
    Post,           \* post ids
    MaxPosts,       \* ENCODED_POST_BUNDLE_V1_OVERFLOWED_NUM_POSTS
    MaxGranted,     \* ENCODED_POST_BUNDLE_V1_OVERFLOWED_NUM_POSTS_GRANTED
    SealAt,         \* bucket_time_millis + duration + ELAPSED_THRESHOLD
    None            \* absent Option value

\* Number of values of the u8 counters num_posts and num_posts_granted, which
\* wrap in a release build.
U8 == 256

ASSUME BoundsAssumption ==
    /\ IsFiniteSet(Post)
    /\ MaxPosts \in Nat
    /\ MaxGranted \in Nat
    /\ MaxGranted + 1 < U8
    /\ SealAt \in Nat

Metadata == [num_posts : 0 .. (U8 - 1), num_posts_granted : 0 .. (U8 - 1),
             overflowed : BOOLEAN, sealed : BOOLEAN]

Header == [overflowed : BOOLEAN, sealed : BOOLEAN,
           num_posts : 0 .. (U8 - 1), ids : SUBSET Post, len : Nat,
           healed : SUBSET Post]

ASSUME NoneAssumption == None \notin Metadata /\ None \notin Header

ZeroMetadata == [num_posts |-> 0, num_posts_granted |-> 0,
                 overflowed |-> FALSE, sealed |-> FALSE]

EmptyHeader(overflowed, sealed) ==
    [overflowed |-> overflowed, sealed |-> sealed,
     num_posts |-> 0, ids |-> {}, len |-> 0, healed |-> {}]

Elapsed(t) == t > SealAt

Overflowed(num_posts, granted) == num_posts > MaxPosts \/ granted > MaxGranted

(***************************************************************************)
(* Claim: one more grant while the metadata is not sealed.                 *)
(***************************************************************************)

\* Mutant: overflow is recorded but does not seal.
ClaimMetadataNoSeal(m, t) ==
    IF m.sealed THEN m
    ELSE LET granted == (m.num_posts_granted + 1) % U8
         IN  [m EXCEPT !.num_posts_granted = granted,
                       !.overflowed = Overflowed(m.num_posts, granted),
                       !.sealed = Elapsed(t)]

ClaimMetadata(m, t) ==
    IF m.sealed THEN m
    ELSE LET granted == (m.num_posts_granted + 1) % U8
             overflowed == Overflowed(m.num_posts, granted)
         IN  [m EXCEPT !.num_posts_granted = granted,
                       !.overflowed = overflowed,
                       !.sealed = overflowed \/ Elapsed(t)]

(***************************************************************************)
(* Commit: the post is pushed, the flags are computed afresh from the      *)
(* header's own count and the granted count, and copied to the metadata.   *)
(***************************************************************************)
CommitHeader(h, m, p, t) ==
    LET num_posts == (h.num_posts + 1) % U8
        overflowed == Overflowed(num_posts, m.num_posts_granted)
    IN  [h EXCEPT !.num_posts = num_posts,
                  !.overflowed = overflowed,
                  !.sealed = overflowed \/ Elapsed(t),
                  !.ids = @ \cup {p},
                  !.len = @ + 1]

CommitMetadata(m, h) ==
    [m EXCEPT !.num_posts = h.num_posts,
              !.overflowed = h.overflowed,
              !.sealed = h.sealed]

(***************************************************************************)
(* Heal: the posts of the token that are still missing are pushed; the     *)
(* flags of a header that exists are not recomputed.                       *)
(***************************************************************************)
\* Mutant: the commit trusts the token and does not look again at what the
\* bundle holds by now.
HealMissingUnchecked(h, needed) == needed

HealMissing(h, needed) == needed \ h.ids

\* Mutant: the length is moved the wrong way.
HealHeaderShrinks(h, needed) ==
    LET missing == HealMissing(h, needed)
        len == h.len - Cardinality(missing)
    IN  [h EXCEPT !.num_posts = len % U8, !.ids = @ \cup missing, !.len = len,
                  !.healed = @ \cup missing]

HealHeader(h, needed) ==
    LET missing == HealMissing(h, needed)
        len == h.len + Cardinality(missing)
    IN  [h EXCEPT !.num_posts = len % U8,
                  !.ids = @ \cup missing,
                  !.len = len,
                  !.healed = @ \cup missing]

HealMetadata(m, h) == [m EXCEPT !.num_posts = h.num_posts]

(***************************************************************************)
(* EncodedPostBundleHeaderV1::verify, plus the absence of duplicates that  *)
(* "already in the bundle" and the heal filter are there to ensure.        *)
(***************************************************************************)
HeaderVerifies(h) ==
    /\ h.num_posts = h.len % U8
    /\ h.healed \subseteq h.ids
    /\ h.len = Cardinality(h.ids)
=============================================================================
