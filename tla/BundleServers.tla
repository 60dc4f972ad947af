---------------------------- MODULE BundleServers -----------------------------
(***************************************************************************)
(* The life of one location's post bundle on the servers that store it.    *)
(* Every server runs the same handlers; clients carry the server-signed    *)
(* claim tokens, heal tokens and bundle headers between them, so a token   *)
(* or a header may be arbitrarily old, used twice, or never used.          *)
(*                                                                         *)
(* A handler runs to completion under the write lock of the location's     *)
(* stripe (one sequential dispatch loop per server), so it is one action.  *)
(* Decimation runs in a thread of its own and takes no stripe lock: it     *)
(* deletes the bundle file first and the database rows in a later step.    *)
(* Handlers may run in between, and either removal may fall between what a *)
(* handler loads and what it stores.  A handler that rewrites a bundle     *)
(* writes the file before the metadata row; a crash between the two writes *)
(* is an outcome of the handler's action.                                  *)
(*                                                                         *)
(* A request to a server that does not find itself among the nearest peers *)
(* changes nothing and yields no token, header or bundle; such a request   *)
(* is a stuttering step here.                                              *)
(***************************************************************************)
EXTENDS PostBundle

CONSTANTS
    Server,
    Client,
    ClaimUntil,     \* last time a post of this bucket is within the
                    \* CLIENT_POST_TIMESTAMP_DELTA_THRESHOLD of the clock
    MaxTime,        \* bound of the model: the clock stops here
    MaxFaults,      \* bound of the model: crashes, expiries and decimations
    MaxHealTokens   \* bound of the model: heal tokens ever issued

ASSUME ClockAssumption ==
    ClaimUntil \in Nat /\ MaxTime \in Nat /\ MaxFaults \in Nat /\ MaxHealTokens \in Nat

VARIABLES
    now,            \* clock
    metadata,       \* metadata[s]: the PostBundleMetadata row, or None
    bundle,         \* bundle[s]: header of the bundle file, or None
    healInProgress, \* healInProgress[s]: heal_in_progress contains the location
    deleting,       \* deleting[s]: decimation removed the file, not yet the rows
    claimTokens,    \* SubmitPostClaimTokenV1s handed out: <<server, post>>
    healTokens,     \* HealPostBundleClaimTokenV1s handed out
    held,           \* held[c]: header of the bundle client c fetched last
    accepted,       \* history: posts whose commit was written by some server
    faults,         \* crashes, expiries and decimations so far
    grants          \* history: grants[s]: tokens granted since the metadata
                    \* row was last absent

stores == <<metadata, bundle>>
tokens == <<claimTokens, healTokens>>
history == <<accepted, grants>>
vars == <<now, metadata, bundle, healInProgress, deleting, claimTokens,
          healTokens, held, accepted, faults, grants>>

\* A heal token is bound to its donor header by the header's signature; what the
\* commit takes from that header are its two flags.
HealToken == [server : Server, needed : SUBSET Post,
              overflowed : BOOLEAN, sealed : BOOLEAN]

TypeOK ==
    /\ now \in Nat
    /\ metadata \in [Server -> Metadata \cup {None}]
    /\ bundle \in [Server -> Header \cup {None}]
    /\ healInProgress \in [Server -> BOOLEAN]
    /\ deleting \in [Server -> BOOLEAN]
    /\ claimTokens \in SUBSET (Server \X Post)
    /\ healTokens \in SUBSET HealToken
    /\ held \in [Client -> Header \cup {None}]
    /\ accepted \in SUBSET Post
    /\ faults \in 0 .. MaxFaults
    /\ grants \in [Server -> Nat]

Init ==
    /\ now = 0
    /\ metadata = [s \in Server |-> None]
    /\ bundle = [s \in Server |-> None]
    /\ healInProgress = [s \in Server |-> FALSE]
    /\ deleting = [s \in Server |-> FALSE]
    /\ claimTokens = {}
    /\ healTokens = {}
    /\ held = [c \in Client |-> None]
    /\ accepted = {}
    /\ faults = 0
    /\ grants = [s \in Server |-> 0]

-----------------------------------------------------------------------------
(***************************************************************************)
(* Loading and storing.                                                    *)
(***************************************************************************)
\* The model admits MaxFaults crashes, expiries and decimations in all.
Fault == faults < MaxFaults /\ faults' = faults + 1

StoredMetadata(s) == IF metadata[s] = None THEN ZeroMetadata ELSE metadata[s]

\* Mutant: the bundle is not loaded before it is rewritten.
StoredHeaderNotLoaded(s, fresh) == fresh

StoredHeader(s, fresh) == IF bundle[s] = None THEN fresh ELSE bundle[s]

StoredIds(s) == IF bundle[s] = None THEN {} ELSE bundle[s].ids

\* The decimation thread may get between what a handler loaded and what it puts
\* back: it has removed the file, so the put brings it back and only the removal
\* of the rows is still to come ...
FileRemovedMeanwhile(s) ==
    /\ Fault
    /\ ~deleting[s]
    /\ metadata[s] # None \/ bundle[s] # None
    /\ deleting' = [deleting EXCEPT ![s] = TRUE]

\* ... or it has removed the rows, and the put brings the metadata row back.
RowsRemovedMeanwhile(s) ==
    /\ deleting[s]
    /\ deleting' = [deleting EXCEPT ![s] = FALSE]
    /\ UNCHANGED faults

\* The bundle file is renamed into place, then the metadata row is written.
PutBundleAndMetadata(s, h, m) ==
    /\ bundle' = [bundle EXCEPT ![s] = h]
    /\ metadata' = [metadata EXCEPT ![s] = m]
    /\ \/ UNCHANGED <<deleting, faults>>
       \/ FileRemovedMeanwhile(s)
       \/ RowsRemovedMeanwhile(s)

\* The process dies after the rename: the row is not written, the moka cache
\* heal_in_progress and the decimation under way are lost, nothing is answered.
CrashAfterBundlePut(s, h) ==
    /\ bundle' = [bundle EXCEPT ![s] = h]
    /\ healInProgress' = [healInProgress EXCEPT ![s] = FALSE]
    /\ deleting' = [deleting EXCEPT ![s] = FALSE]
    /\ Fault
    /\ UNCHANGED metadata

-----------------------------------------------------------------------------
(***************************************************************************)
(* Handlers.                                                               *)
(***************************************************************************)

\* SubmitPostClaimV1: the granted count is raised even when the answer is no.
SubmitPostClaim(s, p) ==
    LET m == ClaimMetadata(StoredMetadata(s), now)
    IN  /\ now <= ClaimUntil
        /\ metadata' = [metadata EXCEPT
                ![s] = IF StoredMetadata(s).sealed THEN @ ELSE m]
        /\ claimTokens' = IF m.sealed THEN claimTokens
                                      ELSE claimTokens \cup {<<s, p>>}
        /\ grants' = [grants EXCEPT ![s] = IF m.sealed THEN @ ELSE @ + 1]
        /\ \/ UNCHANGED <<deleting, faults>>
           \/ ~StoredMetadata(s).sealed /\ RowsRemovedMeanwhile(s)
        /\ UNCHANGED <<now, bundle, healInProgress, healTokens, held, accepted>>

\* Mutant: the claim token is not checked.
SubmitPostCommitUnclaimed(s, p) ==
    LET m == StoredMetadata(s)
        old == StoredHeader(s, EmptyHeader(FALSE, FALSE))
        h == CommitHeader(old, m, p, now)
    IN  /\ p \notin old.ids
        /\ PutBundleAndMetadata(s, h, CommitMetadata(m, h))
        /\ accepted' = accepted \cup {p}
        /\ UNCHANGED <<now, healInProgress, tokens, held, grants>>

\* SubmitPostCommitV1: no check of sealed, no expiry of the token.
SubmitPostCommit(s, p) ==
    LET m == StoredMetadata(s)
        old == StoredHeader(s, EmptyHeader(FALSE, FALSE))
        h == CommitHeader(old, m, p, now)
    IN  /\ <<s, p>> \in claimTokens
        /\ p \notin old.ids
        /\ \/ /\ PutBundleAndMetadata(s, h, CommitMetadata(m, h))
              /\ UNCHANGED healInProgress
           \/ CrashAfterBundlePut(s, h)
        /\ accepted' = accepted \cup {p}
        /\ UNCHANGED <<now, tokens, held, grants>>

\* GetPostBundleV1: without a metadata row the file is not even looked at.
GetPostBundle(c, s) ==
    LET m == metadata[s]
        h == bundle[s]
        fresh == EmptyHeader(FALSE, Elapsed(now))
        resealed == [h EXCEPT !.sealed = TRUE]
        sealNow == m # None /\ ~m.sealed /\ Elapsed(now)
        response == IF m = None \/ h = None THEN fresh
                    ELSE IF sealNow THEN resealed ELSE h
    IN  /\ \/ /\ ~sealNow
              /\ held' = [held EXCEPT ![c] = response]
              /\ UNCHANGED <<stores, healInProgress, deleting, faults>>
           \/ /\ sealNow
              /\ held' = [held EXCEPT ![c] = response]
              /\ PutBundleAndMetadata(s, IF h = None THEN None ELSE resealed,
                                      [m EXCEPT !.sealed = TRUE])
              /\ UNCHANGED healInProgress
           \/ /\ sealNow
              /\ h # None
              /\ CrashAfterBundlePut(s, resealed)
              /\ UNCHANGED held
        /\ UNCHANGED <<now, tokens, history>>

\* HealPostBundleClaimV1, when the answer is a token.
HealPostBundleClaim(c, s) ==
    LET needed == held[c].ids \ StoredIds(s)
    IN  /\ held[c] # None
        /\ ~healInProgress[s]
        /\ needed # {}
        /\ Cardinality(healTokens) < MaxHealTokens
        /\ healInProgress' = [healInProgress EXCEPT ![s] = TRUE]
        /\ healTokens' = healTokens \cup
              {[server |-> s, needed |-> needed,
                overflowed |-> held[c].overflowed, sealed |-> held[c].sealed]}
        /\ UNCHANGED <<now, stores, deleting, claimTokens, held, history, faults>>

\* HealPostBundleCommitV1: a new header takes the donor's flags while its
\* metadata starts from zero; an existing header and row keep theirs.
HealPostBundleCommit(t) ==
    LET s == t.server
        old == StoredHeader(s, EmptyHeader(t.overflowed, t.sealed))
        h == HealHeader(old, t.needed)
    IN  /\ \/ /\ HealMissing(old, t.needed) # {}
              /\ \/ /\ PutBundleAndMetadata(s, h, HealMetadata(StoredMetadata(s), h))
                    /\ healInProgress' = [healInProgress EXCEPT ![s] = FALSE]
                 \/ CrashAfterBundlePut(s, h)
           \/ /\ HealMissing(old, t.needed) = {}
              /\ healInProgress' = [healInProgress EXCEPT ![s] = FALSE]
              /\ UNCHANGED <<stores, deleting, faults>>
        /\ UNCHANGED <<now, tokens, held, history>>

-----------------------------------------------------------------------------
(***************************************************************************)
(* The rest of the server, and the clock.                                  *)
(***************************************************************************)

\* The 60 s time-to-live of an entry of heal_in_progress.
HealInProgressExpires(s) ==
    /\ Fault
    /\ healInProgress[s]
    /\ healInProgress' = [healInProgress EXCEPT ![s] = FALSE]
    /\ UNCHANGED <<now, stores, deleting, tokens, held, history>>

\* post_bundles_delete removes the file of a victim ...
DecimateBundle(s) ==
    /\ Fault
    /\ metadata[s] # None \/ bundle[s] # None
    /\ bundle' = [bundle EXCEPT ![s] = None]
    /\ deleting' = [deleting EXCEPT ![s] = TRUE]
    /\ UNCHANGED <<now, metadata, healInProgress, tokens, held, history>>

\* ... and then commits the batch that removes its rows.
DecimateMetadata(s) ==
    /\ deleting[s]
    /\ metadata' = [metadata EXCEPT ![s] = None]
    /\ deleting' = [deleting EXCEPT ![s] = FALSE]
    /\ grants' = [grants EXCEPT ![s] = 0]
    /\ UNCHANGED <<now, bundle, healInProgress, tokens, held, accepted, faults>>

\* A crash between handlers loses only what is in memory.
Restart(s) ==
    /\ Fault
    /\ healInProgress[s] \/ deleting[s]
    /\ healInProgress' = [healInProgress EXCEPT ![s] = FALSE]
    /\ deleting' = [deleting EXCEPT ![s] = FALSE]
    /\ UNCHANGED <<now, stores, tokens, held, history>>

Tick ==
    /\ now < MaxTime
    /\ now' = now + 1
    /\ UNCHANGED <<stores, healInProgress, deleting, tokens, held, history, faults>>

Next ==
    \/ \E s \in Server, p \in Post : SubmitPostClaim(s, p)
    \/ \E s \in Server, p \in Post : SubmitPostCommit(s, p)
    \/ \E s \in Server, c \in Client : GetPostBundle(c, s)
    \/ \E s \in Server, c \in Client : HealPostBundleClaim(c, s)
    \/ \E t \in healTokens : HealPostBundleCommit(t)
    \/ \E s \in Server : HealInProgressExpires(s)
    \/ \E s \in Server : DecimateBundle(s)
    \/ \E s \in Server : DecimateMetadata(s)
    \/ \E s \in Server : Restart(s)
    \/ Tick

Spec == Init /\ [][Next]_vars

-----------------------------------------------------------------------------
(***************************************************************************)
(* Properties.                                                             *)
(***************************************************************************)

\* Every header a client can come to hold or to present.
Headers ==
    {bundle[s] : s \in Server} \cup {held[c] : c \in Client}

\* Every header that is stored or held by a client passes EncodedPostBundleHeaderV1::verify and lists no post twice, whatever
\* commits, heals, crashes and decimations came in between (a heal token names
\* posts that were missing when it was issued, not when it is used).
HeadersVerify == \A h \in Headers \ {None} : HeaderVerifies(h)

\* The SubmitPostClaimV1 handler never hands out more than
\* OVERFLOWED_NUM_POSTS_GRANTED tokens for one life of the metadata row, and
\* the u8 count never gets further than one past it.
GrantsBounded ==
    \A s \in Server :
        /\ grants[s] <= MaxGranted
        /\ metadata[s] # None => metadata[s].num_posts_granted <= MaxGranted + 1

(***************************************************************************)
(* The inductive invariant: every header is verifiable and lists accepted  *)
(* posts, every heal token names accepted posts, and the granted count     *)
(* bounds the tokens and seals the row when it passes its limit.           *)
(***************************************************************************)
Sound(h, posts) == h # None => HeaderVerifies(h) /\ h.ids \subseteq posts

HeadersSound ==
    /\ \A s \in Server : Sound(bundle[s], accepted)
    /\ \A c \in Client : Sound(held[c], accepted)

TokensSound == \A t \in healTokens : t.needed \subseteq accepted

GrantsSound ==
    \A s \in Server :
        IF metadata[s] = None THEN grants[s] = 0
        ELSE LET granted == metadata[s].num_posts_granted
             IN  /\ granted <= MaxGranted + 1
                 /\ granted > MaxGranted => metadata[s].sealed
                 /\ grants[s] <= granted
                 /\ grants[s] <= MaxGranted

IInv == TypeOK /\ HeadersSound /\ TokensSound /\ GrantsSound

\* A stored post leaves a server only with the whole bundle file, by
\* decimation: no commit, heal, re-seal or crash drops a post.
PostsStay ==
    [][\A s \in Server : \/ bundle'[s] = None
                         \/ StoredIds(s) \subseteq StoredIds(s)']_vars

\* Once the bucket's time is over, a bundle stored as sealed is not stored as
\* unsealed again: clients keep a sealed bundle for ever.
ElapsedSealStays ==
    [][\A s \in Server :
          /\ bundle[s] # None /\ bundle'[s] # None
          /\ bundle[s].sealed /\ Elapsed(now)
          => bundle'[s].sealed]_vars

\* The servers implement a replicated set of posts.
Replicated == INSTANCE ReplicatedPosts WITH
    claimed <- claimTokens, stored <- [s \in Server |-> StoredIds(s)]

ReplicatedSpec == Replicated!Spec
=============================================================================
