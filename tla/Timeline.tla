------------------------------- MODULE Timeline -------------------------------
(***************************************************************************)
(* A client that posts and reads its timelines.  Posts of a feed lie in a  *)
(* tree of buckets of ever shorter duration; a post goes into the widest   *)
(* bucket that is not full, and a reader looks into the children of a      *)
(* bucket only if its bundle says that it overflowed.                      *)
(*                                                                         *)
(* submit_post and the timelines use the same bundle manager, which keeps  *)
(* serving what it fetched until that expires, or for ever if it was       *)
(* sealed.  The servers of a bucket appear here as one (BundleServers has  *)
(* several): its row of grants seals it, its header tells readers whether  *)
(* it overflowed.  Time starts at 0, before which there are no posts.      *)
(***************************************************************************)
EXTENDS Integers, Sequences, FiniteSets, SequencesExt

CONSTANTS
    NumPosts,       \* bound of the model: posts this client submits
    Feed,           \* base ids with posts
    Links,          \* what build_locations may find: functions from posts to sequences of
                    \* feeds, the user's own first; an empty sequence: not submitted
    Durations,      \* bucket_durations_for_type, the finest one last
    Month,          \* MILLIS_IN_MONTH
    MaxPosts,       \* ENCODED_POST_BUNDLE_V1_OVERFLOWED_NUM_POSTS
    MaxGranted,     \* ENCODED_POST_BUNDLE_V1_OVERFLOWED_NUM_POSTS_GRANTED
    Threshold,      \* ENCODED_POST_BUNDLE_V1_ELAPSED_THRESHOLD_MILLIS
    PageSize,       \* max_posts of MultipleTimeline
    FeedPageSize,   \* max_posts_per_single_timeline
    Hour,           \* MILLIS_IN_HOUR, the penalty of a post
    PenTTL,         \* RECENT_POSTS_PEN_TTL
    Start,          \* the time at which the client starts
    MaxTime,        \* bound of the model
    MaxFaults,      \* bound of the model: requests that fail
    None

Post == 1 .. NumPosts      \* numbered in the order of submission
Level == 1 .. Len(Durations)
Time == 0 .. MaxTime

ASSUME TimelineAssumption ==
    /\ Durations \in Seq(Nat \ {0}) /\ Durations # <<>>
    /\ \A i \in Level : i > 1 => Durations[i - 1] % Durations[i] = 0
    /\ Month = Durations[1]
    /\ IsFiniteSet(Feed)
    /\ Links \subseteq [Post -> Seq(Feed)]
    /\ {NumPosts, MaxPosts, MaxGranted, Threshold, PageSize, FeedPageSize, Hour, PenTTL, Start, MaxTime,
        MaxFaults} \subseteq Nat
    /\ Start <= MaxTime

\* BucketLocation::round_down_to_bucket_start, and the buckets of one feed.
RoundDown(t, level) == (t \div Durations[level]) * Durations[level]
Bucket == {b \in Level \X Time : b[2] = RoundDown(b[2], b[1])}
BucketEnd(b) == b[2] + Durations[b[1]] + Threshold

VARIABLES
    now,
    linked,     \* linked[p]: linked_base_id_details of post p
    server,     \* server[f][b]: the bundle of bucket b of feed f
    view,       \* view[f][b]: what the bundle manager has stored of it, or None
    job,        \* job[p]: post_to_locations of post p
    pen,        \* RecentPostsPen.entries: <<feed, post>>
    line,       \* line[f]: the SingleTimeline of f
    reader,     \* the call of get_more_posts in progress, or None
    returned,   \* returned[f]: history: posts returned to the user
    faults

vars == <<now, linked, server, view, job, pen, line, reader, returned, faults>>

\* The row of grants, and the header of the stored bundle.
Bundle == [posts : SUBSET Post, granted : 0 .. MaxGranted + 1, sealed : BOOLEAN,
           overflowed : BOOLEAN]
View == [posts : SUBSET Post, overflowed : BOOLEAN, sealed : BOOLEAN]
Job == [pc : {"new", "pick", "claim", "commit", "done", "failed", "panicked"},
        time : Time, feed : Nat, level : Level]
Line == [allowed : Time \cup {None}, processed : Time \cup {None}, seen : SUBSET Post]
Frame == [kind : {"open", "close"}, level : Level, time : Time, oldest : Time]
Reader == [todo : Seq(Feed), time : Time, frames : Seq(Frame), got : SUBSET Post,
           page : SUBSET (Feed \X Post)]

ASSUME NoneAssumption == None \notin Reader

TypeOK ==
    /\ now \in Time
    /\ linked \in Links
    /\ server \in [Feed -> [Bucket -> Bundle]]
    /\ view \in [Feed -> [Bucket -> View \cup {None}]]
    /\ job \in [Post -> Job]
    /\ \A p \in Post : job[p].feed <= Len(linked[p])
    /\ pen \subseteq Feed \X Post
    /\ line \in [Feed -> Line]
    /\ reader \in Reader \cup {None}
    /\ returned \in [Feed -> SUBSET Post]
    /\ faults \in 0 .. MaxFaults

Init ==
    /\ now = Start
    /\ linked \in Links
    /\ server = [f \in Feed |-> [b \in Bucket |->
                    [posts |-> {}, granted |-> 0, sealed |-> FALSE, overflowed |-> FALSE]]]
    /\ view = [f \in Feed |-> [b \in Bucket |-> None]]
    /\ job = [p \in Post |-> [pc |-> "new", time |-> 0, feed |-> 0, level |-> 1]]
    /\ pen = {}
    /\ line = [f \in Feed |-> [allowed |-> None, processed |-> None, seen |-> {}]]
    /\ reader = None
    /\ returned = [f \in Feed |-> {}]
    /\ faults = 0

Fault == faults < MaxFaults /\ faults' = faults + 1

-----------------------------------------------------------------------------
(***************************************************************************)
(* The bundle manager.                                                     *)
(***************************************************************************)
Elapsed(b) == now > BucketEnd(b)

Fetched(f, b) ==
    [posts |-> server[f][b].posts, overflowed |-> server[f][b].overflowed,
     sealed |-> server[f][b].overflowed \/ Elapsed(b)]

GetPostBundle(f, b) == IF view[f][b] = None THEN Fetched(f, b) ELSE view[f][b]

Keep(f, b) == view' = [view EXCEPT ![f][b] = GetPostBundle(f, b)]

\* A request has to be made, and it fails.
FetchFails(f, b) == view[f][b] = None /\ Fault /\ UNCHANGED view

Expire(f, b) ==
    /\ view[f][b] # None
    /\ ~view[f][b].sealed
    /\ view' = [view EXCEPT ![f][b] = None]
    /\ UNCHANGED <<now, linked, server, job, pen, line, reader, returned, faults>>

-----------------------------------------------------------------------------
(***************************************************************************)
(* Posting.                                                                *)
(***************************************************************************)
FeedOf(p) == linked[p][job[p].feed]
BucketOf(p) == <<job[p].level, RoundDown(job[p].time, job[p].level)>>

SubmitPost(p) ==
    /\ job[p].pc = "new"
    /\ linked[p] # <<>>
    /\ p > 1 => job[p - 1].pc # "new"
    /\ job' = [job EXCEPT ![p].pc = "pick", ![p].time = now, ![p].feed = 1]
    /\ UNCHANGED <<now, linked, server, view, pen, line, reader, returned, faults>>

\* Mutant: the last feed is not noticed.
FeedDonePast(p, committed) ==
    [job EXCEPT ![p] =
        IF @.feed = 1 /\ ~committed THEN [@ EXCEPT !.pc = "failed"]
        ELSE [@ EXCEPT !.pc = "pick", !.feed = job[p].feed + 1, !.level = 1]]

\* The feed is done with, for better or worse; without a commit to the user's own
\* feed the job ends.
FeedDone(p, committed) ==
    [job EXCEPT ![p] =
        IF @.feed = 1 /\ ~committed THEN [@ EXCEPT !.pc = "failed"]
        ELSE IF @.feed = Len(linked[p]) THEN [@ EXCEPT !.pc = "done"]
        ELSE [@ EXCEPT !.pc = "pick", !.feed = job[p].feed + 1, !.level = 1]]

\* The next narrower bucket, if there is one.
Narrower(p) ==
    IF job[p].level = Len(Durations) THEN FeedDone(p, FALSE)
    ELSE [job EXCEPT ![p].pc = "pick", ![p].level = @ + 1]

\* get_minimum_post_pow asserts that the bucket is longer than a minute, the finest
\* duration there is: a job that gets so far takes its task down with it.
Pick(p) ==
    LET f == FeedOf(p)
        b == BucketOf(p)
        bundle == GetPostBundle(f, b)
    IN  /\ job[p].pc = "pick"
        /\ \/ /\ Keep(f, b)
              /\ job' = IF bundle.overflowed \/ bundle.sealed THEN Narrower(p)
                        ELSE IF job[p].level = Len(Durations)
                        THEN [job EXCEPT ![p].pc = "panicked"]
                        ELSE [job EXCEPT ![p].pc = "claim"]
              /\ UNCHANGED faults
           \/ /\ FetchFails(f, b)
              /\ job' = FeedDone(p, FALSE)
        /\ UNCHANGED <<now, linked, server, pen, line, reader, returned>>

\* A claim counts as a grant even when it is the one that seals the row.
Granted(f, b) ==
    LET s == server[f][b]
    IN  IF s.sealed THEN s
        ELSE [s EXCEPT !.granted = @ + 1,
                       !.sealed = \/ Cardinality(s.posts) > MaxPosts
                                  \/ s.granted + 1 > MaxGranted
                                  \/ Elapsed(b)]

Claim(p) ==
    LET f == FeedOf(p)
        b == BucketOf(p)
    IN  /\ job[p].pc = "claim"
        /\ \/ /\ server' = [server EXCEPT ![f][b] = Granted(f, b)]
              /\ job' = IF Granted(f, b).sealed THEN Narrower(p)
                        ELSE [job EXCEPT ![p].pc = "commit"]
              /\ UNCHANGED faults
           \/ /\ Fault
              /\ job' = Narrower(p)
              /\ server' \in {server, [server EXCEPT ![f][b] = Granted(f, b)]}
        /\ UNCHANGED <<now, linked, view, pen, line, reader, returned>>

\* The post goes into the bundle; the row's seal is that of the header.
WithPost(f, b, p) ==
    LET s == server[f][b]
        posts == s.posts \cup {p}
        overflowed == Cardinality(posts) > MaxPosts \/ s.granted > MaxGranted
    IN  [s EXCEPT !.posts = posts, !.overflowed = overflowed,
                  !.sealed = overflowed \/ Elapsed(b)]

Penned(p) == pen \cup {<<FeedOf(p), p>>}

\* The commit is stored and answered, or only stored, or neither.
Commit(p) ==
    LET f == FeedOf(p)
        b == BucketOf(p)
        stored == [server EXCEPT ![f][b] = WithPost(f, b, p)]
    IN  /\ job[p].pc = "commit"
        /\ \/ /\ server' = stored
              /\ pen' = Penned(p)
              /\ job' = FeedDone(p, TRUE)
              /\ UNCHANGED faults
           \/ /\ Fault
              /\ server' \in {server, stored}
              /\ job' = Narrower(p)
              /\ UNCHANGED pen
        /\ UNCHANGED <<now, linked, view, line, reader, returned>>

-----------------------------------------------------------------------------
(***************************************************************************)
(* Reading: MultipleTimeline asks its SingleTimelines in turn, each of     *)
(* which walks the tree of buckets anew, from now back to a month before   *)
(* the oldest bucket it has opened so far.                                 *)
(***************************************************************************)
\* One that was never asked comes first; otherwise far back and many posts cost.
Penalty(f) ==
    IF line[f].processed = None THEN -1
    ELSE now - line[f].processed + Hour * Cardinality(line[f].seen)

NotBefore(t) == IF t < 0 THEN 0 ELSE t

\* The frame with which a walk from time back to oldest starts.
FirstFrame(time, oldest) ==
    [kind |-> "open", level |-> 1, time |-> RoundDown(time, 1), oldest |-> RoundDown(oldest, 1)]

\* Mutant: the posts of the timelines before are dropped.
BeginFeedFresh(lines, todo, time, page) ==
    LET f == Head(todo)
        l == [lines[f] EXCEPT !.allowed = IF @ = None THEN time ELSE @,
                              !.processed = IF @ = None THEN time ELSE @]
    IN  /\ line' = [lines EXCEPT ![f] = l]
        /\ reader' = [todo |-> todo, time |-> time, page |-> {}, got |-> {},
                      frames |-> <<FirstFrame(time, NotBefore(l.allowed - Month))>>]

\* The walk of the first timeline of todo begins.
BeginFeed(lines, todo, time, page) ==
    LET f == Head(todo)
        l == [lines[f] EXCEPT !.allowed = IF @ = None THEN time ELSE @,
                              !.processed = IF @ = None THEN time ELSE @]
    IN  /\ line' = [lines EXCEPT ![f] = l]
        /\ reader' = [todo |-> todo, time |-> time, page |-> page, got |-> {},
                      frames |-> <<FirstFrame(time, NotBefore(l.allowed - Month))>>]

GetMorePosts ==
    /\ reader = None
    /\ \E order \in SetToSeqs(UNION {Range(linked[p]) : p \in Post}) :
          /\ order # <<>>
          /\ \A i, j \in DOMAIN order : i < j => Penalty(order[i]) <= Penalty(order[j])
          /\ BeginFeed(line, order, now, {})
    /\ UNCHANGED <<now, linked, server, view, job, pen, returned, faults>>

Reading == reader # None /\ reader.frames # <<>>

Top == Head(reader.frames)

Sibling(fr) ==
    LET t == fr.time - Durations[fr.level]
    IN  IF t >= fr.oldest THEN <<[fr EXCEPT !.time = t]>> ELSE <<>>

\* The children of a bucket, from its end or the end of the walk backwards.
Children(fr) ==
    LET level == fr.level + 1
        last == fr.time + Durations[fr.level] - Durations[level]
        newest == RoundDown(reader.time, level)
    IN  IF fr.level = Len(Durations) THEN <<>>
        ELSE <<[kind |-> "open", level |-> level, oldest |-> fr.time,
                time |-> IF newest < last THEN newest ELSE last]>>

\* Mutant: the children of a bucket are not looked at.
OpenedShallow(fr, overflowed) == <<[fr EXCEPT !.kind = "close"]>> \o Sibling(fr)

\* The stack after a bucket was opened.
Opened(fr, overflowed) ==
    (IF overflowed THEN Children(fr) ELSE <<>>)
        \o <<[fr EXCEPT !.kind = "close"]>> \o Sibling(fr)

TooRecent(fr) == fr.time >= reader.time

Open ==
    LET f == Head(reader.todo)
        b == <<Top.level, Top.time>>
    IN  /\ Reading
        /\ Top.kind = "open"
        /\ \/ /\ TooRecent(Top)
              /\ reader' = [reader EXCEPT !.frames = Sibling(Top) \o Tail(@)]
              /\ UNCHANGED <<view, line, faults>>
           \/ /\ ~TooRecent(Top)
              /\ Keep(f, b)
              /\ line' = [line EXCEPT ![f].allowed = IF Top.time < @ THEN Top.time ELSE @]
              /\ reader' = [reader EXCEPT
                    !.frames = Opened(Top, GetPostBundle(f, b).overflowed) \o Tail(@)]
              /\ UNCHANGED faults
           \/ /\ ~TooRecent(Top)
              /\ FetchFails(f, b)
              /\ line' = [line EXCEPT ![f].allowed = IF Top.time < @ THEN Top.time ELSE @]
              /\ reader' = None
        /\ UNCHANGED <<now, linked, server, job, pen, returned>>

Close ==
    LET f == Head(reader.todo)
        b == <<Top.level, Top.time>>
        processed == [line EXCEPT ![f].processed = IF Top.time < @ THEN Top.time ELSE @]
        new == GetPostBundle(f, b).posts \ line[f].seen
        got == reader.got \cup new
    IN  /\ Reading
        /\ Top.kind = "close"
        /\ \/ /\ Keep(f, b)
              /\ line' = [processed EXCEPT ![f].seen = @ \cup new]
              /\ reader' = [reader EXCEPT !.got = got,
                    !.frames = IF Cardinality(got) < FeedPageSize THEN Tail(@) ELSE <<>>]
              /\ UNCHANGED faults
           \/ /\ FetchFails(f, b)
              /\ line' = processed
              /\ reader' = None
        /\ UNCHANGED <<now, linked, server, job, pen, returned>>

\* Mutant: what comes from the pen is not noted as seen.
SeenWithoutPen(f, penned) == line[f].seen

SeenWithPen(f, penned) == line[f].seen \cup penned

\* The walk of one timeline is over: the pen is pruned and adds what the walk did not
\* find.  The page is returned when it is full or no timeline is left.
EndFeed ==
    LET f == Head(reader.todo)
        fresh == {e \in pen : job[e[2]].time >= reader.time - PenTTL}
        penned == {p \in Post : <<f, p>> \in fresh} \ line[f].seen
        page == reader.page \cup ({f} \X (reader.got \cup penned))
        seen == [line EXCEPT ![f].seen = SeenWithPen(f, penned)]
    IN  /\ reader # None /\ reader.frames = <<>>
        /\ pen' = fresh
        /\ \/ /\ Len(reader.todo) = 1 \/ Cardinality(page) >= PageSize
              /\ line' = seen
              /\ reader' = None
              /\ returned' = [g \in Feed |-> returned[g] \cup {p \in Post : <<g, p>> \in page}]
           \/ /\ Len(reader.todo) > 1 /\ Cardinality(page) < PageSize
              /\ BeginFeed(seen, Tail(reader.todo), reader.time, page)
              /\ UNCHANGED returned
        /\ UNCHANGED <<now, linked, server, view, job, faults>>

-----------------------------------------------------------------------------
Tick ==
    /\ now < MaxTime
    /\ now' = now + 1
    /\ UNCHANGED <<linked, server, view, job, pen, line, reader, returned, faults>>

Next ==
    \/ \E p \in Post : SubmitPost(p) \/ Pick(p) \/ Claim(p) \/ Commit(p)
    \/ GetMorePosts \/ Open \/ Close \/ EndFeed
    \/ \E f \in Feed, b \in Bucket : Expire(f, b)
    \/ Tick

\* The executor runs the background task and the reader's futures; the user keeps
\* scrolling; an unsealed bundle is five minutes old some time.
Fairness ==
    /\ \A p \in Post : WF_vars(Pick(p)) /\ WF_vars(Claim(p)) /\ WF_vars(Commit(p))
    /\ WF_vars(GetMorePosts) /\ WF_vars(Open) /\ WF_vars(Close) /\ WF_vars(EndFeed)
    /\ \A f \in Feed, b \in Bucket : WF_vars(Expire(f, b))
    /\ WF_vars(Tick)

Spec == Init /\ [][Next]_vars /\ Fairness

-----------------------------------------------------------------------------
(***************************************************************************)
(* Properties.                                                             *)
(***************************************************************************)
\* The posts of feed f that are on their way to the user.
Paged(f) ==
    IF reader = None THEN {}
    ELSE {p \in Post : <<f, p>> \in reader.page}
             \cup (IF f = Head(reader.todo) THEN reader.got ELSE {})

\* A post that a timeline has noted as seen (post_ids_already_seen) has been returned to
\* the user or is on a page that will be; only a failed request may lose one.
SeenIsReturned ==
    faults = 0 => \A f \in Feed : line[f].seen \subseteq returned[f] \cup Paged(f)

\* No post is given to the user twice, however it reached the timeline: from the network,
\* from two buckets, or from the pen.
NeverTwice == \A f \in Feed : Paged(f) \cap returned[f] = {}

\* The ancestors of a bucket, and the bucket: the walk of a reader passes through them.
Path(b) == {<<i, RoundDown(b[2], i)>> : i \in 1 .. b[1]}

\* A bucket is reached by readers when all the wider ones around it say they overflowed.
Reached(f, b) == \A a \in Path(b) \ {b} : server[f][a].overflowed

\* buckets.rs: "When a bucket overflows at one granularity the client recurses into the
\* finer granularity".  A post that was committed lies where readers come by.
PostedIsReachable ==
    \A f \in Feed, p \in Post :
        (\E b \in Bucket : p \in server[f][b].posts)
            => \E b \in Bucket : p \in server[f][b].posts /\ Reached(f, b)

\* In the end the user has been shown every post that a server stored, in every feed it
\* is in: readers open the buckets it went to, or the pen has it, while bundles go stale.
StoredIsReturned ==
    <>[](\/ faults > 0
         \/ \A f \in Feed, b \in Bucket : server[f][b].posts \subseteq returned[f])

\* A timeline gives every post it has marked as seen, and gives none twice, however the
\* calls of get_more_posts, the pen and the background posting interleave.
TimelineInv == TypeOK /\ SeenIsReturned /\ NeverTwice
=============================================================================
