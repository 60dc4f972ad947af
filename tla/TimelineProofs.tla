---------------------------- MODULE TimelineProofs ----------------------------
(***************************************************************************)
(* Proofs about Timeline: what a timeline has noted as seen was returned   *)
(* or is about to be, nothing is returned twice, and the walk of a reader  *)
(* only ever opens buckets.  At the end, the handles through which the     *)
(* bindings page their timelines (Sessions).                               *)
(***************************************************************************)
EXTENDS Timeline, Sessions, FiniteSetTheorems, TLAPS

-----------------------------------------------------------------------------
(***************************************************************************)
(* Buckets.                                                                *)
(***************************************************************************)

\* The constants are numbers, and there is a widest duration.
LEMMA Constants ==
    /\ Len(Durations) \in Nat /\ 1 \in Level /\ Len(Durations) \in Level
    /\ \A i \in Level : Durations[i] \in Nat /\ Durations[i] > 0
    /\ \A i \in Level : i # Len(Durations) => i + 1 \in Level
    /\ Level \subseteq Nat
    /\ {NumPosts, MaxPosts, MaxGranted, Threshold, Start, MaxTime, MaxFaults, Month} \subseteq Nat
    /\ Start \in Time /\ 0 \in Time /\ Time \subseteq Nat
<1>1. Durations \in Seq(Nat \ {0}) /\ Durations # <<>>
  BY TimelineAssumption
<1>2. Len(Durations) \in Nat /\ Len(Durations) > 0 /\ \A i \in 1 .. Len(Durations) : Durations[i] \in Nat \ {0}
  BY <1>1
<1>3. Month \in Nat
  BY <1>2, TimelineAssumption DEF Level
<1>4. {NumPosts, MaxPosts, MaxGranted, Threshold, Start, MaxTime, MaxFaults, Month} \subseteq Nat
  BY <1>3, TimelineAssumption
<1>5. Start \in Time /\ 0 \in Time /\ Time \subseteq Nat
  BY <1>4, TimelineAssumption DEF Time
<1>6. 1 \in Level /\ Len(Durations) \in Level /\ Level \subseteq Nat
  BY <1>2 DEF Level
<1>7. \A i \in Level : Durations[i] \in Nat /\ Durations[i] > 0
  BY <1>2 DEF Level
<1>8. \A i \in Level : i # Len(Durations) => i + 1 \in Level
  BY <1>2 DEF Level
<1> QED
  BY <1>2, <1>4, <1>5, <1>6, <1>7, <1>8

\* Multiples of a number, and division by it.
LEMMA Division ==
    ASSUME NEW t \in Nat, NEW d \in Nat, d > 0
    PROVE  /\ t \div d \in Nat /\ (t \div d) * d \in Nat /\ (t \div d) * d <= t
           /\ t % d = 0 => (t \div d) * d = t
<1>1. t \div d \in Nat /\ t % d \in 0 .. d - 1 /\ t = d * (t \div d) + (t % d)
  OBVIOUS
<1>2. d * (t \div d) = (t \div d) * d /\ (t \div d) * d \in Nat
  BY <1>1
<1> QED
  BY <1>1, <1>2

LEMMA MultipleOf ==
    ASSUME NEW k \in Nat, NEW d \in Nat, d > 0
    PROVE  (k * d) \div d = k
<1> DEFINE q == (k * d) \div d
<1>1. k * d \in Nat
  OBVIOUS
<1>2. q \in Nat /\ (k * d) % d \in 0 .. d - 1 /\ k * d = d * q + ((k * d) % d)
  BY <1>1
<1>3. (k - q) * d \in 0 .. d - 1
  <2>1. (k - q) * d = k * d - d * q
    BY <1>2
  <2> QED
    BY <1>2, <2>1
<1> HIDE DEF q
<1>4. ~(k > q)
  <2> SUFFICES ASSUME k > q PROVE FALSE
    OBVIOUS
  <2>1. k - q >= 1 /\ k - q \in Nat
    BY <1>2
  <2>2. (k - q) * d >= d
    BY <2>1
  <2> QED
    BY <1>3, <2>2
<1>5. ~(k < q)
  <2> SUFFICES ASSUME k < q PROVE FALSE
    OBVIOUS
  <2>1. q - k >= 1 /\ q - k \in Nat
    BY <1>2
  <2>2. (q - k) * d >= d
    BY <2>1
  <2>3. (k - q) * d = -((q - k) * d) /\ (q - k) * d \in Nat
    BY <1>2, <2>1
  <2> HIDE DEF q
  <2>4. (k - q) * d < 0
    BY <2>2, <2>3
  <2> QED
    BY <1>3, <2>4
<1>6. k = q
  BY <1>2, <1>4, <1>5
<1> QED
  BY <1>6 DEF q
\* Rounding down gives the last multiple of a duration that is not later.
LEMMA Rounded ==
    ASSUME NEW t \in Nat, NEW i \in Level
    PROVE  /\ RoundDown(t, i) \in Nat /\ RoundDown(t, i) <= t
           /\ \E k \in Nat : RoundDown(t, i) = k * Durations[i]
<1>1. Durations[i] \in Nat /\ Durations[i] > 0
  BY Constants
<1> QED
  BY <1>1, Division DEF RoundDown

\* A bucket starts at a multiple of its duration, and every multiple starts a bucket.
LEMMA MultiplesAreBuckets ==
    ASSUME NEW i \in Level, NEW t \in Time
    PROVE  <<i, t>> \in Bucket <=> \E k \in Nat : t = k * Durations[i]
<1>1. Durations[i] \in Nat /\ Durations[i] > 0 /\ t \in Nat
  BY Constants
<1>2. <<i, t>> \in Bucket <=> t = RoundDown(t, i)
  BY DEF Bucket
<1>3. \A k \in Nat : t = k * Durations[i] => t = RoundDown(t, i)
  <2> TAKE k \in Nat
  <2> HAVE t = k * Durations[i]
  <2>1. t \div Durations[i] = k
    BY <1>1, MultipleOf
  <2> QED
    BY <2>1 DEF RoundDown
<1> QED
  BY <1>1, <1>2, <1>3, Rounded

\* Earlier times are times.
LEMMA EarlierTime ==
    ASSUME NEW t \in Time, NEW u \in Nat, u <= t
    PROVE  u \in Time
BY Constants DEF Time

\* BucketLocation::round_down_to_bucket_start gives a bucket.
LEMMA RoundedBucket ==
    ASSUME NEW t \in Time, NEW i \in Level
    PROVE  RoundDown(t, i) \in Time /\ <<i, RoundDown(t, i)>> \in Bucket
<1>1. t \in Nat
  BY Constants
<1>2. RoundDown(t, i) \in Time
  BY <1>1, Rounded, EarlierTime
<1> QED
  BY <1>1, <1>2, Rounded, MultiplesAreBuckets

\* A wider duration is a multiple of the next narrower one.
LEMMA Divided ==
    ASSUME NEW i \in Level, i # Len(Durations)
    PROVE  \E m \in Nat : m > 0 /\ Durations[i] = m * Durations[i + 1]
<1> DEFINE d == Durations[i]
           e == Durations[i + 1]
<1>1. i + 1 \in Level /\ i \in Nat /\ i >= 1
  BY Constants DEF Level
<1>2. d \in Nat /\ d > 0 /\ e \in Nat /\ e > 0
  BY <1>1, Constants
<1>3. d % e = 0
  <2>1. (i + 1) - 1 = i /\ i + 1 > 1
    BY <1>1
  <2>2. Durations[(i + 1) - 1] % Durations[i + 1] = 0
    BY <1>1, <2>1, TimelineAssumption
  <2> QED
    BY <2>1, <2>2
<1> HIDE DEF d, e
<1>4. (d \div e) * e = d /\ d \div e \in Nat
  BY <1>2, <1>3, Division
<1>5. d \div e # 0
  BY <1>2, <1>4
<1>6. \E m \in Nat : m > 0 /\ d = m * e
  BY <1>4, <1>5
<1> QED
  BY <1>6 DEF d, e
-----------------------------------------------------------------------------
(***************************************************************************)
(* The inductive invariant.                                                *)
(***************************************************************************)
\* A row of grants that is not sealed may be claimed once more.
RowsOpen == \A f \in Feed, b \in Bucket :
                ~server[f][b].sealed => server[f][b].granted <= MaxGranted

Posting == {"pick", "claim", "commit"}

\* A job that is still posting posts to one of its feeds.
JobsPosting == \A p \in Post : job[p].pc \in Posting => job[p].feed \in 1 .. Len(linked[p])

\* The frames of a walk are those of buckets.
BucketFrame == {fr \in Frame : <<fr.level, fr.time>> \in Bucket}

ReaderOnCourse == reader # None => reader.todo # <<>> /\ reader.frames \in Seq(BucketFrame)

\* What a timeline has given away, or is about to, it has noted as seen.
NotedSeen == \A f \in Feed : returned[f] \cup Paged(f) \subseteq line[f].seen

IInv == /\ TypeOK /\ RowsOpen /\ JobsPosting /\ ReaderOnCourse
        /\ NotedSeen /\ SeenIsReturned /\ NeverTwice

-----------------------------------------------------------------------------
(***************************************************************************)
(* Posting.                                                                *)
(***************************************************************************)
\* Jobs as the invariant wants them.
GoodJobs(jobs) ==
    /\ jobs \in [Post -> Job]
    /\ \A p \in Post : /\ jobs[p].feed <= Len(linked[p])
                       /\ jobs[p].pc \in Posting => jobs[p].feed \in 1 .. Len(linked[p])

\* Rows as the invariant wants them.
GoodRows(rows) ==
    /\ rows \in [Feed -> [Bucket -> Bundle]]
    /\ \A f \in Feed, b \in Bucket : ~rows[f][b].sealed => rows[f][b].granted <= MaxGranted

LEMMA Lengths ==
    ASSUME TypeOK, NEW p \in Post
    PROVE  linked[p] \in Seq(Feed) /\ Len(linked[p]) \in Nat
<1>1. linked \in [Post -> Seq(Feed)]
  BY TimelineAssumption DEF TypeOK
<1> QED
  BY <1>1

LEMMA GoodNow ==
    ASSUME IInv
    PROVE  GoodJobs(job) /\ GoodRows(server)
BY DEF IInv, TypeOK, RowsOpen, JobsPosting, GoodJobs, GoodRows

\* Replacing one job by a good one.
LEMMA OneJob ==
    ASSUME IInv, NEW p \in Post, NEW j \in Job, j.feed <= Len(linked[p]),
           j.pc \in Posting => j.feed \in 1 .. Len(linked[p])
    PROVE  GoodJobs([job EXCEPT ![p] = j])
<1> DEFINE jobs == [job EXCEPT ![p] = j]
<1>1. GoodJobs(job)
  BY GoodNow
<1>2. jobs \in [Post -> Job] /\ jobs[p] = j /\ \A q \in Post : q # p => jobs[q] = job[q]
  BY <1>1 DEF GoodJobs
<1> HIDE DEF jobs
<1>3. GoodJobs(jobs)
  <2> SUFFICES ASSUME NEW q \in Post
               PROVE  /\ jobs[q].feed <= Len(linked[q])
                      /\ jobs[q].pc \in Posting => jobs[q].feed \in 1 .. Len(linked[q])
    BY <1>2 DEF GoodJobs
  <2>1. CASE q = p
    BY <1>2, <2>1
  <2>2. CASE q # p
    BY <1>1, <1>2, <2>2 DEF GoodJobs
  <2> QED
    BY <2>1, <2>2
<1> QED
  BY <1>3 DEF jobs

LEMMA JobTyped ==
    ASSUME IInv, NEW p \in Post
    PROVE  /\ job \in [Post -> Job] /\ job[p] \in Job
           /\ job[p].feed \in Nat /\ job[p].level \in Level /\ job[p].time \in Time
           /\ job[p].feed <= Len(linked[p])
           /\ job[p].pc \in Posting => job[p].feed \in 1 .. Len(linked[p])
<1>1. GoodJobs(job)
  BY GoodNow
<1>2. job[p] \in Job
  BY <1>1 DEF GoodJobs
<1>3. job[p].feed \in Nat /\ job[p].level \in Level /\ job[p].time \in Time
  BY <1>2 DEF Job
<1> QED
  BY <1>1, <1>2, <1>3 DEF GoodJobs

\* Only the step of the job changes, to one that its feed allows.
LEMMA Stepped ==
    ASSUME IInv, NEW p \in Post,
           NEW pc \in {"new", "pick", "claim", "commit", "done", "failed", "panicked"},
           job[p].pc \in Posting
    PROVE  GoodJobs([job EXCEPT ![p].pc = pc])
<1> DEFINE j == [job[p] EXCEPT !.pc = pc]
<1>1. j \in Job /\ j.feed = job[p].feed
  BY JobTyped DEF Job
<1>2. j.feed <= Len(linked[p]) /\ j.feed \in 1 .. Len(linked[p])
  BY <1>1, JobTyped
<1>3. [job EXCEPT ![p].pc = pc] = [job EXCEPT ![p] = j]
  BY JobTyped
<1> HIDE DEF j
<1>4. GoodJobs([job EXCEPT ![p] = j])
  BY <1>1, <1>2, OneJob
<1> QED
  BY <1>3, <1>4

\* A feed is done with.
LEMMA DoneTyped ==
    ASSUME IInv, NEW p \in Post, NEW committed \in BOOLEAN, job[p].pc \in Posting
    PROVE  GoodJobs(FeedDone(p, committed))
<1>2. job[p] \in Job /\ job[p].feed \in 1 .. Len(linked[p]) /\ Len(linked[p]) \in Nat
  BY JobTyped, Lengths DEF IInv
<1>3. 1 \in Level /\ job[p].feed <= Len(linked[p]) /\ job[p].feed + 1 \in Nat
  BY <1>2, Constants
<1>4. CASE job[p].feed = 1 /\ ~committed
  <2> DEFINE j == [job[p] EXCEPT !.pc = "failed"]
  <2>1. FeedDone(p, committed) = [job EXCEPT ![p] = j]
    BY <1>4, JobTyped DEF FeedDone
  <2>2. j \in Job /\ j.feed = job[p].feed
    BY <1>2 DEF Job
  <2> HIDE DEF j
  <2>3. j.feed <= Len(linked[p]) /\ j.feed \in 1 .. Len(linked[p])
    BY <1>2, <1>3, <2>2
  <2> QED
    BY <2>1, <2>2, <2>3, OneJob
<1>5. CASE ~(job[p].feed = 1 /\ ~committed) /\ job[p].feed = Len(linked[p])
  <2> DEFINE j == [job[p] EXCEPT !.pc = "done"]
  <2>1. FeedDone(p, committed) = [job EXCEPT ![p] = j]
    BY <1>5, JobTyped DEF FeedDone
  <2>2. j \in Job /\ j.feed = job[p].feed
    BY <1>2 DEF Job
  <2> HIDE DEF j
  <2>3. j.feed <= Len(linked[p]) /\ j.feed \in 1 .. Len(linked[p])
    BY <1>2, <1>3, <2>2
  <2> QED
    BY <2>1, <2>2, <2>3, OneJob
<1>6. CASE ~(job[p].feed = 1 /\ ~committed) /\ job[p].feed # Len(linked[p])
  <2> DEFINE j == [job[p] EXCEPT !.pc = "pick", !.feed = job[p].feed + 1, !.level = 1]
  <2>1. FeedDone(p, committed) = [job EXCEPT ![p] = j]
    <3>1. ~(job[p].feed = 1 /\ ~committed) /\ ~(job[p].feed = Len(linked[p]))
      BY <1>6
    <3> QED
      BY <3>1 DEF FeedDone
  <2>2. j = [pc |-> "pick", time |-> job[p].time, feed |-> job[p].feed + 1, level |-> 1]
    <3> DEFINE k == [job[p] EXCEPT !.pc = "pick"]
    <3>1. k = [pc |-> "pick", time |-> job[p].time, feed |-> job[p].feed, level |-> job[p].level]
      BY <1>2 DEF Job
    <3> HIDE DEF k
    <3>2. [k EXCEPT !.feed = job[p].feed + 1]
          = [pc |-> "pick", time |-> job[p].time, feed |-> job[p].feed + 1, level |-> job[p].level]
      BY <3>1
    <3> DEFINE l == [k EXCEPT !.feed = job[p].feed + 1]
    <3>3. l = [pc |-> "pick", time |-> job[p].time, feed |-> job[p].feed + 1, level |-> job[p].level]
      BY <3>2
    <3> HIDE DEF l
    <3>4. [l EXCEPT !.level = 1]
          = [pc |-> "pick", time |-> job[p].time, feed |-> job[p].feed + 1, level |-> 1]
      BY <3>3
    <3> QED
      BY <3>4 DEF k, l
  <2>3. j \in Job /\ j.feed = job[p].feed + 1
    BY <2>2, <1>3, JobTyped DEF Job
  <2>4. j.feed \in 1 .. Len(linked[p]) /\ j.feed <= Len(linked[p])
    BY <1>2, <1>6, <2>3
  <2> HIDE DEF j
  <2> QED
    BY <2>1, <2>3, <2>4, OneJob
<1> QED
  BY <1>4, <1>5, <1>6

\* The next narrower bucket is tried.
LEMMA NarrowerTyped ==
    ASSUME IInv, NEW p \in Post, job[p].pc \in Posting
    PROVE  GoodJobs(Narrower(p))
<1>1. CASE job[p].level = Len(Durations)
  BY <1>1, DoneTyped DEF Narrower
<1>2. CASE job[p].level # Len(Durations)
  <2> DEFINE j == [job[p] EXCEPT !.pc = "pick", !.level = @ + 1]
  <2>1. job[p].level + 1 \in Level /\ job[p] \in Job
    BY <1>2, JobTyped, Constants
  <2>2. j \in Job /\ j.feed = job[p].feed
    BY <2>1 DEF Job
  <2>3. j.feed \in 1 .. Len(linked[p]) /\ j.feed <= Len(linked[p])
    BY <2>2, JobTyped
  <2>4. Narrower(p) = [job EXCEPT ![p] = j]
    BY <1>2, JobTyped DEF Narrower
  <2> HIDE DEF j
  <2> QED
    BY <2>2, <2>3, <2>4, OneJob
<1> QED
  BY <1>1, <1>2

\* The feed and the bucket that a job posts to.
LEMMA Target ==
    ASSUME IInv, NEW p \in Post, job[p].pc \in Posting
    PROVE  FeedOf(p) \in Feed /\ BucketOf(p) \in Bucket
<1>1. job[p].feed \in 1 .. Len(linked[p]) /\ linked[p] \in Seq(Feed)
  BY JobTyped, Lengths DEF IInv
<1>2. FeedOf(p) \in Feed
  BY <1>1 DEF FeedOf
<1>3. BucketOf(p) \in Bucket
  BY JobTyped, RoundedBucket DEF BucketOf
<1> QED
  BY <1>2, <1>3

\* Replacing one row by a good one.
LEMMA OneRow ==
    ASSUME IInv, NEW f \in Feed, NEW b \in Bucket, NEW s \in Bundle,
           ~s.sealed => s.granted <= MaxGranted
    PROVE  GoodRows([server EXCEPT ![f][b] = s])
<1> DEFINE rows == [server EXCEPT ![f][b] = s]
<1>1. GoodRows(server)
  BY GoodNow
<1>2. rows \in [Feed -> [Bucket -> Bundle]]
  BY <1>1 DEF GoodRows
<1>3. \A g \in Feed, c \in Bucket : rows[g][c] = IF g = f /\ c = b THEN s ELSE server[g][c]
  BY <1>1 DEF GoodRows
<1> HIDE DEF rows
<1>4. GoodRows(rows)
  BY <1>1, <1>2, <1>3 DEF GoodRows
<1> QED
  BY <1>4 DEF rows

\* A claim is granted.
LEMMA GrantedGood ==
    ASSUME IInv, NEW f \in Feed, NEW b \in Bucket
    PROVE  GoodRows([server EXCEPT ![f][b] = Granted(f, b)])
<1> DEFINE s == server[f][b]
           sealing == \/ Cardinality(s.posts) > MaxPosts
                      \/ s.granted + 1 > MaxGranted
                      \/ Elapsed(b)
<1>1. s \in Bundle /\ (~s.sealed => s.granted <= MaxGranted)
  BY GoodNow DEF GoodRows
<1>2. MaxGranted \in Nat
  BY Constants
<1>3. CASE s.sealed
  <2>1. Granted(f, b) = s
    BY <1>3 DEF Granted
  <2> QED
    BY <1>1, <2>1, OneRow
<1>4. CASE ~s.sealed
  <2>1. Granted(f, b) = [s EXCEPT !.granted = @ + 1, !.sealed = sealing]
    BY <1>4 DEF Granted
  <2>2. s.granted \in Nat /\ s.granted <= MaxGranted
    BY <1>1, <1>2, <1>4 DEF Bundle
  <2>3. sealing \in BOOLEAN /\ (~sealing => s.granted + 1 <= MaxGranted)
    BY <1>2, <2>2 DEF Elapsed
  <2> HIDE DEF sealing
  <2>4. s.granted + 1 \in 0 .. MaxGranted + 1
    BY <1>2, <2>2
  <2>5. Granted(f, b) \in Bundle /\ Granted(f, b).sealed = sealing
        /\ Granted(f, b).granted = s.granted + 1
    BY <1>1, <2>1, <2>3, <2>4 DEF Bundle
  <2> HIDE DEF s
  <2> QED
    BY <2>3, <2>5, OneRow
<1> QED
  BY <1>3, <1>4

\* A commit is stored.
LEMMA StoredGood ==
    ASSUME IInv, NEW f \in Feed, NEW b \in Bucket, NEW p \in Post
    PROVE  GoodRows([server EXCEPT ![f][b] = WithPost(f, b, p)])
<1> DEFINE s == server[f][b]
           posts == s.posts \cup {p}
           overflowed == Cardinality(posts) > MaxPosts \/ s.granted > MaxGranted
           sealed == overflowed \/ Elapsed(b)
<1>1. s \in Bundle
  BY GoodNow DEF GoodRows
<1>2. MaxGranted \in Nat /\ s.granted \in Nat
  BY <1>1, Constants DEF Bundle
<1>3. sealed \in BOOLEAN /\ overflowed \in BOOLEAN /\ posts \in SUBSET Post
  BY <1>1 DEF Bundle, Elapsed
<1>4. ~sealed => s.granted <= MaxGranted
  BY <1>2
<1>5. WithPost(f, b, p) = [s EXCEPT !.posts = posts, !.overflowed = overflowed, !.sealed = sealed]
  BY DEF WithPost
<1> HIDE DEF overflowed, sealed, posts
<1>6. WithPost(f, b, p) \in Bundle /\ WithPost(f, b, p).sealed = sealed
      /\ WithPost(f, b, p).granted = s.granted
  BY <1>1, <1>3, <1>5 DEF Bundle
<1> HIDE DEF s
<1> QED
  BY <1>4, <1>6, OneRow
\* What the bundle manager answers, fetched or stored.
LEMMA AnswerKept ==
    ASSUME IInv, NEW f \in Feed, NEW b \in Bucket
    PROVE  /\ GetPostBundle(f, b) \in View
           /\ Keep(f, b) => view' \in [Feed -> [Bucket -> View \cup {None}]]
<1>1. server[f][b] \in Bundle /\ view \in [Feed -> [Bucket -> View \cup {None}]]
  BY DEF IInv, TypeOK
<1>2. Elapsed(b) \in BOOLEAN
  BY DEF Elapsed
<1>3. Fetched(f, b) \in View
  BY <1>1, <1>2 DEF Fetched, View, Bundle
<1>4. GetPostBundle(f, b) \in View
  BY <1>1, <1>3 DEF GetPostBundle
<1>5. Keep(f, b) => view' \in [Feed -> [Bucket -> View \cup {None}]]
  BY <1>1, <1>4 DEF Keep
<1> QED
  BY <1>4, <1>5

LEMMA Faulty ==
    ASSUME IInv, Fault
    PROVE  faults' \in 0 .. MaxFaults /\ faults' # 0
<1>1. faults \in 0 .. MaxFaults /\ MaxFaults \in Nat
  BY Constants DEF IInv, TypeOK
<1> QED
  BY <1>1 DEF Fault

\* A step of the posting side leaves the timelines as they are.
LEMMA TimelinesUntouched ==
    ASSUME IInv, UNCHANGED <<linked, line, reader, returned>>, UNCHANGED faults \/ Fault,
           pen' \subseteq Feed \X Post, now' \in Time,
           view' \in [Feed -> [Bucket -> View \cup {None}]],
           GoodJobs(job'), GoodRows(server')
    PROVE  IInv'
<1>1. faults' \in 0 .. MaxFaults /\ (faults' = 0 => faults = 0)
  BY Faulty DEF IInv, TypeOK
<1>2. TypeOK'
  BY <1>1 DEF IInv, TypeOK, GoodJobs, GoodRows
<1>3. RowsOpen'
  BY DEF RowsOpen, GoodRows
<1>4. JobsPosting'
  BY DEF JobsPosting, GoodJobs
<1>5. ReaderOnCourse'
  BY DEF IInv, ReaderOnCourse
<1>6. \A f \in Feed : Paged(f)' = Paged(f)
  BY DEF Paged
<1>7. NotedSeen'
  BY <1>6 DEF IInv, NotedSeen
<1>8. SeenIsReturned'
  BY <1>1, <1>6 DEF IInv, SeenIsReturned
<1>9. NeverTwice'
  BY <1>6 DEF IInv, NeverTwice
<1> QED
  BY <1>2, <1>3, <1>4, <1>5, <1>7, <1>8, <1>9 DEF IInv

LEMMA StillTyped ==
    ASSUME IInv
    PROVE  /\ now \in Time /\ pen \subseteq Feed \X Post
           /\ view \in [Feed -> [Bucket -> View \cup {None}]]
           /\ GoodJobs(job) /\ GoodRows(server)
BY GoodNow DEF IInv, TypeOK

LEMMA SubmitPostStep ==
    ASSUME IInv, NEW p \in Post, SubmitPost(p)
    PROVE  IInv'
<1> DEFINE j == [pc |-> "pick", time |-> now, feed |-> 1, level |-> job[p].level]
<1>1. job[p] \in Job /\ now \in Time /\ linked[p] \in Seq(Feed) /\ linked[p] # <<>>
  BY JobTyped, StillTyped, Lengths DEF IInv, SubmitPost
<1>2. j \in Job /\ j.feed = 1
  BY <1>1, JobTyped DEF Job
<1>3. 1 \in 1 .. Len(linked[p]) /\ 1 <= Len(linked[p])
  BY <1>1
<1>4. job' = [job EXCEPT ![p] = j]
  <2> DEFINE k == [job EXCEPT ![p].pc = "pick"]
             l == [k EXCEPT ![p].time = now]
             jk == [pc |-> "pick", time |-> job[p].time, feed |-> job[p].feed, level |-> job[p].level]
             jl == [pc |-> "pick", time |-> now, feed |-> job[p].feed, level |-> job[p].level]
  <2>1. job' = [l EXCEPT ![p].feed = 1]
    BY DEF SubmitPost
  <2>2. job \in [Post -> Job]
    BY JobTyped
  <2>3. k = [job EXCEPT ![p] = jk]
    <3>1. [job[p] EXCEPT !.pc = "pick"] = jk
      BY <1>1 DEF Job
    <3> QED
      BY <3>1, Zenon
  <2>4. k[p] = jk /\ DOMAIN k = Post /\ \A q \in Post : q # p => k[q] = job[q]
    BY <2>2, <2>3
  <2> HIDE DEF k
  <2>5. l = [k EXCEPT ![p] = jl]
    <3>1. [jk EXCEPT !.time = now] = jl
      OBVIOUS
    <3> HIDE DEF jk, jl
    <3> QED
      BY <2>4, <3>1, Zenon
  <2>6. l[p] = jl /\ DOMAIN l = Post /\ \A q \in Post : q # p => l[q] = job[q]
    BY <2>3, <2>4, <2>5
  <2> HIDE DEF l
  <2>7. [l EXCEPT ![p].feed = 1] = [l EXCEPT ![p] = j]
    <3>1. [jl EXCEPT !.feed = 1] = j
      OBVIOUS
    <3> HIDE DEF jl, j
    <3> QED
      BY <2>6, <3>1, Zenon
  <2> HIDE DEF j, jl
  <2>8. [l EXCEPT ![p] = j] = [job EXCEPT ![p] = j]
    <3>1. l \in [Post -> {l[q] : q \in Post}]
      <4>1. l = [k EXCEPT ![p] = jl] /\ DOMAIN l = Post
        BY <2>5, <2>6
      <4>2. \A q \in DOMAIN k : l[q] \in {l[r] : r \in Post}
        BY <2>4
      <4> QED
        BY <2>4, <4>1, <4>2
    <3> QED
      BY <2>2, <2>6, <3>1
  <2> QED
    BY <2>1, <2>7, <2>8
<1> HIDE DEF j
<1>5. GoodJobs([job EXCEPT ![p] = j])
  BY <1>2, <1>3, OneJob
<1>6. GoodJobs(job') /\ GoodRows(server')
  BY <1>4, <1>5, StillTyped DEF SubmitPost
<1>7. pen' \subseteq Feed \X Post /\ now' \in Time /\ view' \in [Feed -> [Bucket -> View \cup {None}]]
  BY StillTyped DEF SubmitPost
<1>8. UNCHANGED <<linked, line, reader, returned>> /\ UNCHANGED faults
  BY DEF SubmitPost
<1> QED
  BY <1>6, <1>7, <1>8, TimelinesUntouched

LEMMA PickStep ==
    ASSUME IInv, NEW p \in Post, Pick(p)
    PROVE  IInv'
<1> DEFINE f == FeedOf(p)
           b == BucketOf(p)
<1>1. job[p].pc = "pick" /\ job[p].pc \in Posting
  BY DEF Pick, Posting
<1>2. f \in Feed /\ b \in Bucket
  BY <1>1, Target
<1>3. UNCHANGED <<now, linked, server, pen, line, reader, returned>>
  BY DEF Pick
<1>4. \/ Keep(f, b) /\ UNCHANGED faults
      \/ FetchFails(f, b)
  BY DEF Pick
<1>5. job' \in {Narrower(p), [job EXCEPT ![p].pc = "panicked"], [job EXCEPT ![p].pc = "claim"],
                FeedDone(p, FALSE)}
  BY DEF Pick
<1> HIDE DEF f, b
<1>6. GoodJobs(Narrower(p)) /\ GoodJobs(FeedDone(p, FALSE))
  BY <1>1, NarrowerTyped, DoneTyped
<1>7. GoodJobs([job EXCEPT ![p].pc = "panicked"]) /\ GoodJobs([job EXCEPT ![p].pc = "claim"])
  BY <1>1, Stepped
<1>8. GoodJobs(job')
  BY <1>5, <1>6, <1>7
<1>9. view' \in [Feed -> [Bucket -> View \cup {None}]] /\ (UNCHANGED faults \/ Fault)
  BY <1>2, <1>4, AnswerKept, StillTyped DEF FetchFails
<1>10. GoodRows(server') /\ pen' \subseteq Feed \X Post /\ now' \in Time
  BY <1>3, StillTyped
<1> QED
  BY <1>3, <1>8, <1>9, <1>10, TimelinesUntouched

LEMMA ClaimStep ==
    ASSUME IInv, NEW p \in Post, Claim(p)
    PROVE  IInv'
<1> DEFINE f == FeedOf(p)
           b == BucketOf(p)
<1>1. job[p].pc = "claim" /\ job[p].pc \in Posting
  BY DEF Claim, Posting
<1>2. f \in Feed /\ b \in Bucket
  BY <1>1, Target
<1>3. UNCHANGED <<now, linked, view, pen, line, reader, returned>>
  BY DEF Claim
<1>4. server' \in {server, [server EXCEPT ![f][b] = Granted(f, b)]} /\ (UNCHANGED faults \/ Fault)
  BY DEF Claim
<1>5. job' \in {Narrower(p), [job EXCEPT ![p].pc = "commit"]}
  BY DEF Claim
<1> HIDE DEF f, b
<1>6. GoodJobs(Narrower(p)) /\ GoodJobs([job EXCEPT ![p].pc = "commit"])
  BY <1>1, NarrowerTyped, Stepped
<1>7. GoodJobs(job')
  BY <1>5, <1>6
<1>8. GoodRows(server) /\ GoodRows([server EXCEPT ![f][b] = Granted(f, b)])
  BY <1>2, StillTyped, GrantedGood
<1>9. GoodRows(server')
  BY <1>4, <1>8
<1>10. view' \in [Feed -> [Bucket -> View \cup {None}]] /\ pen' \subseteq Feed \X Post /\ now' \in Time
  BY <1>3, StillTyped
<1> QED
  BY <1>3, <1>4, <1>7, <1>9, <1>10, TimelinesUntouched

LEMMA CommitStep ==
    ASSUME IInv, NEW p \in Post, Commit(p)
    PROVE  IInv'
<1> DEFINE f == FeedOf(p)
           b == BucketOf(p)
<1>1. job[p].pc = "commit" /\ job[p].pc \in Posting
  BY DEF Commit, Posting
<1>2. f \in Feed /\ b \in Bucket
  BY <1>1, Target
<1>3. UNCHANGED <<now, linked, view, line, reader, returned>>
  BY DEF Commit
<1>4. server' \in {server, [server EXCEPT ![f][b] = WithPost(f, b, p)]} /\ (UNCHANGED faults \/ Fault)
  BY DEF Commit
<1>5. job' \in {Narrower(p), FeedDone(p, TRUE)}
  BY DEF Commit
<1>6. pen' \in {pen, pen \cup {<<f, p>>}}
  BY DEF Commit, Penned
<1> HIDE DEF f, b
<1>7. GoodJobs(Narrower(p)) /\ GoodJobs(FeedDone(p, TRUE))
  BY <1>1, NarrowerTyped, DoneTyped
<1>8. GoodJobs(job')
  BY <1>5, <1>7
<1>9. GoodRows(server) /\ GoodRows([server EXCEPT ![f][b] = WithPost(f, b, p)])
  BY <1>2, StillTyped, StoredGood
<1>10. GoodRows(server')
  BY <1>4, <1>9
<1>11. pen' \subseteq Feed \X Post
  BY <1>2, <1>6, StillTyped
<1>12. view' \in [Feed -> [Bucket -> View \cup {None}]] /\ now' \in Time
  BY <1>3, StillTyped
<1> QED
  BY <1>3, <1>4, <1>8, <1>10, <1>11, <1>12, TimelinesUntouched

LEMMA ExpireStep ==
    ASSUME IInv, NEW f \in Feed, NEW b \in Bucket, Expire(f, b)
    PROVE  IInv'
<1>1. view' = [view EXCEPT ![f][b] = None]
      /\ UNCHANGED <<now, linked, server, job, pen, line, reader, returned, faults>>
  BY DEF Expire
<1>2. view' \in [Feed -> [Bucket -> View \cup {None}]]
  BY <1>1, StillTyped
<1>3. GoodJobs(job') /\ GoodRows(server') /\ pen' \subseteq Feed \X Post /\ now' \in Time
  <2>1. GoodJobs(job) /\ job' = job /\ linked' = linked
    BY <1>1, StillTyped
  <2>2. GoodRows(server) /\ server' = server
    BY <1>1, StillTyped
  <2> QED
    BY <1>1, <2>1, <2>2, StillTyped
<1> QED
  BY <1>1, <1>2, <1>3, TimelinesUntouched

LEMMA TickStep ==
    ASSUME IInv, Tick
    PROVE  IInv'
<1>1. UNCHANGED <<linked, server, view, job, pen, line, reader, returned, faults>>
  BY DEF Tick
<1>2. now' \in Time
  BY StillTyped, Constants DEF Tick, Time
<1>3. GoodJobs(job') /\ GoodRows(server') /\ pen' \subseteq Feed \X Post
      /\ view' \in [Feed -> [Bucket -> View \cup {None}]]
  BY <1>1, StillTyped
<1> QED
  BY <1>1, <1>2, <1>3, TimelinesUntouched
-----------------------------------------------------------------------------
(***************************************************************************)
(* Reading.                                                                *)
(***************************************************************************)
LEMMA OneFrame ==
    ASSUME NEW fr \in BucketFrame
    PROVE  <<fr>> \in Seq(BucketFrame)
OBVIOUS

LEMMA FrameTyped ==
    ASSUME NEW fr \in BucketFrame
    PROVE  /\ fr = [kind |-> fr.kind, level |-> fr.level, time |-> fr.time, oldest |-> fr.oldest]
           /\ fr.kind \in {"open", "close"} /\ fr.level \in Level
           /\ fr.time \in Time /\ fr.oldest \in Time /\ <<fr.level, fr.time>> \in Bucket
BY DEF BucketFrame, Frame

LEMMA MadeFrame ==
    ASSUME NEW kind \in {"open", "close"}, NEW level \in Level, NEW time \in Time,
           NEW oldest \in Time, <<level, time>> \in Bucket
    PROVE  [kind |-> kind, level |-> level, time |-> time, oldest |-> oldest] \in BucketFrame
BY DEF BucketFrame, Frame

\* A walk starts at a bucket.
LEMMA FirstTyped ==
    ASSUME NEW time \in Time, NEW oldest \in Time
    PROVE  FirstFrame(time, oldest) \in BucketFrame
<1>1. 1 \in Level
  BY Constants
<1>2. RoundDown(time, 1) \in Time /\ RoundDown(oldest, 1) \in Time /\ <<1, RoundDown(time, 1)>> \in Bucket
  BY <1>1, RoundedBucket
<1> QED
  BY <1>1, <1>2, MadeFrame DEF FirstFrame

\* One bucket earlier is a bucket.
LEMMA SiblingTyped ==
    ASSUME NEW fr \in BucketFrame
    PROVE  Sibling(fr) \in Seq(BucketFrame)
<1> DEFINE d == Durations[fr.level]
           t == fr.time - d
<1>1. fr.level \in Level /\ fr.time \in Time /\ fr.oldest \in Time /\ fr.kind \in {"open", "close"}
  BY FrameTyped
<1>2. d \in Nat /\ d > 0 /\ fr.time \in Nat /\ fr.oldest \in Nat
  BY <1>1, Constants
<1>3. CASE t >= fr.oldest
  <2>1. t \in Nat /\ t <= fr.time
    BY <1>2, <1>3
  <2>2. t \in Time
    BY <1>1, <2>1, EarlierTime
  <2>3. PICK k \in Nat : fr.time = k * d
    BY <1>1, FrameTyped, MultiplesAreBuckets
  <2>4. k >= 1
    BY <1>2, <2>1, <2>3
  <2>5. k - 1 \in Nat /\ t = (k - 1) * d
    BY <1>2, <2>3, <2>4
  <2>6. <<fr.level, t>> \in Bucket
    BY <1>1, <2>2, <2>5, MultiplesAreBuckets
  <2>7. [fr EXCEPT !.time = t]
        = [kind |-> fr.kind, level |-> fr.level, time |-> t, oldest |-> fr.oldest]
    BY DEF BucketFrame, Frame
  <2>8. Sibling(fr) = <<[fr EXCEPT !.time = t]>>
    BY <1>3 DEF Sibling
  <2> HIDE DEF t, d
  <2>9. [fr EXCEPT !.time = t] \in BucketFrame
    BY <1>1, <2>2, <2>6, <2>7, MadeFrame
  <2> QED
    BY <2>8, <2>9, OneFrame
<1>4. CASE ~(t >= fr.oldest)
  <2>1. Sibling(fr) = <<>>
    BY <1>4 DEF Sibling
  <2> QED
    BY <2>1
<1> QED
  BY <1>3, <1>4

\* The last child of a bucket is a bucket.
LEMMA LastChild ==
    ASSUME NEW i \in Level, i # Len(Durations), NEW t \in Nat, \E k \in Nat : t = k * Durations[i]
    PROVE  /\ t + Durations[i] - Durations[i + 1] \in Nat
           /\ \E k \in Nat : t + Durations[i] - Durations[i + 1] = k * Durations[i + 1]
<1> DEFINE d == Durations[i]
           e == Durations[i + 1]
<1>1. i + 1 \in Level
  BY Constants
<1>2. d \in Nat /\ e \in Nat
  BY <1>1, Constants
<1>3. PICK k \in Nat : t = k * d
  OBVIOUS
<1>4. PICK m \in Nat : m > 0 /\ d = m * e
  BY Divided
<1> HIDE DEF d, e
<1>5. k * m \in Nat /\ (k * m) * e = k * (m * e)
  BY <1>2
<1>6. t = (k * m) * e
  BY <1>3, <1>4, <1>5
<1>7. k * m + m - 1 \in Nat
  BY <1>4, <1>5
<1>8. t + d - e = (k * m + m - 1) * e
  <2> DEFINE n == k * m
  <2>1. n \in Nat /\ t = n * e
    BY <1>5, <1>6
  <2> HIDE DEF n
  <2>2. (n + m - 1) * e = n * e + m * e - e
    BY <1>2, <2>1
  <2> QED
    BY <1>4, <2>1, <2>2 DEF n
<1>9. (k * m + m - 1) * e \in Nat
  BY <1>2, <1>7
<1>10. t + d - e \in Nat /\ \E n \in Nat : t + d - e = n * e
  BY <1>7, <1>8, <1>9
<1> QED
  BY <1>10 DEF d, e

\* The children of a bucket are buckets.
LEMMA ChildrenTyped ==
    ASSUME NEW fr \in BucketFrame, reader.time \in Time
    PROVE  Children(fr) \in Seq(BucketFrame)
<1> DEFINE level == fr.level + 1
           last == fr.time + Durations[fr.level] - Durations[level]
           newest == RoundDown(reader.time, level)
           time == IF newest < last THEN newest ELSE last
<1>1. fr.level \in Level /\ fr.time \in Time /\ fr.time \in Nat
  BY FrameTyped, Constants
<1>2. CASE fr.level = Len(Durations)
  <2>1. Children(fr) = <<>>
    BY <1>2 DEF Children
  <2> QED
    BY <2>1
<1>3. CASE fr.level # Len(Durations)
  <2>1. level \in Level
    BY <1>1, <1>3, Constants
  <2>2. \E k \in Nat : fr.time = k * Durations[fr.level]
    BY <1>1, FrameTyped, MultiplesAreBuckets
  <2>3. last \in Nat /\ \E k \in Nat : last = k * Durations[level]
    BY <1>1, <1>3, <2>2, LastChild
  <2>4. Children(fr) = <<[kind |-> "open", level |-> level, oldest |-> fr.time, time |-> time]>>
    BY <1>3 DEF Children
  <2> HIDE DEF last, level
  <2>5. newest \in Time /\ newest \in Nat /\ <<level, newest>> \in Bucket
    BY <2>1, RoundedBucket, Constants
  <2> HIDE DEF newest
  <2>6. last <= newest => last \in Time /\ <<level, last>> \in Bucket
    BY <2>1, <2>3, <2>5, EarlierTime, MultiplesAreBuckets
  <2>7. time \in Time /\ <<level, time>> \in Bucket
    BY <2>3, <2>5, <2>6
  <2> HIDE DEF time
  <2>8. [kind |-> "open", level |-> level, time |-> time, oldest |-> fr.time] \in BucketFrame
    BY <1>1, <2>1, <2>7, MadeFrame
  <2>9. [kind |-> "open", level |-> level, oldest |-> fr.time, time |-> time] \in BucketFrame
    BY <2>8
  <2> QED
    BY <2>4, <2>9, OneFrame
<1> QED
  BY <1>2, <1>3

LEMMA Joined ==
    ASSUME NEW a \in Seq(BucketFrame), NEW b \in Seq(BucketFrame)
    PROVE  a \o b \in Seq(BucketFrame)
OBVIOUS

\* Opening a bucket leaves frames of buckets.
LEMMA OpenedTyped ==
    ASSUME NEW fr \in BucketFrame, reader.time \in Time, NEW overflowed \in BOOLEAN
    PROVE  Opened(fr, overflowed) \in Seq(BucketFrame)
<1> DEFINE c == [fr EXCEPT !.kind = "close"]
           above == IF overflowed THEN Children(fr) ELSE <<>>
<1>1. c = [kind |-> "close", level |-> fr.level, time |-> fr.time, oldest |-> fr.oldest]
  BY DEF BucketFrame, Frame
<1>2. c \in BucketFrame
  <2> HIDE DEF c
  <2>1. [kind |-> "close", level |-> fr.level, time |-> fr.time, oldest |-> fr.oldest] \in BucketFrame
    BY FrameTyped, MadeFrame
  <2> QED
    BY <1>1, <2>1
<1>3. above \in Seq(BucketFrame)
  BY ChildrenTyped
<1>4. Opened(fr, overflowed) = above \o <<c>> \o Sibling(fr)
  BY DEF Opened
<1> HIDE DEF c, above
<1>5. above \o <<c>> \in Seq(BucketFrame)
  BY <1>2, <1>3, OneFrame, Joined
<1> QED
  BY <1>4, <1>5, SiblingTyped, Joined
LEMMA Reads ==
    ASSUME IInv, reader # None
    PROVE  /\ reader \in Reader /\ reader.todo \in Seq(Feed) /\ reader.todo # <<>>
           /\ reader.time \in Time /\ reader.got \subseteq Post /\ reader.page \subseteq Feed \X Post
           /\ reader.frames \in Seq(BucketFrame) /\ Head(reader.todo) \in Feed
<1>1. reader \in Reader /\ reader.todo # <<>> /\ reader.frames \in Seq(BucketFrame)
  BY DEF IInv, TypeOK, ReaderOnCourse
<1>2. reader.todo \in Seq(Feed) /\ reader.time \in Time /\ reader.got \subseteq Post
      /\ reader.page \subseteq Feed \X Post
  BY <1>1 DEF Reader
<1>3. Head(reader.todo) \in Feed
  BY <1>1, <1>2
<1> QED
  BY <1>1, <1>2, <1>3

LEMMA FramesTyped ==
    ASSUME NEW s \in Seq(BucketFrame)
    PROVE  s \in Seq(Frame)
<1>1. \A fr \in BucketFrame : fr \in Frame
  BY DEF BucketFrame
<1> QED
  BY <1>1

\* A reader made of good parts.
LEMMA MadeReader ==
    ASSUME NEW todo \in Seq(Feed), NEW time \in Time, NEW frames \in Seq(BucketFrame),
           NEW got \in SUBSET Post, NEW page \in SUBSET (Feed \X Post)
    PROVE  [todo |-> todo, time |-> time, frames |-> frames, got |-> got, page |-> page] \in Reader
BY FramesTyped DEF Reader

\* The walk of a timeline begins: what it has seen stays.
LEMMA Begins ==
    ASSUME NEW lines \in [Feed -> Line], NEW todo \in Seq(Feed), todo # <<>>, NEW time \in Time,
           NEW page \in SUBSET (Feed \X Post), BeginFeed(lines, todo, time, page)
    PROVE  /\ line' \in [Feed -> Line]
           /\ \A f \in Feed : line'[f].seen = lines[f].seen
           /\ reader' \in Reader /\ reader'.todo = todo /\ reader'.page = page /\ reader'.got = {}
           /\ reader'.frames \in Seq(BucketFrame)
<1> DEFINE f == Head(todo)
           allowed == IF lines[f].allowed = None THEN time ELSE lines[f].allowed
           processed == IF lines[f].processed = None THEN time ELSE lines[f].processed
           l == [lines[f] EXCEPT !.allowed = allowed, !.processed = processed]
           frames == <<FirstFrame(time, NotBefore(l.allowed - Month))>>
<1>1. f \in Feed
  OBVIOUS
<1>2. lines[f] \in Line
  BY <1>1
<1>3. allowed \in Time /\ processed \in Time
  BY <1>2 DEF Line
<1>4. line' = [lines EXCEPT ![f] = l]
  BY DEF BeginFeed
<1>5. reader' = [todo |-> todo, time |-> time, page |-> page, got |-> {}, frames |-> frames]
  BY DEF BeginFeed
<1> HIDE DEF allowed, processed
<1>6. l = [allowed |-> allowed, processed |-> processed, seen |-> lines[f].seen]
  <2> DEFINE k == [lines[f] EXCEPT !.allowed = allowed]
  <2>1. k = [allowed |-> allowed, processed |-> lines[f].processed, seen |-> lines[f].seen]
    BY <1>2 DEF Line
  <2> HIDE DEF k
  <2>2. [k EXCEPT !.processed = processed]
        = [allowed |-> allowed, processed |-> processed, seen |-> lines[f].seen]
    BY <2>1
  <2> QED
    BY <2>2 DEF k
<1> HIDE DEF l
<1>7. l \in Line /\ l.seen = lines[f].seen /\ l.allowed = allowed
  BY <1>2, <1>3, <1>6 DEF Line
<1> HIDE DEF f
<1>8. line' \in [Feed -> Line] /\ \A g \in Feed : line'[g].seen = lines[g].seen
  BY <1>1, <1>4, <1>7
<1>9. NotBefore(l.allowed - Month) \in Time
  <2>1. allowed \in Nat /\ Month \in Nat /\ 0 \in Time
    BY <1>3, Constants
  <2>2. CASE allowed - Month < 0
    BY <1>7, <2>1, <2>2 DEF NotBefore
  <2>3. CASE ~(allowed - Month < 0)
    <3>1. allowed - Month \in Nat /\ allowed - Month <= allowed
      BY <2>1, <2>3
    <3> QED
      BY <1>3, <1>7, <2>3, <3>1, EarlierTime DEF NotBefore
  <2> QED
    BY <2>2, <2>3
<1>10. frames \in Seq(BucketFrame)
  BY <1>9, FirstTyped, OneFrame
<1> HIDE DEF frames
<1>11. [todo |-> todo, time |-> time, frames |-> frames, got |-> {}, page |-> page] \in Reader
  BY <1>10, MadeReader
<1>12. reader' = [todo |-> todo, time |-> time, frames |-> frames, got |-> {}, page |-> page]
  BY <1>5
<1> QED
  BY <1>8, <1>10, <1>11, <1>12

\* A step of the reader leaves the posting side as it is.
LEMMA PostingUntouched ==
    ASSUME IInv, UNCHANGED <<now, linked, server, job>>, UNCHANGED faults \/ Fault,
           pen' \subseteq Feed \X Post,
           view' \in [Feed -> [Bucket -> View \cup {None}]], line' \in [Feed -> Line],
           reader' \in Reader \cup {None}, returned' \in [Feed -> SUBSET Post],
           ReaderOnCourse', NotedSeen', SeenIsReturned', NeverTwice'
    PROVE  IInv'
<1>1. faults' \in 0 .. MaxFaults
  BY Faulty DEF IInv, TypeOK
<1>2. TypeOK'
  BY <1>1 DEF IInv, TypeOK
<1>3. RowsOpen'
  BY DEF IInv, RowsOpen
<1>4. JobsPosting'
  BY DEF IInv, JobsPosting
<1> QED
  BY <1>2, <1>3, <1>4 DEF IInv

\* get_more_posts asks the timelines in some order.
LEMMA OrderedFeeds ==
    ASSUME IInv, NEW order \in SetToSeqs(UNION {Range(linked[p]) : p \in Post})
    PROVE  order \in Seq(Feed)
<1> DEFINE S == UNION {Range(linked[p]) : p \in Post}
<1>1. S \subseteq Feed
  <2> SUFFICES ASSUME NEW p \in Post, NEW f \in Range(linked[p]) PROVE f \in Feed
    OBVIOUS
  <2>1. linked[p] \in Seq(Feed)
    BY Lengths DEF IInv
  <2> QED
    BY <2>1 DEF Range
<1>2. IsFiniteSet(S)
  BY <1>1, TimelineAssumption, FS_Subset
<1>3. Cardinality(S) \in Nat
  BY <1>2, FS_CardinalityType
<1>4. order \in [1 .. Cardinality(S) -> S]
  BY DEF SetToSeqs
<1> HIDE DEF S
<1>5. order \in Seq(S)
  BY <1>3, <1>4
<1> QED
  BY <1>1, <1>5

LEMMA GetMorePostsStep ==
    ASSUME IInv, GetMorePosts
    PROVE  IInv'
<1>1. reader = None /\ UNCHANGED <<now, linked, server, view, job, pen, returned, faults>>
  BY DEF GetMorePosts
<1>2. PICK order \in SetToSeqs(UNION {Range(linked[p]) : p \in Post}) :
          order # <<>> /\ BeginFeed(line, order, now, {})
  BY DEF GetMorePosts
<1>3. order \in Seq(Feed) /\ order # <<>> /\ now \in Time /\ line \in [Feed -> Line]
      /\ {} \in SUBSET (Feed \X Post)
  BY <1>2, OrderedFeeds DEF IInv, TypeOK
<1>4. /\ line' \in [Feed -> Line] /\ \A f \in Feed : line'[f].seen = line[f].seen
      /\ reader' \in Reader /\ reader'.todo = order /\ reader'.page = {} /\ reader'.got = {}
      /\ reader'.frames \in Seq(BucketFrame)
  BY <1>2, <1>3, Begins
<1>5. \A f \in Feed : Paged(f) = {} /\ Paged(f)' = {}
  BY <1>1, <1>4 DEF Paged
<1>6. ReaderOnCourse'
  BY <1>3, <1>4 DEF ReaderOnCourse
<1>7. NotedSeen'
  BY <1>1, <1>4, <1>5 DEF IInv, NotedSeen
<1>8. SeenIsReturned'
  BY <1>1, <1>4, <1>5 DEF IInv, SeenIsReturned
<1>9. NeverTwice'
  BY <1>5 DEF NeverTwice
<1>10. pen' \subseteq Feed \X Post /\ view' \in [Feed -> [Bucket -> View \cup {None}]]
       /\ returned' \in [Feed -> SUBSET Post]
  BY <1>1 DEF IInv, TypeOK
<1> QED
  BY <1>1, <1>4, <1>6, <1>7, <1>8, <1>9, <1>10, PostingUntouched
\* A timeline notes how far it has come; what it has seen stays.
LEMMA AllowedMoved ==
    ASSUME IInv, NEW f \in Feed, NEW t \in Time \cup {None}
    PROVE  /\ [line EXCEPT ![f].allowed = t] \in [Feed -> Line]
           /\ \A g \in Feed : [line EXCEPT ![f].allowed = t][g].seen = line[g].seen
<1>1. line \in [Feed -> Line]
  BY DEF IInv, TypeOK
<1> DEFINE l == [line[f] EXCEPT !.allowed = t]
<1>2. l \in Line /\ l.seen = line[f].seen
  BY <1>1 DEF Line
<1>3. [line EXCEPT ![f].allowed = t] = [line EXCEPT ![f] = l]
  OBVIOUS
<1> HIDE DEF l
<1>4. /\ [line EXCEPT ![f] = l] \in [Feed -> Line]
      /\ \A g \in Feed : [line EXCEPT ![f] = l][g].seen = line[g].seen
  BY <1>1, <1>2
<1> QED
  BY <1>3, <1>4

LEMMA ProcessedMoved ==
    ASSUME IInv, NEW f \in Feed, NEW t \in Time \cup {None}
    PROVE  /\ [line EXCEPT ![f].processed = t] \in [Feed -> Line]
           /\ \A g \in Feed : [line EXCEPT ![f].processed = t][g].seen = line[g].seen
<1>1. line \in [Feed -> Line]
  BY DEF IInv, TypeOK
<1> DEFINE l == [line[f] EXCEPT !.processed = t]
<1>2. l \in Line /\ l.seen = line[f].seen
  BY <1>1 DEF Line
<1>3. [line EXCEPT ![f].processed = t] = [line EXCEPT ![f] = l]
  OBVIOUS
<1> HIDE DEF l
<1>4. /\ [line EXCEPT ![f] = l] \in [Feed -> Line]
      /\ \A g \in Feed : [line EXCEPT ![f] = l][g].seen = line[g].seen
  BY <1>1, <1>2
<1> QED
  BY <1>3, <1>4

\* More posts are noted as seen.
LEMMA SeenGrows ==
    ASSUME NEW lines \in [Feed -> Line], NEW f \in Feed, NEW s \in SUBSET Post
    PROVE  /\ [lines EXCEPT ![f].seen = s] \in [Feed -> Line]
           /\ \A g \in Feed : [lines EXCEPT ![f].seen = s][g].seen = IF g = f THEN s ELSE lines[g].seen
<1> DEFINE l == [lines[f] EXCEPT !.seen = s]
<1>2. l \in Line /\ l.seen = s
  BY DEF Line
<1>3. [lines EXCEPT ![f].seen = s] = [lines EXCEPT ![f] = l]
  OBVIOUS
<1> HIDE DEF l
<1>4. /\ [lines EXCEPT ![f] = l] \in [Feed -> Line]
      /\ \A g \in Feed : [lines EXCEPT ![f] = l][g].seen = IF g = f THEN s ELSE lines[g].seen
  BY <1>2
<1> QED
  BY <1>3, <1>4

\* The walk goes on, with other frames.
LEMMA FramesMoved ==
    ASSUME IInv, reader # None, NEW frames \in Seq(BucketFrame)
    PROVE  LET r == [reader EXCEPT !.frames = frames]
           IN  /\ r \in Reader /\ r.todo = reader.todo /\ r.page = reader.page /\ r.got = reader.got
               /\ r.frames = frames
<1> DEFINE r == [reader EXCEPT !.frames = frames]
<1>1. reader \in Reader /\ frames \in Seq(Frame)
  BY Reads, FramesTyped
<1>2. r \in Reader /\ r.todo = reader.todo /\ r.page = reader.page /\ r.got = reader.got
      /\ r.frames = frames
  BY <1>1 DEF Reader
<1> QED
  BY <1>2

LEMMA WalkGoesOn ==
    ASSUME IInv, reader # None, UNCHANGED <<returned, faults>>,
           \A g \in Feed : line'[g].seen = line[g].seen,
           reader' \in Reader, reader'.todo = reader.todo, reader'.page = reader.page,
           reader'.got = reader.got, reader'.frames \in Seq(BucketFrame)
    PROVE  ReaderOnCourse' /\ NotedSeen' /\ SeenIsReturned' /\ NeverTwice'
<1>1. reader' # None
  BY NoneAssumption
<1>2. \A g \in Feed : Paged(g)' = Paged(g)
  BY <1>1 DEF Paged
<1>3. ReaderOnCourse'
  BY Reads DEF ReaderOnCourse
<1>4. NotedSeen'
  BY <1>2 DEF IInv, NotedSeen
<1>5. SeenIsReturned'
  BY <1>2 DEF IInv, SeenIsReturned
<1>6. NeverTwice'
  BY <1>2 DEF IInv, NeverTwice
<1> QED
  BY <1>3, <1>4, <1>5, <1>6

\* The call fails: what was on the page is lost, and the failure is on record.
LEMMA WalkFails ==
    ASSUME IInv, Fault, UNCHANGED returned, \A g \in Feed : line'[g].seen = line[g].seen, reader' = None
    PROVE  ReaderOnCourse' /\ NotedSeen' /\ SeenIsReturned' /\ NeverTwice'
<1>1. \A g \in Feed : Paged(g)' = {}
  BY DEF Paged
<1>2. ReaderOnCourse'
  BY DEF ReaderOnCourse
<1>3. NotedSeen'
  BY <1>1 DEF IInv, NotedSeen
<1>4. SeenIsReturned'
  BY Faulty DEF SeenIsReturned
<1>5. NeverTwice'
  BY <1>1 DEF NeverTwice
<1> QED
  BY <1>2, <1>3, <1>4, <1>5

LEMMA TopTyped ==
    ASSUME IInv, Reading
    PROVE  /\ reader # None /\ Top \in BucketFrame /\ Tail(reader.frames) \in Seq(BucketFrame)
           /\ <<Top.level, Top.time>> \in Bucket /\ Top.time \in Time
<1>1. reader # None /\ reader.frames # <<>>
  BY DEF Reading
<1>2. reader.frames \in Seq(BucketFrame)
  BY <1>1, Reads
<1>3. Top \in BucketFrame /\ Tail(reader.frames) \in Seq(BucketFrame)
  BY <1>1, <1>2 DEF Top
<1> QED
  BY <1>1, <1>3, FrameTyped

LEMMA OpenStep ==
    ASSUME IInv, Open
    PROVE  IInv'
<1> DEFINE f == Head(reader.todo)
           b == <<Top.level, Top.time>>
           t == IF Top.time < line[f].allowed THEN Top.time ELSE line[f].allowed
<1>1. Reading /\ UNCHANGED <<now, linked, server, job, pen, returned>>
  BY DEF Open
<1>2. /\ reader # None /\ Top \in BucketFrame /\ Tail(reader.frames) \in Seq(BucketFrame)
      /\ b \in Bucket /\ Top.time \in Time /\ f \in Feed /\ reader.time \in Time
  BY <1>1, TopTyped, Reads
<1>3. t \in Time \cup {None}
  <2>1. line[f] \in Line
    BY <1>2 DEF IInv, TypeOK
  <2>2. line[f].allowed \in Time \cup {None}
    BY <2>1 DEF Line
  <2> QED
    BY <1>2, <2>2
<1>4. pen' \subseteq Feed \X Post /\ returned' \in [Feed -> SUBSET Post]
  BY <1>1 DEF IInv, TypeOK
<1>5. CASE /\ reader' = [reader EXCEPT !.frames = Sibling(Top) \o Tail(reader.frames)]
           /\ UNCHANGED <<view, line, faults>>
  <2> DEFINE frames == Sibling(Top) \o Tail(reader.frames)
  <2>1. frames \in Seq(BucketFrame)
    BY <1>2, SiblingTyped, Joined
  <2> HIDE DEF frames
  <2>2. /\ reader' \in Reader /\ reader'.todo = reader.todo /\ reader'.page = reader.page
        /\ reader'.got = reader.got /\ reader'.frames \in Seq(BucketFrame)
    BY <1>2, <1>5, <2>1, FramesMoved DEF frames
  <2>3. ReaderOnCourse' /\ NotedSeen' /\ SeenIsReturned' /\ NeverTwice'
    BY <1>1, <1>2, <1>5, <2>2, WalkGoesOn
  <2>4. view' \in [Feed -> [Bucket -> View \cup {None}]] /\ line' \in [Feed -> Line]
    BY <1>5 DEF IInv, TypeOK
  <2> QED
    BY <1>1, <1>4, <1>5, <2>2, <2>3, <2>4, PostingUntouched
<1>6. CASE /\ Keep(f, b)
           /\ line' = [line EXCEPT ![f].allowed = t]
           /\ reader' = [reader EXCEPT
                !.frames = Opened(Top, GetPostBundle(f, b).overflowed) \o Tail(reader.frames)]
           /\ UNCHANGED faults
  <2> DEFINE frames == Opened(Top, GetPostBundle(f, b).overflowed) \o Tail(reader.frames)
  <2>1. GetPostBundle(f, b) \in View /\ view' \in [Feed -> [Bucket -> View \cup {None}]]
    BY <1>2, <1>6, AnswerKept
  <2>2. GetPostBundle(f, b).overflowed \in BOOLEAN
    BY <2>1 DEF View
  <2>3. frames \in Seq(BucketFrame)
    BY <1>2, <2>2, OpenedTyped, Joined
  <2> HIDE DEF frames
  <2>4. /\ reader' \in Reader /\ reader'.todo = reader.todo /\ reader'.page = reader.page
        /\ reader'.got = reader.got /\ reader'.frames \in Seq(BucketFrame)
    BY <1>2, <1>6, <2>3, FramesMoved DEF frames
  <2> HIDE DEF t, f, b
  <2>5. line' \in [Feed -> Line] /\ \A g \in Feed : line'[g].seen = line[g].seen
    BY <1>2, <1>3, <1>6, AllowedMoved
  <2>6. ReaderOnCourse' /\ NotedSeen' /\ SeenIsReturned' /\ NeverTwice'
    BY <1>1, <1>2, <1>6, <2>4, <2>5, WalkGoesOn
  <2> QED
    BY <1>1, <1>4, <1>6, <2>1, <2>4, <2>5, <2>6, PostingUntouched
<1>7. CASE FetchFails(f, b) /\ line' = [line EXCEPT ![f].allowed = t] /\ reader' = None
  <2> HIDE DEF t, f, b
  <2>1. Fault /\ view' = view
    BY <1>7 DEF FetchFails
  <2>2. line' \in [Feed -> Line] /\ \A g \in Feed : line'[g].seen = line[g].seen
    BY <1>2, <1>3, <1>7, AllowedMoved
  <2>3. ReaderOnCourse' /\ NotedSeen' /\ SeenIsReturned' /\ NeverTwice'
    BY <1>1, <1>7, <2>1, <2>2, WalkFails
  <2>4. view' \in [Feed -> [Bucket -> View \cup {None}]]
    BY <2>1 DEF IInv, TypeOK
  <2> QED
    BY <1>1, <1>4, <1>7, <2>1, <2>2, <2>3, <2>4, PostingUntouched
<1> QED
  BY <1>5, <1>6, <1>7 DEF Open
\* A bundle is read: the posts the timeline has not seen are noted and collected.
LEMMA PostsCollected ==
    ASSUME IInv, reader # None, UNCHANGED <<returned, faults>>,
           NEW f \in Feed, f = Head(reader.todo), NEW new \in SUBSET Post, new \cap line[f].seen = {},
           \A g \in Feed : line'[g].seen = IF g = f THEN line[f].seen \cup new ELSE line[g].seen,
           reader' \in Reader, reader'.todo = reader.todo, reader'.page = reader.page,
           reader'.got = reader.got \cup new, reader'.frames \in Seq(BucketFrame)
    PROVE  ReaderOnCourse' /\ NotedSeen' /\ SeenIsReturned' /\ NeverTwice'
<1>1. reader' # None
  BY NoneAssumption
<1>2. \A g \in Feed : Paged(g)' = Paged(g) \cup (IF g = f THEN new ELSE {})
  BY <1>1 DEF Paged
<1>3. ReaderOnCourse'
  BY Reads DEF ReaderOnCourse
<1>4. \A g \in Feed : returned[g] \cup Paged(g) \subseteq line[g].seen
  BY DEF IInv, NotedSeen
<1>5. NotedSeen'
  BY <1>2, <1>4 DEF NotedSeen
<1>6. SeenIsReturned'
  <2> SUFFICES ASSUME faults = 0, NEW g \in Feed
               PROVE  line'[g].seen \subseteq returned[g] \cup Paged(g)'
    BY DEF SeenIsReturned
  <2>1. line[g].seen \subseteq returned[g] \cup Paged(g)
    BY DEF IInv, SeenIsReturned
  <2> QED
    BY <1>2, <2>1
<1>7. NeverTwice'
  <2> SUFFICES ASSUME NEW g \in Feed PROVE Paged(g)' \cap returned[g] = {}
    BY DEF NeverTwice
  <2>1. Paged(g) \cap returned[g] = {}
    BY DEF IInv, NeverTwice
  <2>2. g = f => new \cap returned[g] = {}
    BY <1>4
  <2> QED
    BY <1>2, <2>1, <2>2
<1> QED
  BY <1>3, <1>5, <1>6, <1>7

LEMMA CloseStep ==
    ASSUME IInv, Close
    PROVE  IInv'
<1> DEFINE f == Head(reader.todo)
           b == <<Top.level, Top.time>>
           t == IF Top.time < line[f].processed THEN Top.time ELSE line[f].processed
           processed == [line EXCEPT ![f].processed = t]
           new == GetPostBundle(f, b).posts \ line[f].seen
           got == reader.got \cup new
           frames == IF Cardinality(got) < FeedPageSize THEN Tail(reader.frames) ELSE <<>>
<1>1. Reading /\ UNCHANGED <<now, linked, server, job, pen, returned>>
  BY DEF Close
<1>2. /\ reader # None /\ Tail(reader.frames) \in Seq(BucketFrame) /\ reader \in Reader
      /\ b \in Bucket /\ Top.time \in Time /\ f \in Feed /\ reader.got \subseteq Post
  BY <1>1, TopTyped, Reads
<1>3. line \in [Feed -> Line] /\ line[f] \in Line
  BY <1>2 DEF IInv, TypeOK
<1>4. t \in Time \cup {None} /\ line[f].seen \subseteq Post
  <2>1. line[f].processed \in Time \cup {None} /\ line[f].seen \subseteq Post
    BY <1>3 DEF Line
  <2> QED
    BY <1>2, <2>1
<1>5. pen' \subseteq Feed \X Post /\ returned' \in [Feed -> SUBSET Post]
  BY <1>1 DEF IInv, TypeOK
<1>6. processed \in [Feed -> Line] /\ \A g \in Feed : processed[g].seen = line[g].seen
  <2> HIDE DEF t, f
  <2> QED
    BY <1>2, <1>4, ProcessedMoved
<1>7. GetPostBundle(f, b) \in View /\ (Keep(f, b) => view' \in [Feed -> [Bucket -> View \cup {None}]])
  BY <1>2, AnswerKept
<1>8. new \in SUBSET Post /\ new \cap line[f].seen = {} /\ got \in SUBSET Post
  BY <1>2, <1>7 DEF View
<1>9. frames \in Seq(BucketFrame) /\ frames \in Seq(Frame)
  BY <1>2, FramesTyped
<1>10. \/ /\ Keep(f, b)
          /\ line' = [processed EXCEPT ![f].seen = processed[f].seen \cup new]
          /\ reader' = [[reader EXCEPT !.got = got] EXCEPT !.frames = frames]
          /\ UNCHANGED faults
       \/ FetchFails(f, b) /\ line' = processed /\ reader' = None
  BY DEF Close
<1> HIDE DEF f, b, t, processed, new, frames
<1>11. CASE /\ Keep(f, b)
            /\ line' = [processed EXCEPT ![f].seen = processed[f].seen \cup new]
            /\ reader' = [[reader EXCEPT !.got = got] EXCEPT !.frames = frames]
            /\ UNCHANGED faults
  <2>1. processed[f].seen \cup new \in SUBSET Post
    BY <1>2, <1>4, <1>6, <1>8
  <2>2. /\ line' \in [Feed -> Line]
        /\ \A g \in Feed : line'[g].seen = IF g = f THEN line[f].seen \cup new ELSE line[g].seen
    <3> DEFINE s == processed[f].seen \cup new
    <3>1. s \in SUBSET Post /\ line' = [processed EXCEPT ![f].seen = s] /\ s = line[f].seen \cup new
      BY <1>2, <1>6, <1>11, <2>1
    <3> HIDE DEF s
    <3>2. /\ line' \in [Feed -> Line]
          /\ \A g \in Feed : line'[g].seen = IF g = f THEN s ELSE processed[g].seen
      <4>1. processed \in [Feed -> Line] /\ f \in Feed
        BY <1>2, <1>6
      <4>2. /\ [processed EXCEPT ![f].seen = s] \in [Feed -> Line]
            /\ \A g \in Feed : [processed EXCEPT ![f].seen = s][g].seen
                                   = IF g = f THEN s ELSE processed[g].seen
        BY <3>1, <4>1, SeenGrows
      <4> QED
        BY <3>1, <4>2
    <3> QED
      BY <1>6, <3>1, <3>2
  <2> DEFINE r == [reader EXCEPT !.got = got]
  <2>3. /\ r \in Reader /\ r.todo = reader.todo /\ r.page = reader.page /\ r.got = got
    BY <1>2, <1>8 DEF Reader
  <2>4. reader' = [r EXCEPT !.frames = frames]
    BY <1>11
  <2> HIDE DEF r
  <2>5. /\ reader' \in Reader /\ reader'.todo = r.todo /\ reader'.page = r.page /\ reader'.got = r.got
        /\ reader'.frames = frames
    BY <1>9, <2>3, <2>4 DEF Reader
  <2>6. /\ reader'.todo = reader.todo /\ reader'.page = reader.page
        /\ reader'.got = reader.got \cup new /\ reader'.frames \in Seq(BucketFrame)
    BY <1>9, <2>3, <2>5
  <2>7. ReaderOnCourse' /\ NotedSeen' /\ SeenIsReturned' /\ NeverTwice'
    <3>1. f = Head(reader.todo)
      BY DEF f
    <3> QED
      BY <1>1, <1>2, <1>8, <1>11, <2>2, <2>5, <2>6, <3>1, PostsCollected
  <2> QED
    BY <1>1, <1>5, <1>7, <1>11, <2>2, <2>5, <2>7, PostingUntouched
<1>12. CASE FetchFails(f, b) /\ line' = processed /\ reader' = None
  <2>1. Fault /\ view' = view
    BY <1>12 DEF FetchFails
  <2>2. ReaderOnCourse' /\ NotedSeen' /\ SeenIsReturned' /\ NeverTwice'
    BY <1>1, <1>6, <1>12, <2>1, WalkFails
  <2>3. view' \in [Feed -> [Bucket -> View \cup {None}]] /\ line' \in [Feed -> Line]
    BY <1>6, <1>12, <2>1 DEF IInv, TypeOK
  <2> QED
    BY <1>1, <1>5, <1>12, <2>1, <2>2, <2>3, PostingUntouched
<1> QED
  BY <1>10, <1>11, <1>12

LEMMA EndFeedStep ==
    ASSUME IInv, EndFeed
    PROVE  IInv'
<1> DEFINE f == Head(reader.todo)
           fresh == {e \in pen : job[e[2]].time >= reader.time - PenTTL}
           penned == {p \in Post : <<f, p>> \in fresh} \ line[f].seen
           page == reader.page \cup ({f} \X (reader.got \cup penned))
           seen == [line EXCEPT ![f].seen = line[f].seen \cup penned]
<1>1. reader # None /\ UNCHANGED <<now, linked, server, view, job, faults>> /\ pen' = fresh
  BY DEF EndFeed
<1>2. \/ /\ line' = seen /\ reader' = None
         /\ returned' = [g \in Feed |-> returned[g] \cup {p \in Post : <<g, p>> \in page}]
      \/ /\ Len(reader.todo) > 1
         /\ BeginFeed(seen, Tail(reader.todo), reader.time, page)
         /\ UNCHANGED returned
  BY DEF EndFeed, SeenWithPen
<1>3. /\ reader \in Reader /\ reader.todo \in Seq(Feed) /\ reader.time \in Time
      /\ reader.got \subseteq Post /\ reader.page \subseteq Feed \X Post /\ f \in Feed
  BY <1>1, Reads
<1>4. pen' \subseteq Feed \X Post
  BY <1>1 DEF IInv, TypeOK
<1>5. line \in [Feed -> Line] /\ line[f] \in Line /\ line[f].seen \subseteq Post
      /\ returned \in [Feed -> SUBSET Post] /\ view' \in [Feed -> [Bucket -> View \cup {None}]]
  BY <1>1, <1>3 DEF IInv, TypeOK, Line
<1>6. penned \in SUBSET Post /\ penned \cap line[f].seen = {}
  OBVIOUS
<1> HIDE DEF fresh, penned
<1>7. page \in SUBSET (Feed \X Post)
  BY <1>3, <1>6
<1>8. \A g \in Feed : {p \in Post : <<g, p>> \in page} = Paged(g) \cup (IF g = f THEN penned ELSE {})
  BY <1>1, <1>3, <1>6 DEF Paged
<1> HIDE DEF page
<1>9. /\ seen \in [Feed -> Line]
      /\ \A g \in Feed : seen[g].seen = IF g = f THEN line[f].seen \cup penned ELSE line[g].seen
  <2> DEFINE s == line[f].seen \cup penned
             l == [line[f] EXCEPT !.seen = s]
  <2>1. s \in SUBSET Post
    BY <1>5, <1>6
  <2>2. seen = [line EXCEPT ![f] = l]
    OBVIOUS
  <2> HIDE DEF f, s, seen
  <2>3. l \in Line /\ l.seen = s
    BY <1>5, <2>1 DEF Line
  <2> HIDE DEF l
  <2>4. /\ seen \in [Feed -> Line]
        /\ \A g \in Feed : seen[g].seen = IF g = f THEN s ELSE line[g].seen
    BY <1>3, <1>5, <2>2, <2>3
  <2> QED
    BY <2>4 DEF s
<1> HIDE DEF seen, f
<1> DEFINE Due(g) == {p \in Post : <<g, p>> \in page}
<1>10. \A g \in Feed : returned[g] \cup Due(g) \subseteq seen[g].seen
  <2> SUFFICES ASSUME NEW g \in Feed PROVE returned[g] \cup Due(g) \subseteq seen[g].seen
    OBVIOUS
  <2>1. returned[g] \cup Paged(g) \subseteq line[g].seen
    BY DEF IInv, NotedSeen
  <2> QED
    BY <1>8, <1>9, <2>1
<1>11. ASSUME faults = 0, NEW g \in Feed PROVE seen[g].seen \subseteq returned[g] \cup Due(g)
  <2>1. line[g].seen \subseteq returned[g] \cup Paged(g)
    BY <1>11 DEF IInv, SeenIsReturned
  <2> QED
    BY <1>8, <1>9, <2>1
<1>12. \A g \in Feed : Due(g) \cap returned[g] = {}
  <2> SUFFICES ASSUME NEW g \in Feed PROVE Due(g) \cap returned[g] = {}
    OBVIOUS
  <2>1. Paged(g) \cap returned[g] = {} /\ returned[g] \subseteq line[g].seen
    BY DEF IInv, NeverTwice, NotedSeen
  <2> QED
    BY <1>6, <1>8, <2>1
<1>13. CASE /\ line' = seen /\ reader' = None
            /\ returned' = [g \in Feed |-> returned[g] \cup {p \in Post : <<g, p>> \in page}]
  <2>1. \A g \in Feed : Paged(g)' = {} /\ returned'[g] = returned[g] \cup Due(g)
    BY <1>13 DEF Paged
  <2>2. returned' \in [Feed -> SUBSET Post]
    BY <1>5, <1>13
  <2> HIDE DEF Due
  <2>3. ReaderOnCourse'
    BY <1>13 DEF ReaderOnCourse
  <2>4. NotedSeen'
    BY <1>10, <1>13, <2>1 DEF NotedSeen
  <2>5. SeenIsReturned'
    BY <1>1, <1>11, <1>13, <2>1 DEF SeenIsReturned
  <2>6. NeverTwice'
    BY <2>1 DEF NeverTwice
  <2> QED
    BY <1>1, <1>4, <1>5, <1>9, <1>13, <2>2, <2>3, <2>4, <2>5, <2>6, PostingUntouched
<1>14. CASE /\ Len(reader.todo) > 1
            /\ BeginFeed(seen, Tail(reader.todo), reader.time, page)
            /\ UNCHANGED returned
  <2>1. Tail(reader.todo) \in Seq(Feed) /\ Tail(reader.todo) # <<>>
    <3> DEFINE todo == reader.todo
    <3>1. todo \in Seq(Feed) /\ Len(todo) > 1
      BY <1>3, <1>14
    <3> HIDE DEF todo
    <3>2. Len(todo) \in Nat /\ todo # <<>>
      BY <3>1
    <3>3. Tail(todo) \in Seq(Feed) /\ Len(Tail(todo)) = Len(todo) - 1
      BY <3>1, <3>2
    <3>4. Len(Tail(todo)) # 0
      BY <3>1, <3>2, <3>3
    <3>5. Tail(todo) # <<>>
      BY <3>4
    <3> QED
      BY <3>3, <3>5 DEF todo
  <2>2. /\ line' \in [Feed -> Line] /\ \A g \in Feed : line'[g].seen = seen[g].seen
        /\ reader' \in Reader /\ reader'.todo = Tail(reader.todo) /\ reader'.page = page
        /\ reader'.got = {} /\ reader'.frames \in Seq(BucketFrame)
    BY <1>3, <1>7, <1>9, <1>14, <2>1, Begins
  <2>3. reader' # None
    BY <2>2, NoneAssumption
  <2>4. \A g \in Feed : Paged(g)' = Due(g)
    BY <2>2, <2>3 DEF Paged
  <2> HIDE DEF Due
  <2>5. ReaderOnCourse'
    BY <2>1, <2>2 DEF ReaderOnCourse
  <2>6. NotedSeen'
    BY <1>10, <1>14, <2>2, <2>4 DEF NotedSeen
  <2>7. SeenIsReturned'
    BY <1>1, <1>11, <1>14, <2>2, <2>4 DEF SeenIsReturned
  <2>8. NeverTwice'
    BY <1>12, <1>14, <2>4 DEF NeverTwice
  <2> QED
    BY <1>1, <1>4, <1>5, <1>14, <2>2, <2>5, <2>6, <2>7, <2>8, PostingUntouched
<1> QED
  BY <1>2, <1>13, <1>14

-----------------------------------------------------------------------------
(***************************************************************************)
(* Theorems.                                                               *)
(***************************************************************************)
LEMMA InitInd == Init => IInv
<1> SUFFICES ASSUME Init PROVE IInv
  OBVIOUS
<1>1. 1 \in Level /\ 0 \in Time /\ Start \in Time /\ MaxGranted \in Nat /\ MaxFaults \in Nat
  BY Constants
<1>2. server \in [Feed -> [Bucket -> Bundle]]
  <2>1. [posts |-> {}, granted |-> 0, sealed |-> FALSE, overflowed |-> FALSE] \in Bundle
    BY <1>1 DEF Bundle
  <2> QED
    BY <2>1 DEF Init
<1>3. job \in [Post -> Job] /\ \A p \in Post : job[p].feed = 0 /\ job[p].pc = "new"
  BY <1>1 DEF Init, Job
<1>4. line \in [Feed -> Line] /\ \A f \in Feed : line[f].seen = {}
  BY DEF Init, Line
<1>5. \A p \in Post : job[p].feed <= Len(linked[p])
  <2> SUFFICES ASSUME NEW p \in Post PROVE job[p].feed <= Len(linked[p])
    OBVIOUS
  <2>1. linked \in [Post -> Seq(Feed)]
    BY TimelineAssumption DEF Init
  <2>2. Len(linked[p]) \in Nat
    BY <2>1
  <2> QED
    BY <1>3, <2>2
<1>6. TypeOK
  <2>1. now \in Time /\ linked \in Links /\ reader \in Reader \cup {None} /\ pen \subseteq Feed \X Post
    BY <1>1 DEF Init
  <2>2. view \in [Feed -> [Bucket -> View \cup {None}]]
    BY DEF Init
  <2>3. returned \in [Feed -> SUBSET Post] /\ faults \in 0 .. MaxFaults
    BY <1>1 DEF Init
  <2> QED
    BY <1>2, <1>3, <1>4, <1>5, <2>1, <2>2, <2>3 DEF TypeOK
<1>7. RowsOpen
  BY <1>1 DEF Init, RowsOpen
<1>8. JobsPosting
  BY <1>3 DEF JobsPosting, Posting
<1>9. \A f \in Feed : Paged(f) = {}
  BY DEF Init, Paged
<1>10. ReaderOnCourse
  BY DEF Init, ReaderOnCourse
<1>11. NotedSeen /\ SeenIsReturned /\ NeverTwice
  BY <1>4, <1>9 DEF Init, NotedSeen, SeenIsReturned, NeverTwice
<1> QED
  BY <1>6, <1>7, <1>8, <1>10, <1>11 DEF IInv

LEMMA NextInd == IInv /\ [Next]_vars => IInv'
<1> SUFFICES ASSUME IInv, [Next]_vars PROVE IInv'
  OBVIOUS
<1>1. CASE UNCHANGED vars
  <2>1. UNCHANGED <<now, linked, server, view, job, pen, line, reader, returned, faults>>
    BY <1>1 DEF vars
  <2>2. pen' \subseteq Feed \X Post /\ now' \in Time /\ view' \in [Feed -> [Bucket -> View \cup {None}]]
    BY <2>1, StillTyped
  <2>3. GoodJobs(job') /\ GoodRows(server')
    BY <2>1, StillTyped
  <2> QED
    BY <2>1, <2>2, <2>3, TimelinesUntouched
<1>2. CASE \E p \in Post : SubmitPost(p) \/ Pick(p) \/ Claim(p) \/ Commit(p)
  BY <1>2, SubmitPostStep, PickStep, ClaimStep, CommitStep
<1>3. CASE GetMorePosts \/ Open \/ Close \/ EndFeed
  BY <1>3, GetMorePostsStep, OpenStep, CloseStep, EndFeedStep
<1>4. CASE \E f \in Feed, b \in Bucket : Expire(f, b)
  BY <1>4, ExpireStep
<1>5. CASE Tick
  BY <1>5, TickStep
<1> QED
  BY <1>1, <1>2, <1>3, <1>4, <1>5 DEF Next

\* The invariant holds of every behaviour.
THEOREM Inductive == Spec => []IInv
BY InitInd, NextInd, PTL DEF Spec

\* A timeline gives every post it has noted as seen, unless a request failed, and gives
\* none twice, however posting, reading and the expiry of bundles interleave, for any
\* feeds, links, durations and limits.
THEOREM TimelinesGiveOnce == Spec => []TimelineInv
<1>1. IInv => TimelineInv
  BY DEF IInv, TimelineInv
<1> QED
  BY <1>1, Inductive, PTL
-----------------------------------------------------------------------------
(***************************************************************************)
(* The handles of the bindings: the inductive invariant.                   *)
(***************************************************************************)
Bindings == {"python", "nodejs", "rust", "wasm"}

IsTimeline(t) == DOMAIN t = {"type", "ids", "page"} /\ t.page \in Nat

SessionShapes ==
  /\ DOMAIN sessions = SHandles /\ DOMAIN given = SHandles /\ DOMAIN calls = SHandles
  /\ \A h \in SHandles : DOMAIN given[h] = {"single", "multiple"} /\ DOMAIN calls[h] = CallSlots
  /\ DOMAIN offered = Places /\ \A p \in Places : Guest \notin offered[p]

\* A session that was opened, the timelines it has as they were last given, and whose it is.
OpenedWell(s, g) ==
  /\ DOMAIN s = {"binding", "client", "logged_in", "single", "multiple"}
  /\ s.binding \in Bindings
  /\ s.binding # "rust" => (s.logged_in <=> s.client # Guest)
  /\ s.single = g.single /\ (s.single # Unset => IsTimeline(s.single))
  /\ s.multiple = g.multiple /\ (s.multiple # Unset => IsTimeline(s.multiple))

SessionsWell ==
  \A h \in SHandles : sessions[h].binding \notin {"none", "opening"} => OpenedWell(sessions[h], given[h])

\* A call under way is of an open session, and asks the client for what was meant.
CallsMeant ==
  \A h \in SHandles, c \in CallSlots :
    calls[h][c] # Unset =>
      /\ sessions[h].binding \in Bindings
      /\ calls[h][c].op = calls[h][c].meant

SessionsInd == SessionShapes /\ SessionsWell /\ CallsMeant /\ AnswerBelongs /\ PagesInOrder

LEMMA LoggedInFollows == SessionsInd => LoggedInIsOwn
BY DEF SessionsInd, SessionsWell, OpenedWell, LoggedInIsOwn, IsOpen

LEMMA SessionsStart == SessionsInit => SessionsInd
<1> SUFFICES ASSUME SessionsInit PROVE SessionsInd
  OBVIOUS
<1>1. SessionShapes
  <2>1. DOMAIN offered = Places /\ \A p \in Places : Guest \notin offered[p]
    BY DEF SessionsInit
  <2> QED
    BY <2>1 DEF SessionsInit, SessionShapes
<1>2. SessionsWell /\ CallsMeant /\ AnswerBelongs /\ PagesInOrder
  BY DEF SessionsInit, NoSession, SessionsWell, CallsMeant, AnswerBelongs, PagesInOrder
<1> QED
  BY <1>1, <1>2 DEF SessionsInd

\* A session is opened on a handle that has none.
LEMMA OpenHandleStep ==
  ASSUME SessionsInd, NEW h \in SHandles, sessions[h].binding \in {"none", "opening"},
         NEW b \in Bindings, NEW k, NEW logged, b # "rust" => (logged <=> k # Guest),
         OpenSession(h, NewSession(b, k, logged)), UNCHANGED <<offered, calls, answer>>
  PROVE  SessionsInd'
<1> DEFINE s == NewSession(b, k, logged)
           g == [single |-> Unset, multiple |-> Unset]
<1>1. sessions' = [sessions EXCEPT ![h] = s] /\ given' = [given EXCEPT ![h] = g]
  BY DEF OpenSession
<1>2. OpenedWell(s, g)
  BY DEF OpenedWell, NewSession
<1>3. DOMAIN g = {"single", "multiple"}
  OBVIOUS
<1> HIDE DEF s, g
<1>4. SessionShapes'
  BY <1>1, <1>3 DEF SessionsInd, SessionShapes
<1>5. \A i \in SHandles : /\ sessions'[i] = IF i = h THEN s ELSE sessions[i]
                          /\ given'[i] = IF i = h THEN g ELSE given[i]
  BY <1>1 DEF SessionsInd, SessionShapes
<1>6. SessionsWell'
  BY <1>2, <1>5 DEF SessionsInd, SessionsWell, OpenedWell, IsTimeline
<1>7. \A c \in CallSlots : calls[h][c] = Unset
  BY DEF SessionsInd, CallsMeant, Bindings
<1>8. CallsMeant'
  BY <1>5, <1>7 DEF SessionsInd, CallsMeant
<1>9. AnswerBelongs' /\ PagesInOrder'
  BY DEF SessionsInd, AnswerBelongs, PagesInOrder
<1> QED
  BY <1>4, <1>6, <1>8, <1>9 DEF SessionsInd
LEMMA CreateFromKeyphraseStep ==
  ASSUME SessionsInd, NEW h \in SHandles, NEW k \in Clients, NEW phrase, CreateFromKeyphrase(h, k, phrase)
  PROVE  SessionsInd'
<1>1. sessions[h].binding = "none" /\ UNCHANGED <<offered, calls, answer>>
  BY DEF CreateFromKeyphrase, NoSession
<1>2. CASE PythonCreateFromKeyphrase(h, k, phrase)
  <2>1. OpenSession(h, NewSession("python", k, k # Guest))
    BY <1>2 DEF PythonCreateFromKeyphrase
  <2> QED
    BY <2>1, <1>1, OpenHandleStep DEF Bindings
<1>3. CASE NodejsCreateFromKeyphrase(h, k, phrase)
  <2>1. OpenSession(h, NewSession("nodejs", k, k # Guest))
    BY <1>3 DEF NodejsCreateFromKeyphrase
  <2> QED
    BY <2>1, <1>1, OpenHandleStep DEF Bindings
<1>4. CASE RustBuildWithKeyphrase(h, k, phrase)
  <2>1. OpenSession(h, NewSession("rust", k, Unset))
    BY <1>4 DEF RustBuildWithKeyphrase
  <2> QED
    BY <2>1, <1>1, OpenHandleStep DEF Bindings
<1> QED
  BY <1>2, <1>3, <1>4 DEF CreateFromKeyphrase

\* A key that is picked from a list is not the guest's.
LEMMA CreateFromStoredKeyStep ==
  ASSUME SessionsInd, NEW h \in SHandles, NEW k \in Clients, NEW phrase, CreateFromStoredKey(h, k, phrase)
  PROVE  SessionsInd'
<1>1. sessions[h].binding = "none" /\ UNCHANGED <<offered, calls, answer>> /\ k \in offered["disk"]
  BY DEF CreateFromStoredKey, NoSession
<1>2. k # Guest
  BY <1>1 DEF SessionsInd, SessionShapes, Places
<1>3. CASE PythonCreateFromStoredKey(h, k)
  <2>1. OpenSession(h, NewSession("python", k, TRUE))
    BY <1>3 DEF PythonCreateFromStoredKey
  <2> QED
    BY <2>1, <1>1, <1>2, OpenHandleStep DEF Bindings
<1>4. CASE NodejsCreateFromStoredKey(h, k)
  <2>1. OpenSession(h, NewSession("nodejs", k, TRUE))
    BY <1>4 DEF NodejsCreateFromStoredKey
  <2> QED
    BY <2>1, <1>1, <1>2, OpenHandleStep DEF Bindings
<1>5. CASE RustBuildFromStoredKey(h, k)
  <2>1. OpenSession(h, NewSession("rust", k, Unset))
    BY <1>5 DEF RustBuildFromStoredKey
  <2> QED
    BY <2>1, <1>1, OpenHandleStep DEF Bindings
<1> QED
  BY <1>3, <1>4, <1>5 DEF CreateFromStoredKey

LEMMA WasmCreateFromStoredKeyStep ==
  ASSUME SessionsInd, NEW h \in SHandles, NEW k \in Clients, WasmCreateFromStoredKey(h, k)
  PROVE  SessionsInd'
<1>1. /\ sessions[h] = NoSession /\ UNCHANGED <<offered, calls, answer>> /\ k \in offered["browser"]
      /\ OpenSession(h, NewSession("wasm", k, TRUE))
  BY DEF WasmCreateFromStoredKey
<1>3. sessions[h].binding = "none"
  BY <1>1 DEF NoSession
<1>2. k # Guest
  BY <1>1 DEF SessionsInd, SessionShapes, Places
<1> QED
  BY <1>1, <1>2, <1>3, OpenHandleStep DEF Bindings

\* A handle that is not open, or no longer, has no calls under way.
LEMMA NotOpenStep ==
  ASSUME SessionsInd, NEW h \in SHandles, NEW s, s.binding = "none",
         sessions' = [sessions EXCEPT ![h] = s], UNCHANGED <<offered, answer, given>>,
         calls' = [calls EXCEPT ![h] = [c \in CallSlots |-> Unset]]
  PROVE  SessionsInd'
<1>1. SessionShapes'
  BY DEF SessionsInd, SessionShapes
<1>2. \A i \in SHandles : sessions'[i] = IF i = h THEN s ELSE sessions[i]
  BY DEF SessionsInd, SessionShapes
<1>3. SessionsWell'
  BY <1>2 DEF SessionsInd, SessionsWell, OpenedWell, IsTimeline
<1>4. \A i \in SHandles, c \in CallSlots : calls'[i][c] = IF i = h THEN Unset ELSE calls[i][c]
  BY DEF SessionsInd, SessionShapes
<1>5. CallsMeant'
  BY <1>2, <1>4 DEF SessionsInd, CallsMeant
<1>6. AnswerBelongs' /\ PagesInOrder'
  BY DEF SessionsInd, AnswerBelongs, PagesInOrder
<1> QED
  BY <1>1, <1>3, <1>5, <1>6 DEF SessionsInd

LEMMA WasmCreateStep ==
  ASSUME SessionsInd, NEW h \in SHandles, NEW k, WasmCreate(h, k)
  PROVE  SessionsInd'
<1>1. /\ sessions[h].binding = "none" /\ UNCHANGED <<offered, calls, answer, given>>
      /\ sessions' = [sessions EXCEPT ![h] = [binding |-> "opening", client |-> k]]
  BY DEF WasmCreate, NoSession
<1>2. \A i \in SHandles : sessions'[i] = IF i = h THEN [binding |-> "opening", client |-> k] ELSE sessions[i]
  BY <1>1 DEF SessionsInd, SessionShapes
<1>3. SessionShapes'
  BY <1>1 DEF SessionsInd, SessionShapes
<1>4. SessionsWell'
  BY <1>1, <1>2 DEF SessionsInd, SessionsWell, OpenedWell, IsTimeline
<1>5. CallsMeant'
  BY <1>1, <1>2 DEF SessionsInd, CallsMeant, Bindings
<1>6. AnswerBelongs' /\ PagesInOrder'
  BY <1>1 DEF SessionsInd, AnswerBelongs, PagesInOrder
<1> QED
  BY <1>3, <1>4, <1>5, <1>6 DEF SessionsInd

LEMMA WasmCreatedStep ==
  ASSUME SessionsInd, NEW h \in SHandles, WasmCreated(h)
  PROVE  SessionsInd'
<1>1. sessions[h].binding = "opening" /\ UNCHANGED <<offered, calls, answer>>
  BY DEF WasmCreated
<1>2. CASE OpenSession(h, NewSession("wasm", sessions[h].client, sessions[h].client # Guest))
  BY <1>1, <1>2, OpenHandleStep DEF Bindings
<1>3. CASE sessions' = [sessions EXCEPT ![h] = NoSession] /\ UNCHANGED given
  <2>1. \A i \in SHandles : sessions'[i] = IF i = h THEN NoSession ELSE sessions[i]
    BY <1>3 DEF SessionsInd, SessionShapes
  <2>0. NoSession.binding = "none"
    BY DEF NoSession
  <2>2. \A c \in CallSlots : calls[h][c] = Unset
    BY <1>1 DEF SessionsInd, CallsMeant, Bindings
  <2>3. SessionShapes'
    BY <1>1, <1>3 DEF SessionsInd, SessionShapes
  <2>4. SessionsWell'
    BY <1>3, <2>0, <2>1 DEF SessionsInd, SessionsWell, OpenedWell, IsTimeline
  <2>5. CallsMeant'
    BY <1>1, <2>1, <2>2 DEF SessionsInd, CallsMeant
  <2>6. AnswerBelongs' /\ PagesInOrder'
    BY <1>1 DEF SessionsInd, AnswerBelongs, PagesInOrder
  <2> QED
    BY <2>3, <2>4, <2>5, <2>6 DEF SessionsInd
<1> QED
  BY <1>2, <1>3 DEF WasmCreated

LEMMA CloseHandleStep ==
  ASSUME SessionsInd, NEW h \in SHandles, CloseHandle(h)
  PROVE  SessionsInd'
<1>1. /\ sessions' = [sessions EXCEPT ![h] = NoSession]
      /\ calls' = [calls EXCEPT ![h] = [c \in CallSlots |-> Unset]]
      /\ UNCHANGED <<offered, answer, given>>
  BY DEF CloseHandle
<1>2. NoSession.binding = "none"
  BY DEF NoSession
<1> QED
  BY <1>1, <1>2, NotOpenStep

\* Steps that leave the sessions and their timelines alone.
LEMMA SettingsStep ==
  ASSUME SessionsInd, UNCHANGED <<sessions, calls, answer, given>>,
         DOMAIN offered' = Places, \A p \in Places : Guest \notin offered'[p]
  PROVE  SessionsInd'
BY DEF SessionsInd, SessionShapes, SessionsWell, OpenedWell, IsTimeline, CallsMeant, AnswerBelongs, PagesInOrder

LEMMA ListStoredKeysStep ==
  ASSUME SessionsInd, NEW h \in SHandles, ListStoredKeys(h)
  PROVE  SessionsInd'
<1>1. /\ UNCHANGED <<sessions, calls, answer, given>>
      /\ offered' = [offered EXCEPT ![Place(sessions[h].binding)] = ListKeys(Place(sessions[h].binding))]
  BY DEF ListStoredKeys
<1> DEFINE place == Place(sessions[h].binding)
<1>2. Guest \notin ListKeys(place) /\ place \in Places
  BY DEF ListKeys, ListDisk, ListBrowser, Place, Places
<1> HIDE DEF place
<1>3. DOMAIN offered' = Places /\ \A p \in Places : Guest \notin offered'[p]
  BY <1>1, <1>2 DEF SessionsInd, SessionShapes, place
<1> QED
  BY <1>1, <1>3, SettingsStep
\* The other calls of the settings and of the keys touch neither lists nor sessions.
LEMMA QuietStep ==
  ASSUME SessionsInd, UNCHANGED <<offered, sessions, calls, answer, given>>
  PROVE  SessionsInd'
<1>1. DOMAIN offered' = Places /\ \A p \in Places : Guest \notin offered'[p]
  BY DEF SessionsInd, SessionShapes
<1> QED
  BY <1>1, SettingsStep

\* The three bindings ask the client for the same.
LEMMA BindingsAgree ==
  ASSUME NEW b \in Bindings \ {"rust"}, NEW arg, NEW me, NEW follow,
         NEW name \in {"my_timeline", "my_mentions", "followed_users", "followed_hashtags",
                       "user", "user_mentions", "replies", "sequel", "hashtag"}
  PROVE  Asks(b, name, arg, me, follow) = PythonTimelines(name, arg, me, follow)
<1>1. CASE b = "python"
  BY <1>1 DEF Asks
<1>2. CASE b = "nodejs"
  <2>1. Asks(b, name, arg, me, follow) = NodejsTimelines(name, arg, me, follow)
    BY <1>2 DEF Asks
  <2> QED
    BY <2>1 DEF NodejsTimelines, PythonTimelines
<1>3. CASE b = "wasm"
  <2>1. Asks(b, name, arg, me, follow) = WasmTimelines(name, arg, me, follow)
    BY <1>3 DEF Asks
  <2> QED
    BY <2>1 DEF WasmTimelines, PythonTimelines
<1> QED
  BY <1>1, <1>2, <1>3 DEF Bindings

LEMMA BeginCallStep ==
  ASSUME SessionsInd, NEW h \in SHandles, NEW c \in CallSlots, NEW arg,
         NEW name \in {"my_timeline", "my_mentions", "followed_users", "followed_hashtags",
                       "user", "user_mentions", "replies", "sequel", "hashtag"},
         BeginCall(h, c, name, arg)
  PROVE  SessionsInd'
<1>1. /\ UNCHANGED <<offered, sessions, answer, given>>
      /\ sessions[h].binding \in Bindings \ {"rust"}
  BY DEF BeginCall, IsOpen, SessionsInd, SessionsWell, OpenedWell
<1>2. PICK users \in Orders(Followed(h).users), tags \in Orders(Followed(h).tags) :
        LET follow == [users |-> users, tags |-> tags]
            op == Asks(sessions[h].binding, name, arg, sessions[h].client, follow)
        IN calls' = [calls EXCEPT ![h][c] =
             [op |-> op, call |-> name, arg |-> arg, meant |-> PythonTimelines(name, arg, sessions[h].client, follow)]]
  BY DEF BeginCall
<1> DEFINE follow == [users |-> users, tags |-> tags]
           op == Asks(sessions[h].binding, name, arg, sessions[h].client, follow)
           meant == PythonTimelines(name, arg, sessions[h].client, follow)
           new == [op |-> op, call |-> name, arg |-> arg, meant |-> meant]
<1>3. op = meant
  BY <1>1, BindingsAgree
<1>4. calls' = [calls EXCEPT ![h][c] = new]
  BY <1>2
<1>5. new.op = new.meant
  BY <1>3
<1> HIDE DEF new
<1>6. \A i \in SHandles, d \in CallSlots : calls'[i][d] = IF i = h /\ d = c THEN new ELSE calls[i][d]
  BY <1>4 DEF SessionsInd, SessionShapes
<1>7. CallsMeant'
  BY <1>1, <1>5, <1>6 DEF SessionsInd, CallsMeant
<1>8. SessionShapes'
  BY <1>1, <1>4 DEF SessionsInd, SessionShapes
<1>9. SessionsWell' /\ AnswerBelongs' /\ PagesInOrder'
  BY <1>1 DEF SessionsInd, SessionsWell, OpenedWell, IsTimeline, AnswerBelongs, PagesInOrder
<1> QED
  BY <1>7, <1>8, <1>9 DEF SessionsInd

\* The next page of a timeline that was kept, or the first of one that is made.
LEMMA NextPage ==
  ASSUME NEW timeline, timeline # Unset => IsTimeline(timeline), NEW op
  PROVE  /\ \A t \in {SingleTimelineLock(timeline, op), MultipleTimelineLock(timeline, op)} :
              /\ IsTimeline(GetMore(t))
              /\ GetMore(t).type = op.type /\ GetMore(t).ids = op.ids
         /\ GetMore(SingleTimelineLock(timeline, op)).page =
              IF timeline # Unset /\ timeline.type = op.type /\ timeline.ids = op.ids THEN timeline.page + 1 ELSE 1
<1> DEFINE same == timeline # Unset /\ timeline.type = op.type /\ timeline.ids = op.ids
           fresh == [type |-> op.type, ids |-> op.ids, page |-> 0]
<1>1. IsTimeline(fresh) /\ fresh.type = op.type /\ fresh.ids = op.ids /\ fresh.page = 0
  BY DEF IsTimeline
<1>2. ASSUME NEW t, IsTimeline(t)
      PROVE  /\ IsTimeline(GetMore(t)) /\ GetMore(t).page = t.page + 1
             /\ GetMore(t).type = t.type /\ GetMore(t).ids = t.ids
  BY <1>2 DEF IsTimeline, GetMore
<1> HIDE DEF fresh
<1>3. CASE same
  <2>1. SingleTimelineLock(timeline, op) = timeline /\ MultipleTimelineLock(timeline, op) = timeline
    BY <1>3 DEF SingleTimelineLock, MultipleTimelineLock
  <2> QED
    BY <1>2, <1>3, <2>1
<1>4. CASE ~same
  <2>1. SingleTimelineLock(timeline, op) = fresh /\ MultipleTimelineLock(timeline, op) = fresh
    BY <1>4 DEF SingleTimelineLock, MultipleTimelineLock, fresh
  <2>2. GetMore(fresh).page = 1
    BY <1>1, <1>2
  <2> QED
    BY <1>1, <1>2, <1>4, <2>1, <2>2
<1> QED
  BY <1>3, <1>4
\* Giving a page, and forgetting a timeline, keep the session and what was last given together.
LEMMA KeptTogether ==
  ASSUME SessionsInd, NEW h \in SHandles, sessions[h].binding \in Bindings,
         NEW which \in {"single", "multiple"}, NEW page, page # Unset => IsTimeline(page),
         sessions' = [sessions EXCEPT ![h][which] = page], given' = [given EXCEPT ![h][which] = page]
  PROVE  /\ DOMAIN sessions' = SHandles /\ DOMAIN given' = SHandles
         /\ \A i \in SHandles : DOMAIN given'[i] = {"single", "multiple"}
         /\ SessionsWell'
         /\ \A i \in SHandles : i # h => sessions'[i] = sessions[i]
         /\ sessions'[h].binding = sessions[h].binding
<1> DEFINE s == [sessions[h] EXCEPT ![which] = page]
           g == [given[h] EXCEPT ![which] = page]
<1>1. /\ OpenedWell(sessions[h], given[h]) /\ DOMAIN given[h] = {"single", "multiple"}
      /\ DOMAIN sessions = SHandles /\ DOMAIN given = SHandles
  BY DEF SessionsInd, SessionShapes, SessionsWell, Bindings
<1>2. sessions' = [sessions EXCEPT ![h] = s] /\ given' = [given EXCEPT ![h] = g]
  OBVIOUS
<1>0. page # Unset => IsTimeline(page)
  OBVIOUS
<1>3. /\ DOMAIN s = DOMAIN sessions[h] /\ s.binding = sessions[h].binding
      /\ s.client = sessions[h].client /\ s.logged_in = sessions[h].logged_in
      /\ s.single = IF which = "single" THEN page ELSE sessions[h].single
      /\ s.multiple = IF which = "multiple" THEN page ELSE sessions[h].multiple
  BY <1>1 DEF OpenedWell
<1>4. /\ DOMAIN g = {"single", "multiple"}
      /\ g.single = IF which = "single" THEN page ELSE given[h].single
      /\ g.multiple = IF which = "multiple" THEN page ELSE given[h].multiple
  BY <1>1
<1> HIDE DEF s, g
<1>5. OpenedWell(s, g)
  BY <1>0, <1>1, <1>3, <1>4 DEF OpenedWell
<1>6. \A i \in SHandles : /\ sessions'[i] = IF i = h THEN s ELSE sessions[i]
                          /\ given'[i] = IF i = h THEN g ELSE given[i]
  BY <1>1, <1>2
<1>7. SessionsWell'
  <2> SUFFICES ASSUME NEW i \in SHandles, sessions'[i].binding \notin {"none", "opening"}
               PROVE  OpenedWell(sessions'[i], given'[i])
    BY DEF SessionsWell, OpenedWell, IsTimeline
  <2>1. CASE i = h
    <3>1. sessions'[i] = s /\ given'[i] = g
      BY <2>1, <1>6
    <3> QED
      BY <3>1, <1>5
  <2>2. CASE i # h
    <3>1. sessions'[i] = sessions[i] /\ given'[i] = given[i]
      BY <2>2, <1>6
    <3> QED
      BY <3>1 DEF SessionsInd, SessionsWell
  <2> QED
    BY <2>1, <2>2
<1>8. \A i \in SHandles : DOMAIN given'[i] = {"single", "multiple"}
  BY <1>4, <1>6 DEF SessionsInd, SessionShapes
<1>9. DOMAIN sessions' = SHandles /\ DOMAIN given' = SHandles
  BY <1>1, <1>2
<1> QED
  BY <1>3, <1>6, <1>7, <1>8, <1>9

LEMMA AnsweredStep ==
  ASSUME SessionsInd, NEW h \in SHandles, NEW c \in CallSlots, calls[h][c] # Unset,
         NEW which \in {"single", "multiple"}, NEW timeline, Answered(h, c, which, timeline),
         IsTimeline(GetMore(timeline)), GetMore(timeline).type = calls[h][c].op.type,
         GetMore(timeline).ids = calls[h][c].op.ids,
         which = "single" =>
           GetMore(timeline).page =
             IF given[h].single # Unset /\ given[h].single.type = calls[h][c].op.type
                  /\ given[h].single.ids = calls[h][c].op.ids
             THEN given[h].single.page + 1 ELSE 1
  PROVE  SessionsInd'
<1> DEFINE page == GetMore(timeline)
<1>1. /\ sessions' = [sessions EXCEPT ![h][which] = page]
      /\ given' = [given EXCEPT ![h][which] = page]
      /\ calls' = [calls EXCEPT ![h][c] = Unset]
      /\ answer' = [handle |-> h, which |-> which, timeline |-> page, meant |-> calls[h][c].meant, before |-> given[h][which]]
      /\ offered' = offered
  BY DEF Answered
<1> HIDE DEF page
<1>2. sessions[h].binding \in Bindings /\ calls[h][c].op = calls[h][c].meant
  BY DEF SessionsInd, CallsMeant
<1>3. IsTimeline(page) /\ page.type = calls[h][c].op.type /\ page.ids = calls[h][c].op.ids
  BY DEF page
<1>4. /\ DOMAIN sessions' = SHandles /\ DOMAIN given' = SHandles
      /\ \A i \in SHandles : DOMAIN given'[i] = {"single", "multiple"}
      /\ SessionsWell'
      /\ \A i \in SHandles : i # h => sessions'[i] = sessions[i]
      /\ sessions'[h].binding = sessions[h].binding
  BY <1>1, <1>2, <1>3, KeptTogether
<1>5. \A i \in SHandles, d \in CallSlots : calls'[i][d] = IF i = h /\ d = c THEN Unset ELSE calls[i][d]
  BY <1>1 DEF SessionsInd, SessionShapes
<1>6. DOMAIN calls' = SHandles /\ \A i \in SHandles : DOMAIN calls'[i] = CallSlots
  BY <1>1 DEF SessionsInd, SessionShapes
<1>7. SessionShapes'
  BY <1>1, <1>4, <1>6 DEF SessionsInd, SessionShapes
<1>9. CallsMeant'
  BY <1>2, <1>4, <1>5 DEF SessionsInd, CallsMeant
<1>10. /\ answer'.timeline = page /\ answer'.meant = calls[h][c].op /\ answer'.before = given[h][which]
       /\ answer'.which = which
  BY <1>1, <1>2
<1>11. AnswerBelongs'
  BY <1>3, <1>10 DEF AnswerBelongs
<1>12. PagesInOrder'
  <2> SUFFICES ASSUME which = "single"
               PROVE  page.page = IF answer'.before # Unset /\ answer'.before.type = page.type
                                     /\ answer'.before.ids = page.ids
                                  THEN answer'.before.page + 1 ELSE 1
    BY <1>10 DEF PagesInOrder
  <2>1. answer'.before = given[h].single
    BY <1>10
  <2> QED
    BY <2>1, <1>3 DEF page
<1> QED
  BY <1>4, <1>7, <1>9, <1>11, <1>12 DEF SessionsInd
LEMMA SingleTimelineGetMoreStep ==
  ASSUME SessionsInd, NEW h \in SHandles, NEW c \in CallSlots, SingleTimelineGetMore(h, c)
  PROVE  SessionsInd'
<1> DEFINE op == calls[h][c].op
           timeline == SingleTimelineLock(sessions[h].single, op)
<1>1. calls[h][c] # Unset /\ Answered(h, c, "single", timeline)
  BY DEF SingleTimelineGetMore
<1>2. sessions[h].binding \in Bindings
  BY <1>1 DEF SessionsInd, CallsMeant
<1>3. OpenedWell(sessions[h], given[h])
  BY <1>2 DEF SessionsInd, SessionsWell, Bindings
<1>4. sessions[h].single = given[h].single /\ (given[h].single # Unset => IsTimeline(given[h].single))
  BY <1>3 DEF OpenedWell
<1>5. /\ IsTimeline(GetMore(timeline)) /\ GetMore(timeline).type = op.type /\ GetMore(timeline).ids = op.ids
      /\ GetMore(timeline).page =
           IF given[h].single # Unset /\ given[h].single.type = op.type /\ given[h].single.ids = op.ids
           THEN given[h].single.page + 1 ELSE 1
  BY <1>4, NextPage
<1> QED
  BY <1>1, <1>5, AnsweredStep

LEMMA MultipleTimelineGetMoreStep ==
  ASSUME SessionsInd, NEW h \in SHandles, NEW c \in CallSlots, MultipleTimelineGetMore(h, c)
  PROVE  SessionsInd'
<1> DEFINE op == calls[h][c].op
           timeline == MultipleTimelineLock(sessions[h].multiple, op)
<1>1. calls[h][c] # Unset /\ Answered(h, c, "multiple", timeline)
  BY DEF MultipleTimelineGetMore
<1>2. sessions[h].binding \in Bindings
  BY <1>1 DEF SessionsInd, CallsMeant
<1>3. OpenedWell(sessions[h], given[h])
  BY <1>2 DEF SessionsInd, SessionsWell, Bindings
<1>4. sessions[h].multiple # Unset => IsTimeline(sessions[h].multiple)
  BY <1>3 DEF OpenedWell
<1>5. IsTimeline(GetMore(timeline)) /\ GetMore(timeline).type = op.type /\ GetMore(timeline).ids = op.ids
  BY <1>4, NextPage
<1> QED
  BY <1>1, <1>5, AnsweredStep

LEMMA TimelineResetStep ==
  ASSUME SessionsInd, NEW h \in SHandles, NEW which \in {"single", "multiple"}, TimelineReset(h, which)
  PROVE  SessionsInd'
<1>1. /\ IsOpen(h)
      /\ sessions' = [sessions EXCEPT ![h][which] = Unset]
      /\ given' = [given EXCEPT ![h][which] = Unset]
      /\ UNCHANGED <<offered, calls, answer>>
  BY DEF TimelineReset
<1>2. sessions[h].binding \in Bindings
  BY <1>1 DEF IsOpen, SessionsInd, SessionsWell, OpenedWell
<1>3. /\ DOMAIN sessions' = SHandles /\ DOMAIN given' = SHandles
      /\ \A i \in SHandles : DOMAIN given'[i] = {"single", "multiple"}
      /\ SessionsWell'
      /\ \A i \in SHandles : i # h => sessions'[i] = sessions[i]
      /\ sessions'[h].binding = sessions[h].binding
  BY <1>1, <1>2, KeptTogether
<1>4. SessionShapes'
  BY <1>1, <1>3 DEF SessionsInd, SessionShapes
<1>5. CallsMeant'
  BY <1>1, <1>3 DEF SessionsInd, CallsMeant
<1>6. AnswerBelongs' /\ PagesInOrder'
  BY <1>1 DEF SessionsInd, AnswerBelongs, PagesInOrder
<1> QED
  BY <1>3, <1>4, <1>5, <1>6 DEF SessionsInd

LEMMA NextAccountStep == SessionsInd /\ NextAccount => SessionsInd'
<1> SUFFICES ASSUME SessionsInd, NextAccount PROVE SessionsInd'
  OBVIOUS
<1>1. PICK h \in SHandles :
        \/ \E k \in Clients, phrase \in Phrases : CreateFromKeyphrase(h, k, phrase)
        \/ \E k \in Clients : WasmCreate(h, k)
        \/ WasmCreated(h)
        \/ \E k \in Clients, phrase \in Phrases : CreateFromStoredKey(h, k, phrase)
        \/ \E k \in Clients : WasmCreateFromStoredKey(h, k)
        \/ ListStoredKeys(h)
        \/ \E gone : DeleteKeys(h, gone)
        \/ CloseHandle(h)
  BY DEF NextAccount, DeleteStoredKey, DeleteAllStoredKeys
<1>2. ASSUME NEW k \in Clients, NEW phrase, CreateFromKeyphrase(h, k, phrase) PROVE SessionsInd'
  BY <1>2, CreateFromKeyphraseStep
<1>3. ASSUME NEW k \in Clients, WasmCreate(h, k) PROVE SessionsInd'
  BY <1>3, WasmCreateStep
<1>4. ASSUME NEW k \in Clients, NEW phrase, CreateFromStoredKey(h, k, phrase) PROVE SessionsInd'
  BY <1>4, CreateFromStoredKeyStep
<1>5. ASSUME NEW k \in Clients, WasmCreateFromStoredKey(h, k) PROVE SessionsInd'
  BY <1>5, WasmCreateFromStoredKeyStep
<1>6. ASSUME NEW gone, DeleteKeys(h, gone) PROVE SessionsInd'
  <2>1. UNCHANGED <<offered, sessions, calls, answer, given>>
    BY <1>6 DEF DeleteKeys
  <2> QED
    BY <2>1, QuietStep
<1> QED
  BY <1>1, <1>2, <1>3, <1>4, <1>5, <1>6, WasmCreatedStep, ListStoredKeysStep, CloseHandleStep

LEMMA NextFollowStep == SessionsInd /\ NextFollow => SessionsInd'
<1> SUFFICES ASSUME SessionsInd, NextFollow PROVE SessionsInd'
  OBVIOUS
<1>1. UNCHANGED <<offered, sessions, calls, answer, given>>
  BY DEF NextFollow, Follow, ClientStorageReset
<1> QED
  BY <1>1, QuietStep

LEMMA NextTimelineStep == SessionsInd /\ NextTimeline => SessionsInd'
<1> SUFFICES ASSUME SessionsInd, NextTimeline PROVE SessionsInd'
  OBVIOUS
<1>1. ASSUME NEW h \in SHandles, NEW c \in CallSlots, NEW arg,
             NEW name \in {"my_timeline", "my_mentions", "followed_users", "followed_hashtags",
                           "user", "user_mentions", "replies", "sequel", "hashtag"},
             BeginCall(h, c, name, arg)
      PROVE  SessionsInd'
  BY <1>1, BeginCallStep
<1>2. ASSUME NEW h \in SHandles, NEW c \in CallSlots, SingleTimelineGetMore(h, c) PROVE SessionsInd'
  BY <1>2, SingleTimelineGetMoreStep
<1>3. ASSUME NEW h \in SHandles, NEW c \in CallSlots, MultipleTimelineGetMore(h, c) PROVE SessionsInd'
  BY <1>3, MultipleTimelineGetMoreStep
<1>4. ASSUME NEW h \in SHandles, SingleTimelineReset(h) PROVE SessionsInd'
  BY <1>4, TimelineResetStep DEF SingleTimelineReset
<1>5. ASSUME NEW h \in SHandles, MultipleTimelineReset(h) PROVE SessionsInd'
  BY <1>5, TimelineResetStep DEF MultipleTimelineReset
<1> QED
  BY <1>1, <1>2, <1>3, <1>4, <1>5 DEF NextTimeline

LEMMA SessionsNextStep == SessionsInd /\ [SessionsNext]_sessionVars => SessionsInd'
<1> SUFFICES ASSUME SessionsInd, [SessionsNext]_sessionVars PROVE SessionsInd'
  OBVIOUS
<1>1. CASE UNCHANGED sessionVars
  BY <1>1, QuietStep DEF sessionVars
<1> QED
  BY <1>1, NextAccountStep, NextFollowStep, NextTimelineStep DEF SessionsNext

(***************************************************************************)
(* The inductive invariant of the handles: a session has the timelines it  *)
(* last gave, a call under way asks for what its caller meant, and no list *)
(* of keys holds the guest's.                                              *)
(***************************************************************************)
THEOREM SessionsInductive == SessionsSpec => []SessionsInd
<1> QED
  BY SessionsStart, SessionsNextStep, PTL DEF SessionsSpec

(***************************************************************************)
(* The calls of the bindings on one client (hashiverse_client.rs:283-345): *)
(* however they overlap, a page is of the timeline that was asked for, the *)
(* pages of a timeline follow one another from the first, and a session    *)
(* that counts as logged in is not the guest's.                            *)
(***************************************************************************)
THEOREM TimelinesAlwaysOwn == SessionsSpec => []TimelinesOwn
<1>1. SessionsInd => TimelinesOwn
  BY LoggedInFollows DEF SessionsInd, TimelinesOwn
<1> QED
  BY <1>1, SessionsInductive, PTL
=============================================================================
