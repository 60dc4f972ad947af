-------------------------- MODULE ServerFrontProofs ---------------------------
(***************************************************************************)
(* Proofs about the machines at the front of a server: its read cache      *)
(* (PostBundleCache), its certificates (Certificates), the virtual clock   *)
(* of the simulated networks (ManualTime), the listener with its throttle  *)
(* (Listener, DdosGuard), the request envelope (Envelope) and the services *)
(* answered from what is kept (Services).  Each theorem is about the       *)
(* specification of one machine.                                           *)
(***************************************************************************)
EXTENDS Listener, PostBundleCache, ManualTime, Certificates, Envelope, Services,
        FiniteSetTheorems, WellFoundedInduction, NaturalsInduction, TLAPS

-----------------------------------------------------------------------------
(***************************************************************************)
(* The certificate refresher.                                              *)
(***************************************************************************)

\* The generations, and the two values of a file that is none.
LEMMA GenerationLemma ==
    /\ NoFile \notin Generations /\ EmptyFile \notin Generations /\ NoFile # EmptyFile
    /\ \A n \in Nat : (n + 1) % (MaxDeaths + 3) \in Generations
    /\ Generations \subseteq Nat /\ 0 \in Generations
<1>1. MaxDeaths \in Nat
  BY CertificatesAssumption
<1>2. \A n \in Nat : (n + 1) % (MaxDeaths + 3) \in 0 .. MaxDeaths + 2
  BY <1>1
<1> QED
  BY <1>1, <1>2 DEF NoFile, EmptyFile, Generations

\* The steps at which files are written.
Writing == {"self cert", "self key", "new cert", "new key", "refreshed"}

\* Files are only written while the last renewal is old, and in the order certificate, key,
\* last_refreshed: at each of these steps what came before it is of the newest generation.
CertificatesInd ==
    /\ newest \in Generations
    /\ sinceRefresh \in Nat
    /\ cert \in Generations \cup {NoFile, EmptyFile}
    /\ key \in Generations \cup {NoFile, EmptyFile}
    /\ at \in Writing => OlderThan(sinceRefresh, RenewAfter)
    /\ at \in {"self key", "new key", "refreshed"} => cert = newest
    /\ at = "refreshed" => key = newest
    /\ FreshMeansPair

\* The invariant of the refresher is inductive.
LEMMA CertificatesStep ==
    ASSUME CertificatesInd, [CertificatesNext]_certVars
    PROVE  CertificatesInd'
<1> USE CertificatesAssumption DEF CertificatesInd
<1>1. CASE CertsStart
  BY <1>1 DEF CertsStart, FreshMeansPair, Writing
<1>2. CASE CertsNew
  <2>1. newest' \in Generations
    BY <1>2, GenerationLemma DEF CertsNew, NextGeneration
  <2>2. UNCHANGED <<cert, key, sinceRefresh>>
    BY <1>2 DEF CertsNew
  <2>3. at' \in {"self cert", "check"}
    BY <1>2 DEF CertsNew
  <2>4. at' = "self cert" => OlderThan(sinceRefresh, RenewAfter)
    BY <1>2, GenerationLemma DEF CertsNew, FreshMeansPair
  <2> QED
    BY <2>1, <2>2, <2>3, <2>4 DEF FreshMeansPair, Writing
<1>3. ASSUME NEW here, NEW next, WriteCert(here, next),
             <<here, next>> \in {<<"self cert", "self key">>, <<"new cert", "new key">>}
      PROVE  CertificatesInd'
  <2>1. /\ here \in Writing /\ at = here /\ at' \in {here, next} /\ next \in {"self key", "new key"}
        /\ cert' \in {EmptyFile, newest} /\ (at' = next => cert' = newest)
        /\ here \in {"self cert", "new cert"}
    BY <1>3 DEF WriteCert, Writing
  <2>2. UNCHANGED <<key, newest, sinceRefresh>>
    BY <1>3 DEF WriteCert
  <2> QED
    BY <2>1, <2>2 DEF FreshMeansPair, Writing
<1>4. ASSUME NEW here, NEW next, WriteKey(here, next),
             <<here, next>> \in {<<"self key", "check">>, <<"new key", "refreshed">>}
      PROVE  CertificatesInd'
  <2>1. /\ here \in Writing /\ at = here /\ at' \in {here, next} /\ here \in {"self key", "new key"}
        /\ key' \in {EmptyFile, newest} /\ (at' = next => key' = newest)
        /\ next \in {"check", "refreshed"}
    BY <1>4 DEF WriteKey, Writing
  <2>2. UNCHANGED <<cert, newest, sinceRefresh>>
    BY <1>4 DEF WriteKey
  <2> QED
    BY <2>1, <2>2 DEF FreshMeansPair, Writing
<1>5. CASE RefreshCert
  <2>1. newest' \in Generations
    BY <1>5, GenerationLemma DEF RefreshCert, NextGeneration
  <2>2. UNCHANGED <<cert, key, sinceRefresh>> /\ OlderThan(sinceRefresh, RenewAfter)
    BY <1>5 DEF RefreshCert, Attempts
  <2>3. at' \in {"new cert", "sleep"}
    BY <1>5 DEF RefreshCert
  <2> QED
    BY <2>1, <2>2, <2>3 DEF FreshMeansPair, Writing
<1>6. CASE NoRefresh
  BY <1>6 DEF NoRefresh, FreshMeansPair, Writing
<1>7. CASE WriteLastRefreshed
  BY <1>7 DEF WriteLastRefreshed, Refreshed, FreshMeansPair, Writing
<1>8. CASE ReloadCerts
  BY <1>8 DEF ReloadCerts, FreshMeansPair, Writing
<1>9. CASE CertSleep
  <2>1. /\ sinceRefresh' \in Nat /\ at' = "check"
        /\ OlderThan(sinceRefresh, RenewAfter) => OlderThan(sinceRefresh', RenewAfter)
    BY <1>9 DEF CertSleep, Aged, OlderThan
  <2>2. UNCHANGED <<cert, key, newest>>
    BY <1>9 DEF CertSleep
  <2> QED
    BY <2>1, <2>2 DEF FreshMeansPair, Writing
<1>10. CASE CertCrash
  BY <1>10 DEF CertCrash, FreshMeansPair, Writing
<1>11. CASE UNCHANGED certVars
  BY <1>11 DEF certVars, FreshMeansPair, Writing
<1> QED
  BY <1>1, <1>2, <1>3, <1>4, <1>5, <1>6, <1>7, <1>8, <1>9, <1>10, <1>11
  DEF CertificatesNext, CertStep

\* A last_refreshed that holds back the next renewal vouches for the certificate and the
\* key on disk, whatever crash came between the writes.
THEOREM FreshAlwaysMeansPair == CertificatesSpec => []FreshMeansPair
<1>1. CertificatesInit => CertificatesInd
  BY CertificatesAssumption, GenerationLemma
  DEF CertificatesInit, CertificatesInd, Writing, FreshMeansPair, OlderThan
<1>2. CertificatesInd /\ [CertificatesNext]_certVars => CertificatesInd'
  BY CertificatesStep
<1>3. CertificatesInd => FreshMeansPair
  BY DEF CertificatesInd
<1> QED
  BY <1>1, <1>2, <1>3, PTL DEF CertificatesSpec
-----------------------------------------------------------------------------
(***************************************************************************)
(* The read cache and its tokens.                                          *)
(***************************************************************************)

\* A token of this process lasts no longer than the mark of its location.
TokensMarked ==
    \A t \in tokens : /\ t.epoch <= restarts
                      /\ t.epoch = restarts => t.left <= inflight[t.loc]

CacheInd == CacheTypeOK /\ TokensMarked /\ OneTokenOutstanding

\* What is touched, and what a moment leaves of an entry, is an entry.
LEMMA EntryLemma ==
    /\ Placeholder \in Entry
    /\ \A e \in Entry, h \in 0 .. HitThreshold :
          [[e EXCEPT !.idle = TTI] EXCEPT !.hits = h] \in Entry
    /\ \A e \in Entry, b \in [Originator -> Remaining \cup {Absent}] :
          [[e EXCEPT !.bundles = b] EXCEPT !.idle = TTI] \in Entry
<1> USE CacheAssumption
<1>1. Placeholder \in Entry
  BY DEF Placeholder, Entry
<1>a. TTI \in 1 .. TTI
  OBVIOUS
<1>2. ASSUME NEW e \in Entry, NEW h \in 0 .. HitThreshold
      PROVE  [[e EXCEPT !.idle = TTI] EXCEPT !.hits = h] \in Entry
  <2> DEFINE x == [e EXCEPT !.idle = TTI]
  <2>1. x = [hits |-> e.hits, idle |-> TTI, weight |-> e.weight, bundles |-> e.bundles]
    BY DEF Entry
  <2>a. x \in Entry
    BY <1>a, <2>1 DEF Entry
  <2> HIDE DEF x
  <2>2. [x EXCEPT !.hits = h]
          = [hits |-> h, idle |-> TTI, weight |-> e.weight, bundles |-> e.bundles]
    BY <2>1, <2>a DEF Entry
  <2>3. [x EXCEPT !.hits = h] \in Entry
    BY <1>a, <2>2 DEF Entry
  <2> QED
    BY <2>3 DEF x
<1>3. ASSUME NEW e \in Entry, NEW b \in [Originator -> Remaining \cup {Absent}]
      PROVE  [[e EXCEPT !.bundles = b] EXCEPT !.idle = TTI] \in Entry
  <2> DEFINE x == [e EXCEPT !.bundles = b]
  <2>1. x = [hits |-> e.hits, idle |-> e.idle, weight |-> e.weight, bundles |-> b]
    BY DEF Entry
  <2>a. x \in Entry
    BY <1>a, <2>1 DEF Entry
  <2> HIDE DEF x
  <2>2. [x EXCEPT !.idle = TTI]
          = [hits |-> e.hits, idle |-> TTI, weight |-> e.weight, bundles |-> b]
    BY <2>1, <2>a DEF Entry
  <2>3. [x EXCEPT !.idle = TTI] \in Entry
    BY <1>a, <2>2 DEF Entry
  <2> QED
    BY <2>3 DEF x
<1> QED
  BY <1>1, <1>2, <1>3

\* AgedEntry keeps the originators of an entry.
LEMMA AgedLemma ==
    ASSUME NEW e \in Entry, e.idle # 1
    PROVE  /\ AgedEntry(e) \in Entry
           /\ Present(AgedEntry(e)) = Present(e)
<1> USE CacheAssumption
<1> DEFINE aged == [o \in Originator |-> IF e.bundles[o] \in {Absent, Sealed} THEN e.bundles[o]
                                         ELSE Less(e.bundles[o])]
<1>1. e.bundles \in [Originator -> Remaining \cup {Absent}] /\ e.idle \in 1 .. TTI
      /\ e.hits \in 0 .. HitThreshold /\ e.weight \in Nat
  BY DEF Entry
<1>2. ASSUME NEW o \in Originator
      PROVE  /\ aged[o] \in Remaining \cup {Absent}
             /\ aged[o] = Absent <=> e.bundles[o] = Absent
  <2>1. e.bundles[o] \in Remaining \cup {Absent}
    BY <1>1
  <2>2. Remaining = 0 .. LiveTTL + 1 /\ Sealed = LiveTTL + 1 /\ Absent = -1 /\ LiveTTL \in Nat
    BY DEF Remaining, Sealed, Absent
  <2>3. CASE e.bundles[o] \in {Absent, Sealed}
    BY <2>1, <2>3
  <2>4. CASE e.bundles[o] \notin {Absent, Sealed}
    <3>1. aged[o] = Less(e.bundles[o]) /\ e.bundles[o] \in 0 .. LiveTTL
      BY <2>1, <2>2, <2>4
    <3>2. Less(e.bundles[o]) \in 0 .. LiveTTL
      BY <2>2, <3>1 DEF Less
    <3> QED
      BY <2>2, <2>4, <3>1, <3>2
  <2> QED
    BY <2>3, <2>4
<1>3. aged \in [Originator -> Remaining \cup {Absent}]
  BY <1>2
<1>4. AgedEntry(e) = [hits |-> e.hits, idle |-> e.idle - 1, weight |-> e.weight, bundles |-> aged]
  <2>1. AgedEntry(e) = [e EXCEPT !.idle = e.idle - 1, !.bundles = aged]
    BY DEF AgedEntry
  <2> HIDE DEF aged
  <2> QED
    BY <2>1 DEF Entry
<1>5. e.idle - 1 \in 1 .. TTI
  BY <1>1
<1> HIDE DEF aged
<1>6. AgedEntry(e) \in Entry
  BY <1>1, <1>3, <1>4, <1>5 DEF Entry
<1>7. Present(AgedEntry(e)) = Present(e)
  BY <1>2, <1>4 DEF Present
<1> QED
  BY <1>6, <1>7

\* on_get leaves well-formed entries, and drops no originator of an entry that stays.
LEMMA OnGetLemma ==
    ASSUME CacheTypeOK, NEW l \in Location, OnGet(l)
    PROVE  /\ entry' \in [Location -> Entry \cup {NoEntry}]
           /\ \A k \in Location : entry[k] # NoEntry /\ entry'[k] # NoEntry
                => Present(entry'[k]) = Present(entry[k])
<1> DEFINE old == Touched(l)
           h == IF old.hits < HitThreshold THEN old.hits + 1 ELSE old.hits
           base == IF entry[l] = NoEntry THEN Placeholder ELSE entry[l]
           e == [old EXCEPT !.hits = h]
           new == [entry EXCEPT ![l] = e]
<1>1. base \in Entry
  BY EntryLemma DEF CacheTypeOK
<1>2. old = [base EXCEPT !.idle = TTI]
  BY DEF Touched
<1>3. h \in 0 .. HitThreshold
  <2>1. old.hits = base.hits
    BY <1>1, <1>2 DEF Entry
  <2>2. base.hits \in 0 .. HitThreshold
    BY <1>1 DEF Entry
  <2>3. HitThreshold \in Nat
    BY CacheAssumption
  <2> HIDE DEF base, old
  <2> QED
    BY <2>1, <2>2, <2>3
<1>4. e \in Entry /\ e.bundles = base.bundles
  <2> HIDE DEF base, h
  <2>1. e = [[base EXCEPT !.idle = TTI] EXCEPT !.hits = h]
    BY <1>2
  <2> QED
    BY <1>1, <1>3, <2>1, EntryLemma DEF Entry
<1>5. entry' \in (IF entry[l] = NoEntry THEN Trimmed(new) ELSE {new})
  BY DEF OnGet
<1>6. new \in [Location -> Entry \cup {NoEntry}]
  <2> HIDE DEF e
  <2> QED
    BY <1>4 DEF CacheTypeOK
<1>7. entry[l] # NoEntry => Present(new[l]) = Present(entry[l])
  <2>1. new[l] = e
    BY DEF CacheTypeOK
  <2> HIDE DEF new, e
  <2> QED
    BY <1>4, <2>1 DEF Present
<1>8. \A k \in Location : k # l => new[k] = entry[k]
  BY DEF CacheTypeOK
<1> HIDE DEF new
<1>9. CASE entry[l] = NoEntry
  <2>1. PICK gone \in SUBSET {k \in Location : new[k] # NoEntry} :
           entry' = [k \in Location |-> IF k \in gone THEN NoEntry ELSE new[k]]
    BY <1>5, <1>9 DEF Trimmed
  <2> QED
    BY <1>6, <1>8, <1>9, <2>1
<1>10. CASE entry[l] # NoEntry
  BY <1>5, <1>6, <1>7, <1>8, <1>10
<1> QED
  BY <1>9, <1>10

\* on_upload changes one entry; it drops at most the worst of those present.
LEMMA OnUploadLemma ==
    ASSUME CacheTypeOK, NEW t \in tokens, NEW o \in Originator,
           NEW left_ \in {LiveTTL, Sealed}, OnUpload(t, o, left_)
    PROVE  /\ entry' \in [Location -> Entry \cup {NoEntry}]
           /\ \A k \in Location : k # t.loc => entry'[k] = entry[k]
           /\ \A d \in Present(entry[t.loc]) \ Present(entry'[t.loc]), q \in Present(entry'[t.loc]) :
                 Agreement[t.loc][q] >= Agreement[t.loc][d]
<1> DEFINE l == t.loc
           e == entry[l]
           bundles == [e.bundles EXCEPT ![o] = left_]
           present == Present(e) \cup {o}
<1> USE CacheAssumption
<1>1. l \in Location /\ e \in Entry
  BY DEF CacheTypeOK, Token, OnUpload
<1>2. left_ \in Remaining /\ left_ # Absent
  BY DEF Remaining, Sealed, Absent
<1>3. e.bundles \in [Originator -> Remaining \cup {Absent}]
  BY <1>1 DEF Entry
<1>4. bundles \in [Originator -> Remaining \cup {Absent}]
  BY <1>2, <1>3
<1>5. \A q \in Originator : bundles[q] # Absent <=> q \in present
  BY <1>2, <1>3 DEF Present
<1>6. ASSUME NEW b \in [Originator -> Remaining \cup {Absent}],
             entry' = [entry EXCEPT ![l].bundles = b, ![l].idle = TTI]
      PROVE  /\ entry' \in [Location -> Entry \cup {NoEntry}]
             /\ \A k \in Location : k # l => entry'[k] = entry[k]
             /\ entry'[l].bundles = b
  <2> DEFINE n == [[e EXCEPT !.bundles = b] EXCEPT !.idle = TTI]
  <2>1. n \in Entry
    BY <1>1, EntryLemma
  <2>2. n.bundles = b
    BY <1>1 DEF Entry
  <2>3. entry \in [Location -> Entry \cup {NoEntry}]
    BY DEF CacheTypeOK
  <2>4. entry' = [entry EXCEPT ![l] = n]
    BY <1>1, <1>6, <2>3
  <2> HIDE DEF n, l
  <2> QED
    BY <1>1, <2>1, <2>2, <2>3, <2>4
<1>7. CASE entry' = [entry EXCEPT ![l].bundles = bundles, ![l].idle = TTI]
  <2>1. entry'[l].bundles = bundles
    BY <1>4, <1>6, <1>7
  <2>2. Present(e) \subseteq Present(entry'[l])
    BY <1>5, <2>1 DEF Present
  <2> QED
    BY <1>4, <1>6, <1>7, <2>2
<1>8. ASSUME NEW worst \in Worst(l, bundles, present),
             entry' = [entry EXCEPT ![l].bundles = [bundles EXCEPT ![worst] = Absent], ![l].idle = TTI]
      PROVE  /\ entry' \in [Location -> Entry \cup {NoEntry}]
             /\ \A k \in Location : k # l => entry'[k] = entry[k]
             /\ \A d \in Present(entry[l]) \ Present(entry'[l]), q \in Present(entry'[l]) :
                   Agreement[l][q] >= Agreement[l][d]
  <2> DEFINE b == [bundles EXCEPT ![worst] = Absent]
  <2>1. b \in [Originator -> Remaining \cup {Absent}] /\ worst \in Originator
    BY <1>4, <1>8 DEF Worst, Present
  <2>2. \A q \in Originator : b[q] # Absent <=> q \in present /\ q # worst
    <3> HIDE DEF bundles, present
    <3> QED
      BY <1>4, <1>5, <2>1
  <2>3. entry'[l].bundles = b
    BY <1>6, <1>8, <2>1
  <2> HIDE DEF b
  <2>4. ASSUME NEW d \in Present(e) \ Present(entry'[l]), NEW q \in Present(entry'[l])
        PROVE  Agreement[l][q] >= Agreement[l][d]
    <3>1. d = worst /\ q \in present /\ q \in Originator
      BY <2>2, <2>3 DEF Present
    <3>2. Worse(l, bundles, worst, q)
      BY <1>8, <3>1 DEF Worst
    <3>3. Agreement[l][worst] \in Nat /\ Agreement[l][q] \in Nat
      BY <1>1, <2>1, <3>1
    <3> QED
      BY <3>1, <3>2, <3>3 DEF Worse
  <2> QED
    BY <1>6, <1>8, <2>1, <2>4 DEF b
<1> QED
  BY <1>7, <1>8 DEF OnUpload

\* The invariant of the cache is inductive.
LEMMA CacheStep ==
    ASSUME CacheInd, [CacheNext]_cacheVars
    PROVE  CacheInd'
<1> USE CacheAssumption
<1>0. /\ CacheTypeOK /\ TokensMarked /\ OneTokenOutstanding
      /\ \A t \in tokens : t.left \in Int /\ t.epoch \in Int /\ t.loc \in Location /\ t \in Token
      /\ restarts \in Int /\ \A l \in Location : inflight[l] \in Int
      /\ TokenTTL \in Nat
  BY DEF CacheInd, CacheTypeOK, Token
<1>1. ASSUME NEW l \in Location, OnGet(l)
      PROVE  CacheInd'
  <2>1. entry' \in [Location -> Entry \cup {NoEntry}]
    BY <1>0, <1>1, OnGetLemma
  <2>2. CASE UNCHANGED <<inflight, tokens>>
    BY <1>0, <1>1, <2>1, <2>2 DEF OnGet, CacheInd, CacheTypeOK, TokensMarked, OneTokenOutstanding
  <2>3. ASSUME NEW cached \in SUBSET Originator,
               inflight[l] = 0, inflight' = [inflight EXCEPT ![l] = TokenTTL],
               tokens' = tokens \cup {[loc |-> l, left |-> TokenTTL, cached |-> cached, epoch |-> restarts]}
        PROVE  CacheInd'
    <3> DEFINE n == [loc |-> l, left |-> TokenTTL, cached |-> cached, epoch |-> restarts]
    <3>1. n \in Token
      BY <1>0 DEF Token, CacheTypeOK
    <3>2. restarts' = restarts
      BY <1>1 DEF OnGet
    <3>3. inflight' \in [Location -> 0 .. TokenTTL]
          /\ inflight'[l] = TokenTTL /\ \A k \in Location : k # l => inflight'[k] = inflight[k]
      BY <1>0, <2>3 DEF CacheTypeOK
    <3>4. CacheTypeOK'
      BY <1>0, <2>1, <2>3, <3>1, <3>2, <3>3 DEF CacheTypeOK
    <3>5. \A t \in tokens : t.loc = l /\ t.epoch = restarts => t.left <= 0
      BY <1>0, <2>3 DEF TokensMarked
    <3>6. TokensMarked'
      BY <1>0, <2>3, <3>2, <3>3, <3>5 DEF TokensMarked
    <3>7. OneTokenOutstanding'
      BY <1>0, <2>3, <3>5 DEF OneTokenOutstanding
    <3> QED
      BY <3>4, <3>6, <3>7 DEF CacheInd
  <2> QED
    <3> DEFINE touched == Touched(l)
               e == [touched EXCEPT !.hits = IF touched.hits < HitThreshold THEN touched.hits + 1 ELSE touched.hits]
    <3>1. \/ UNCHANGED <<inflight, tokens>>
          \/ /\ inflight[l] = 0 /\ inflight' = [inflight EXCEPT ![l] = TokenTTL]
             /\ tokens' = tokens \cup {[loc |-> l, left |-> TokenTTL, cached |-> Present(e), epoch |-> restarts]}
      BY <1>1 DEF OnGet, IssuesToken
    <3>2. Present(e) \in SUBSET Originator
      BY DEF Present
    <3> HIDE DEF e
    <3> QED
      BY <2>2, <2>3, <3>1, <3>2
<1>2. ASSUME NEW t \in tokens, NEW o \in Originator, NEW l \in {LiveTTL, Sealed}, OnUpload(t, o, l)
      PROVE  CacheInd'
  <2>1. entry' \in [Location -> Entry \cup {NoEntry}]
    BY <1>0, <1>2, OnUploadLemma
  <2> QED
    BY <1>0, <1>2, <2>1 DEF OnUpload, CacheInd, CacheTypeOK, TokensMarked, OneTokenOutstanding
<1>3. CASE CacheTick
  <2>1. entry' \in [Location -> Entry \cup {NoEntry}]
    BY <1>0, <1>3, AgedLemma DEF CacheTick, CacheTypeOK
  <2>2. inflight' \in [Location -> 0 .. TokenTTL]
    BY <1>0, <1>3 DEF CacheTick, CacheTypeOK, Less
  <2>3. \A u \in tokens' : \E t \in tokens : /\ t.left > 0 /\ u = [t EXCEPT !.left = t.left - 1]
    BY <1>3 DEF CacheTick
  <2>4. \A u \in tokens' : \E t \in tokens :
           /\ u \in Token /\ u = [t EXCEPT !.left = t.left - 1]
           /\ u.loc = t.loc /\ u.epoch = t.epoch /\ u.left = t.left - 1 /\ t.left > 0
    BY <1>0, <2>3 DEF Token
  <2>5. CacheTypeOK'
    BY <1>0, <1>3, <2>1, <2>2, <2>4 DEF CacheTick, CacheTypeOK
  <2>6. TokensMarked'
    <3>1. restarts' = restarts /\ \A l \in Location : inflight'[l] = Less(inflight[l])
      BY <1>3 DEF CacheTick
    <3> QED
      BY <1>0, <2>4, <3>1 DEF TokensMarked, Less
  <2>7. OneTokenOutstanding'
    BY <1>0, <2>4 DEF OneTokenOutstanding
  <2> QED
    BY <2>5, <2>6, <2>7 DEF CacheInd
<1>4. CASE CacheRestart
  <2>1. CacheTypeOK'
    BY <1>0, <1>4 DEF CacheRestart, CacheTypeOK
  <2>2. TokensMarked'
    BY <1>0, <1>4 DEF CacheRestart, TokensMarked
  <2>3. OneTokenOutstanding'
    BY <1>0, <1>4 DEF CacheRestart, OneTokenOutstanding
  <2> QED
    BY <2>1, <2>2, <2>3 DEF CacheInd
<1>5. CASE UNCHANGED cacheVars
  BY <1>5 DEF cacheVars, CacheInd, CacheTypeOK, TokensMarked, OneTokenOutstanding
<1> QED
  BY <1>1, <1>2, <1>3, <1>4, <1>5 DEF CacheNext

\* The read cache keeps well-formed entries, and never has two tokens of one process for
\* one location outstanding.
THEOREM CacheAlwaysSound == CacheSpec => []CacheInv
<1>1. CacheInit => CacheInd
  BY CacheAssumption DEF CacheInit, CacheInd, CacheTypeOK, TokensMarked, OneTokenOutstanding
<1>2. CacheInd /\ [CacheNext]_cacheVars => CacheInd'
  BY CacheStep
<1>3. CacheInd => CacheInv
  BY DEF CacheInd, CacheInv
<1> QED
  BY <1>1, <1>2, <1>3, PTL DEF CacheSpec

\* Whoever is dropped from an entry is no nearer to the location than those who stay,
\* however the uploads of clients and the passing of time interleave.
THEOREM FarthestAlwaysDropped == CacheSpec => FarthestDropped
<1>1. ASSUME CacheTypeOK, CacheNext, NEW l \in Location, entry[l] # NoEntry, entry'[l] # NoEntry,
             NEW o \in Present(entry[l]) \ Present(entry'[l]), NEW q \in Present(entry'[l])
      PROVE  Agreement[l][q] >= Agreement[l][o]
  <2>1. CASE \E k \in Location : OnGet(k)
    BY <1>1, <2>1, OnGetLemma
  <2>2. ASSUME NEW t \in tokens, NEW p \in Originator, NEW n \in {LiveTTL, Sealed}, OnUpload(t, p, n)
        PROVE  Agreement[l][q] >= Agreement[l][o]
    BY <1>1, <2>2, OnUploadLemma
  <2>3. CASE CacheTick
    <3>1. entry[l] \in Entry /\ entry[l].idle # 1 /\ entry'[l] = AgedEntry(entry[l])
      BY <1>1, <2>3 DEF CacheTick, CacheTypeOK
    <3> QED
      BY <1>1, <3>1, AgedLemma
  <2>4. CASE CacheRestart
    BY <1>1, <2>4 DEF CacheRestart
  <2> QED
    BY <1>1, <2>1, <2>2, <2>3, <2>4 DEF CacheNext
<1>2. CacheTypeOK /\ [CacheNext]_cacheVars =>
        [\A l \in Location :
           entry[l] # NoEntry /\ entry'[l] # NoEntry =>
              \A o \in Present(entry[l]) \ Present(entry'[l]), q \in Present(entry'[l]) :
                  Agreement[l][q] >= Agreement[l][o]]_cacheVars
  BY <1>1
<1>3. CacheInv => CacheTypeOK
  BY DEF CacheInv
<1> QED
  BY <1>2, <1>3, CacheAlwaysSound, PTL DEF CacheSpec, FarthestDropped
-----------------------------------------------------------------------------
(***************************************************************************)
(* The virtual clock.                                                      *)
(***************************************************************************)

\* The clock and the wake times are times.
ClockTypeOK ==
    /\ clock \in Nat
    /\ sleeper \in [Sleepers -> [at : {"awake", "poll", "register", "asleep"}, wake : Nat, slept : Nat]]
    /\ wakeTimes \subseteq [time : Nat, waker : Sleepers]

\* peek of a heap with entries gives a time that is earliest.
LEMMA NextWakeLemma ==
    ASSUME ClockTypeOK, wakeTimes # {}
    PROVE  NextWake \in Nat /\ \A e \in wakeTimes : e.time >= NextWake
<1> DEFINE T == {e.time : e \in wakeTimes}
<1>1. T \subseteq Nat /\ T # {}
  BY DEF ClockTypeOK
<1>2. PICK t \in T : \A u \in T : ~(<<u, t>> \in OpToRel(<, Nat))
  <2> HIDE DEF T
  <2> QED
    BY <1>1, NatLessThanWellFounded, WFMin, Zenon
<1>3. \A u \in T : t <= u
  <2> HIDE DEF T
  <2>1. ASSUME NEW u \in T, u < t
        PROVE  <<u, t>> \in OpToRel(<, Nat)
    BY <1>1, <2>1, Zenon DEF OpToRel
  <2>2. \A u \in T : ~(u < t)
    BY <1>2, <2>1, Zenon
  <2> QED
    BY <1>1, <2>2
<1>4. \A e \in wakeTimes : e.time >= t
  BY <1>1, <1>3
<1> QED
  BY <1>1, <1>2, <1>4 DEF NextWake

\* Waking leaves the sleepers well formed.
LEMMA WokenLemma ==
    ASSUME ClockTypeOK, NEW W
    PROVE  Woken(W) \in [Sleepers -> [at : {"awake", "poll", "register", "asleep"}, wake : Nat, slept : Nat]]
  BY DEF ClockTypeOK, Woken

\* The types of the virtual clock are inductive.
LEMMA ClockStep ==
    ASSUME ClockTypeOK, [ManualTimeNext]_clockVars
    PROVE  ClockTypeOK'
<1>1. ASSUME NEW s \in Sleepers, NEW d \in Durations, Sleep(s, d)
      PROVE  ClockTypeOK'
  <2>1. d \in Nat /\ clock + d \in Nat
    BY ManualTimeAssumption DEF ClockTypeOK
  <2>2. sleeper[s].slept + 1 \in Nat
    BY DEF ClockTypeOK
  <2> QED
    BY <1>1, <2>1, <2>2 DEF Sleep, ClockTypeOK
<1>2. ASSUME NEW s \in Sleepers, Poll(s)
      PROVE  ClockTypeOK'
  BY <1>2 DEF Poll, ClockTypeOK
<1>3. ASSUME NEW s \in Sleepers, RegisterWakeTime(s)
      PROVE  ClockTypeOK'
  BY <1>3 DEF RegisterWakeTime, ClockTypeOK
<1>4. CASE DriverLooks
  BY <1>4 DEF DriverLooks, ClockTypeOK
<1>5. CASE AdvanceTimeUntilNextSleeper
  BY <1>5, NextWakeLemma, WokenLemma DEF AdvanceTimeUntilNextSleeper, ClockTypeOK
<1>6. ASSUME NEW t \in 0 .. ClockEnd, SetTime(t)
      PROVE  ClockTypeOK'
  BY <1>6, WokenLemma, ManualTimeAssumption DEF SetTime, ClockTypeOK
<1>7. CASE UNCHANGED clockVars
  BY <1>7 DEF clockVars, ClockTypeOK
<1> QED
  BY <1>1, <1>2, <1>3, <1>4, <1>5, <1>6, <1>7
  DEF ManualTimeNext, SleeperStep, DriverStep, ClockRests

\* Whatever registers between the driver's look and its jump, the driver wakes exactly
\* those that are due at the time to which it sets the clock, and passes over nobody.
THEOREM AlwaysWokenAtTheirTime == ManualTimeSpec => WokenAtTheirTime
<1>1. ManualTimeInit => ClockTypeOK
  BY DEF ManualTimeInit, ClockTypeOK
<1>2. ClockTypeOK /\ [ManualTimeNext]_clockVars => ClockTypeOK'
  BY ClockStep
<1>3. ASSUME ClockTypeOK, ManualTimeNext, driver = "jump", driver' = "look",
             NEW e \in wakeTimes \ wakeTimes'
      PROVE  e.time = clock'
  <2>1. AdvanceTimeUntilNextSleeper
    BY <1>3 DEF ManualTimeNext, SleeperStep, DriverStep, Sleep, Poll, RegisterWakeTime,
                DriverLooks, SetTime, ClockRests, clockVars
  <2>2. e \in DueAt(NextWake) /\ clock' = NextWake /\ wakeTimes # {}
    BY <1>3, <2>1 DEF AdvanceTimeUntilNextSleeper
  <2>3. NextWake \in Nat /\ e.time \in Nat /\ e.time >= NextWake
    BY <1>3, <2>2, NextWakeLemma DEF ClockTypeOK
  <2> QED
    BY <2>2, <2>3 DEF DueAt
<1>4. ClockTypeOK /\ [ManualTimeNext]_clockVars =>
        [driver = "jump" /\ driver' = "look"
           => \A e \in wakeTimes \ wakeTimes' : e.time = clock']_clockVars
  BY <1>3
<1> QED
  BY <1>1, <1>2, <1>4, PTL DEF ManualTimeSpec, WokenAtTheirTime
-----------------------------------------------------------------------------
(***************************************************************************)
(* The listener and its throttle.                                          *)
(***************************************************************************)

\* The constants of the throttle and the listener are numbers.
LEMMA FrontConstants ==
    /\ ScoreThreshold \in Nat /\ ScoreThreshold > 0 /\ DecayPerSecond \in Nat /\ DecayPerSecond > 0
    /\ BadRequestPenalty \in Nat /\ MaxConnectionsPerIp \in Nat /\ ThrottleSecs \in Nat
    /\ Capacity \in Nat /\ IsFiniteSet(Conns) /\ None \notin Conns /\ None \notin Addresses
  BY DdosAssumption, ListenerAssumption

\* The larger of zero and a number.
LEMMA MaxZero ==
    ASSUME NEW n \in Int
    PROVE  Max({0, n}) = IF n > 0 THEN n ELSE 0
<1>1. \E m \in {0, n} : \A k \in {0, n} : m >= k
  OBVIOUS
<1>2. Max({0, n}) \in {0, n} /\ \A k \in {0, n} : Max({0, n}) >= k
  BY <1>1 DEF Max
<1> QED
  BY <1>2

\* A score is kept for a second at least.
LEMMA IdleSecsLemma == IdleSecs \in Nat /\ IdleSecs >= 1
<1> DEFINE n == 2 * ScoreThreshold + DecayPerSecond - 1
<1>1. n \in Nat /\ n >= DecayPerSecond
  BY FrontConstants
<1>2. \A m, d \in Nat : d > 0 /\ m >= d => m \div d \in Nat /\ m \div d >= 1
  OBVIOUS
<1> HIDE DEF n
<1>3. n \div DecayPerSecond \in Nat /\ n \div DecayPerSecond >= 1
  BY <1>1, <1>2, FrontConstants
<1> QED
  BY <1>3 DEF IdleSecs, n

\* The points of an entry, and the score with more points, are numbers.
LEMMA IncrementLemma ==
    ASSUME NEW e \in Score \cup {None}, NEW p \in Nat
    PROVE  Increment(e, p) \in Score
<1>1. ASSUME e # None
      PROVE  Current(e) \in Nat
  <2>1. e.score \in Nat /\ e.age \in Nat
    BY <1>1 DEF Score
  <2>2. DecayPerSecond * e.age \in Nat
    BY <2>1, FrontConstants
  <2>3. e.score - DecayPerSecond * e.age \in Int
    BY <2>1, <2>2
  <2> QED
    BY <2>3, MaxZero DEF Current
<1>2. p + (IF e = None THEN 0 ELSE Current(e)) \in Nat
  BY <1>1
<1> QED
  BY <1>2, IdleSecsLemma DEF Increment, Score

\* What the throttle keeps apart from the count of connections.
ThrottleOK ==
    /\ protection \in {"mem", "ipset"}
    /\ scores \in [Addresses -> Score \cup {None}]
    /\ throttle \in [Addresses -> 0 .. ThrottleSecs]
    /\ firewall \in [Addresses -> 0 .. IdleSecs]
    /\ adding \subseteq Addresses

\* The steps of the throttle keep it so.
LEMMA AddPointsLemma ==
    ASSUME ThrottleOK, NEW a \in Addresses, NEW p \in Nat, AddPoints(a, p)
    PROVE  ThrottleOK'
<1>1. Increment(scores[a], p) \in Score
  BY IncrementLemma DEF ThrottleOK
<1>2. scores' \in [Addresses -> Score \cup {None}]
  BY <1>1 DEF AddPoints, ThrottleOK
<1>3. throttle' \in [Addresses -> 0 .. ThrottleSecs] /\ adding' \subseteq Addresses
  BY FrontConstants DEF AddPoints, MaybeCallIpset, ThrottleOK
<1> QED
  BY <1>2, <1>3 DEF AddPoints, ThrottleOK

LEMMA LookUpLemma ==
    ASSUME ThrottleOK, NEW a, LookUpScore(a)
    PROVE  ThrottleOK'
<1>1. \A e \in Score : [e EXCEPT !.idle = 0] \in Score
  BY IdleSecsLemma DEF Score
<1>2. scores' \in [Addresses -> Score \cup {None}]
  BY <1>1 DEF LookUpScore, ThrottleOK
<1> QED
  BY <1>2 DEF LookUpScore, ThrottleOK

LEMMA SoonerLemma ==
    ASSUME NEW n \in Nat, NEW f \in [Addresses -> 0 .. n]
    PROVE  Sooner(f) \in [Addresses -> 0 .. n]
<1>1. ASSUME NEW a \in Addresses
      PROVE  Max({0, f[a] - 1}) \in 0 .. n
  <2>1. f[a] \in 0 .. n /\ f[a] - 1 \in Int
    OBVIOUS
  <2> QED
    BY <2>1, MaxZero
<1> QED
  BY <1>1 DEF Sooner

LEMMA SecondLemma ==
    ASSUME ThrottleOK, Second
    PROVE  ThrottleOK'
<1>1. ASSUME NEW e \in Score \cup {None}
      PROVE  Older(e) \in Score \cup {None}
  <2>1. CASE e = None \/ e.idle + 1 >= IdleSecs
    BY <2>1 DEF Older
  <2>2. CASE e # None /\ ~(e.idle + 1 >= IdleSecs)
    <3> DEFINE age == IF Current(e) = 0 THEN e.age ELSE e.age + 1
    <3>1. e \in Score /\ e.idle + 1 \in 0 .. IdleSecs - 1 /\ age \in Nat
      BY <2>2, IdleSecsLemma DEF Score
    <3>2. Older(e) = [e EXCEPT !.idle = e.idle + 1, !.age = age]
      BY <2>2 DEF Older
    <3> HIDE DEF age
    <3> QED
      BY <3>1, <3>2 DEF Score
  <2> QED
    BY <2>1, <2>2
<1>2. scores' \in [Addresses -> Score \cup {None}]
  BY <1>1 DEF Second, ThrottleOK
<1>3. throttle' \in [Addresses -> 0 .. ThrottleSecs] /\ firewall' \in [Addresses -> 0 .. IdleSecs]
  BY FrontConstants, IdleSecsLemma, SoonerLemma DEF Second, ThrottleOK, FirewallExpiry
<1> QED
  BY <1>2, <1>3 DEF Second, ThrottleOK
\* The connections of an address whose guards are held.
HeldBy(a) == {c \in Conns : conn[c].ip = a /\ Held(conn, req, c)}

\* The count of an address is the number of its guards that are held.
CountExact ==
    /\ connections \in [Addresses -> 0 .. MaxConnectionsPerIp]
    /\ \A a \in Addresses : connections[a] = Cardinality(HeldBy(a))

\* A connection has an address until it is free again, and only TCP and the in-memory
\* transport await a reply; a request belongs to a connection that was accepted and that
\* is not free before it.
BooksOK ==
    /\ conn \in [Conns -> Connection]
    /\ req \in [Requests -> Request]
    /\ \A c \in Conns : /\ conn[c].st = "free" => conn[c] = NoConn
                        /\ conn[c].st # "free" => conn[c].ip \in Addresses
                        /\ transport = "https" => conn[c].st # "awaiting"
    /\ \A r \in Requests : /\ req[r].st = "free" => req[r] = NoReq
                           /\ req[r].st # "free" =>
                                req[r].c \in Conns /\ conn[req[r].c].st \notin {"free", "arrived"}

\* Connections and requests that become cn and rq are at most over.
FewerConns(cn) ==
    /\ cn \in [Conns -> Connection]
    /\ \A c \in Conns :
          \/ cn[c] = conn[c]
          \/ conn[c].st \notin {"free", "arrived"} /\ cn[c] = [conn[c] EXCEPT !.st = "closed"]
          \/ conn[c].st = "arrived" /\ cn[c] = NoConn

FewerReqs(rq) ==
    /\ rq \in [Requests -> Request]
    /\ \A r \in Requests :
          rq[r] = NoReq \/ (req[r].st # "free" /\ rq[r].st # "free" /\ rq[r].c = req[r].c)

\* Whatever ends, the guards dropped are exactly those that nobody holds any more.
LEMMA BecomesLemma ==
    ASSUME BooksOK, CountExact, transport' = transport,
           NEW cn, NEW rq, FewerConns(cn), FewerReqs(rq), Becomes(cn, rq)
    PROVE  BooksOK' /\ CountExact'
<1>0. /\ NoConn \in Connection /\ NoConn.st = "free" /\ NoConn.ip = None
      /\ NoReq \in Request /\ NoReq.st = "free" /\ NoReq.c = None
      /\ None \notin Conns
  BY FrontConstants DEF NoConn, NoReq, Connection, Request
<1>1. conn' = Swept(cn, rq) /\ req' = rq
  BY DEF Becomes
<1>2. ASSUME NEW c \in Conns
      PROVE  /\ conn'[c] = cn[c] \/ (conn'[c] = NoConn /\ cn[c].st = "closed" /\ \A r \in Requests : rq[r].c # c)
             /\ (\E r \in Requests : rq[r].c = c) => conn'[c] = cn[c]
  BY <1>1 DEF Swept
<1>3. conn' \in [Conns -> Connection] /\ req' \in [Requests -> Request]
  <2>1. conn' = [c \in Conns |-> IF cn[c].st = "closed" /\ \A r \in Requests : rq[r].c # c THEN NoConn ELSE cn[c]]
    BY <1>1 DEF Swept
  <2>2. \A c \in Conns : cn[c] \in Connection
    BY DEF FewerConns, FewerReqs
  <2> QED
    BY <1>0, <1>1, <2>1, <2>2 DEF FewerConns, FewerReqs
<1>4. ASSUME NEW c \in Conns
      PROVE  /\ cn[c].st = "free" => cn[c] = NoConn
             /\ cn[c].st # "free" => cn[c].ip \in Addresses
             /\ transport = "https" => cn[c].st # "awaiting"
             /\ conn[c].st \notin {"free", "arrived"} => cn[c].st \notin {"free", "arrived"} /\ cn[c].ip = conn[c].ip
  <2>1. conn[c] \in Connection
    BY DEF BooksOK
  <2>2. CASE cn[c] = conn[c]
    BY <2>2 DEF BooksOK
  <2>3. CASE conn[c].st \notin {"free", "arrived"} /\ cn[c] = [conn[c] EXCEPT !.st = "closed"]
    <3>1. cn[c].st = "closed" /\ cn[c].ip = conn[c].ip
      BY <2>1, <2>3 DEF Connection
    <3> QED
      BY <2>3, <3>1 DEF BooksOK
  <2>4. CASE conn[c].st = "arrived" /\ cn[c] = NoConn
    BY <1>0, <2>4
  <2> QED
    BY <2>2, <2>3, <2>4 DEF FewerConns, FewerReqs
<1>5. ASSUME NEW r \in Requests, rq[r].st # "free"
      PROVE  /\ req[r].st # "free" /\ rq[r].c = req[r].c /\ rq[r].c \in Conns
             /\ conn[rq[r].c].st \notin {"free", "arrived"}
             /\ conn'[rq[r].c] = cn[rq[r].c]
  <2>1. req[r].st # "free" /\ rq[r].c = req[r].c
    BY <1>0, <1>5 DEF FewerConns, FewerReqs
  <2>2. rq[r].c \in Conns /\ conn[rq[r].c].st \notin {"free", "arrived"}
    BY <2>1 DEF BooksOK
  <2> QED
    BY <1>2, <2>1, <2>2
<1>6. BooksOK'
  <2>1. ASSUME NEW c \in Conns
        PROVE  /\ conn'[c].st = "free" => conn'[c] = NoConn
               /\ conn'[c].st # "free" => conn'[c].ip \in Addresses
               /\ transport' = "https" => conn'[c].st # "awaiting"
    BY <1>0, <1>2, <1>4
  <2>2. ASSUME NEW r \in Requests
        PROVE  /\ req'[r].st = "free" => req'[r] = NoReq
               /\ req'[r].st # "free" => req'[r].c \in Conns /\ conn'[req'[r].c].st \notin {"free", "arrived"}
    <3>1. rq[r].st = "free" => rq[r] = NoReq
      BY DEF FewerConns, FewerReqs
    <3> QED
      BY <1>1, <1>4, <1>5, <3>1
  <2> QED
    BY <1>3, <2>1, <2>2 DEF BooksOK
<1>7. ASSUME NEW c \in Conns
      PROVE  /\ Held(conn', req', c) <=> Held(cn, rq, c)
             /\ Held(cn, rq, c) => Held(conn, req, c) /\ cn[c].ip = conn[c].ip /\ conn'[c] = cn[c]
  <2>1. ASSUME NEW r \in Requests, rq[r].c = c, RequestHolds(rq, r)
        PROVE  Held(conn, req, c) /\ cn[c].ip = conn[c].ip /\ conn'[c] = cn[c]
    <3>1. rq[r].st # "free"
      BY <2>1 DEF RequestHolds
    <3>2. req[r].st # "free" /\ req[r].c = c /\ conn'[c] = cn[c] /\ cn[c].ip = conn[c].ip
      BY <1>4, <1>5, <2>1, <3>1
    <3> QED
      BY <3>2 DEF Held, RequestHolds
  <2>2. ASSUME TaskHolds(cn, c)
        PROVE  Held(conn, req, c) /\ cn[c].ip = conn[c].ip /\ conn'[c] = cn[c]
    <3>1. cn[c].st \in {"tls", "open"}
      BY <2>2 DEF TaskHolds
    <3>2. conn'[c] = cn[c]
      BY <1>2, <3>1
    <3>3. conn[c] \in Connection
      BY DEF BooksOK
    <3>4. cn[c] = conn[c]
      BY <1>0, <3>1, <3>3 DEF FewerConns, Connection
    <3> QED
      BY <3>1, <3>2, <3>4 DEF Held, TaskHolds
  <2>3. Held(cn, rq, c) => Held(conn, req, c) /\ cn[c].ip = conn[c].ip /\ conn'[c] = cn[c]
    BY <2>1, <2>2 DEF Held
  <2>4. TaskHolds(conn', c) => TaskHolds(cn, c)
    BY <1>0, <1>2 DEF TaskHolds
  <2>5. Held(conn', rq, c) => Held(cn, rq, c)
    BY <2>4 DEF Held
  <2>6. Held(cn, rq, c) => Held(conn', rq, c)
    BY <2>3 DEF Held, TaskHolds
  <2> QED
    BY <1>1, <2>3, <2>5, <2>6
<1>8. ASSUME NEW a \in Addresses
      PROVE  /\ connections'[a] = Cardinality(HeldBy(a)')
             /\ connections'[a] \in 0 .. MaxConnectionsPerIp
  <2> DEFINE D == Dropped(cn, rq, a)
             H == HeldBy(a)
  <2>1. HeldBy(a)' = H \ D
    BY <1>7 DEF HeldBy, Dropped
  <2>2. IsFiniteSet(H)
    BY FrontConstants, FS_Subset DEF HeldBy
  <2>3. H \cap D = D
    BY DEF HeldBy, Dropped
  <2> HIDE DEF D, H
  <2>4. IsFiniteSet(D)
    BY <2>2, <2>3, FS_Subset
  <2>5. Cardinality(H \ D) = Cardinality(H) - Cardinality(D) /\ IsFiniteSet(H \ D)
    BY <2>2, <2>3, FS_Difference
  <2>6. Cardinality(H) \in Nat /\ Cardinality(D) \in Nat /\ Cardinality(H \ D) \in Nat
    BY <2>2, <2>4, <2>5, FS_CardinalityType
  <2>7. connections[a] = Cardinality(H) /\ connections[a] \in 0 .. MaxConnectionsPerIp
    BY DEF CountExact, H
  <2>8. connections'[a] = Max({0, connections[a] - Cardinality(D)})
    BY DEF Becomes, Released, D
  <2>9. connections'[a] = Cardinality(H \ D)
    BY <2>5, <2>6, <2>7, <2>8, MaxZero
  <2> QED
    BY <2>1, <2>5, <2>6, <2>7, <2>9, FrontConstants
<1>9. CountExact'
  <2>1. connections' = [a \in Addresses |-> connections'[a]]
    BY DEF Becomes
  <2>2. connections' \in [Addresses -> 0 .. MaxConnectionsPerIp]
    BY <1>8, <2>1
  <2> QED
    BY <1>8, <2>2 DEF CountExact
<1> QED
  BY <1>6, <1>9
\* The ways in which connections and requests end.
LEMMA EndingLemma ==
    ASSUME BooksOK
    PROVE  /\ FewerConns(conn) /\ FewerReqs(req)
           /\ \A cs \in SUBSET Conns :
                 (\A c \in cs : conn[c].st \notin {"free", "arrived"}) =>
                     /\ FewerConns(Closed(conn, cs))
                     /\ FewerConns(Unaccepted(Closed(conn, cs)))
           /\ \A r \in Requests : FewerReqs([req EXCEPT ![r] = NoReq])
           /\ \A cs \in SUBSET Conns :
                 /\ FewerReqs(Abandoned(req, cs))
                 /\ \A r \in Requests : Abandoned(req, cs)[r].st = "queued" <=> req[r].st = "queued"
                 /\ FewerReqs(Discarded(Abandoned(req, cs)))
                 /\ \A r \in Requests : Discarded(Abandoned(req, cs))[r].st # "queued"
           /\ FewerReqs(Discarded(req)) /\ \A r \in Requests : Discarded(req)[r].st # "queued"
           /\ \A r \in Requests, st \in {"replied", "dropped"} :
                 req[r].st = "handling" =>
                     /\ FewerReqs(Settled(req, r, st))
                     /\ \A q \in Requests : Settled(req, r, st)[q].st = "queued" <=> req[q].st = "queued"
<1>0. /\ NoConn \in Connection /\ NoConn.st = "free"
      /\ NoReq \in Request /\ NoReq.st = "free"
      /\ conn \in [Conns -> Connection] /\ req \in [Requests -> Request]
      /\ \A r \in Requests : req[r].st = "free" => req[r] = NoReq
  BY DEF NoConn, NoReq, Connection, Request, BooksOK
<1>a. ASSUME NEW q \in Request
      PROVE  /\ [q EXCEPT !.waits = FALSE] \in Request
             /\ [q EXCEPT !.waits = FALSE].st = q.st /\ [q EXCEPT !.waits = FALSE].c = q.c
             /\ [q EXCEPT !.waits = FALSE].waits = FALSE
  BY DEF Request
<1>b. ASSUME NEW q \in Request, NEW st \in {"replied", "dropped"}
      PROVE  /\ [q EXCEPT !.st = st] \in Request
             /\ [q EXCEPT !.st = st].st = st /\ [q EXCEPT !.st = st].c = q.c
  BY DEF Request
<1>1. FewerConns(conn) /\ FewerReqs(req)
  BY <1>0 DEF FewerConns, FewerReqs
<1>2. ASSUME NEW cs \in SUBSET Conns, \A c \in cs : conn[c].st \notin {"free", "arrived"}
      PROVE  /\ FewerConns(Closed(conn, cs))
             /\ FewerConns(Unaccepted(Closed(conn, cs)))
  <2> DEFINE cn == Closed(conn, cs)
  <2>1. ASSUME NEW c \in Conns
        PROVE  /\ cn[c] \in Connection
               /\ cn[c] = conn[c] \/ (conn[c].st \notin {"free", "arrived"}
                                        /\ cn[c] = [conn[c] EXCEPT !.st = "closed"] /\ cn[c].st = "closed")
    <3>1. conn[c] \in Connection
      BY <1>0
    <3>2. cn[c] = IF c \in cs THEN [conn[c] EXCEPT !.st = "closed"] ELSE conn[c]
      BY DEF Closed
    <3> HIDE DEF cn
    <3> QED
      BY <1>2, <3>1, <3>2 DEF Connection
  <2>2. cn \in [Conns -> Connection]
    BY <2>1 DEF Closed
  <2> HIDE DEF cn
  <2>3. FewerConns(cn)
    BY <2>1, <2>2 DEF FewerConns
  <2>4. FewerConns(Unaccepted(cn))
    BY <1>0, <2>1, <2>2 DEF FewerConns, Unaccepted
  <2> QED
    BY <2>3, <2>4 DEF cn
<1>3. \A r \in Requests : FewerReqs([req EXCEPT ![r] = NoReq])
  BY <1>0 DEF FewerReqs
<1>4. ASSUME NEW cs
      PROVE  /\ FewerReqs(Abandoned(req, cs))
             /\ \A r \in Requests : Abandoned(req, cs)[r].st = "queued" <=> req[r].st = "queued"
  <2> DEFINE rq == Abandoned(req, cs)
  <2>1. ASSUME NEW r \in Requests
        PROVE  /\ rq[r] \in Request
               /\ rq[r] = NoReq \/ (req[r].st # "free" /\ rq[r].st # "free" /\ rq[r].c = req[r].c)
               /\ rq[r].st = "queued" <=> req[r].st = "queued"
    <3>1. req[r] \in Request /\ (req[r].st = "free" => req[r] = NoReq)
      BY <1>0
    <3>2. rq[r] = IF req[r].c \notin cs THEN req[r]
                  ELSE IF req[r].st \in {"queued", "handling"} THEN [req[r] EXCEPT !.waits = FALSE]
                  ELSE NoReq
      BY DEF Abandoned
    <3> HIDE DEF rq
    <3> QED
      BY <1>0, <1>a, <3>1, <3>2
  <2>2. rq \in [Requests -> Request]
    BY <2>1 DEF Abandoned
  <2> HIDE DEF rq
  <2>3. FewerReqs(rq) /\ \A r \in Requests : rq[r].st = "queued" <=> req[r].st = "queued"
    BY <2>1, <2>2 DEF FewerReqs
  <2> QED
    BY <2>3 DEF rq
<1>5. ASSUME NEW rq, FewerReqs(rq)
      PROVE  FewerReqs(Discarded(rq)) /\ \A r \in Requests : Discarded(rq)[r].st # "queued"
  <2> DEFINE dq == Discarded(rq)
  <2>1. ASSUME NEW r \in Requests
        PROVE  /\ dq[r] \in Request
               /\ dq[r] = NoReq \/ (req[r].st # "free" /\ dq[r].st # "free" /\ dq[r].c = req[r].c)
               /\ dq[r].st # "queued"
    <3>1. rq[r] \in Request
          /\ (rq[r] = NoReq \/ (req[r].st # "free" /\ rq[r].st # "free" /\ rq[r].c = req[r].c))
      BY <1>5 DEF FewerReqs
    <3>2. dq[r] = IF rq[r].st \notin {"queued", "handling"} THEN rq[r]
                  ELSE IF rq[r].waits THEN [rq[r] EXCEPT !.st = "dropped"] ELSE NoReq
      BY DEF Discarded
    <3> HIDE DEF dq
    <3>3. CASE rq[r].st \notin {"queued", "handling"}
      BY <3>1, <3>2, <3>3
    <3>4. CASE rq[r].st \in {"queued", "handling"} /\ dq[r] = NoReq
      BY <1>0, <3>4
    <3>5. CASE rq[r].st \in {"queued", "handling"} /\ dq[r] = [rq[r] EXCEPT !.st = "dropped"]
      <4>1. rq[r].c = req[r].c /\ req[r].st # "free"
        BY <1>0, <3>1, <3>5
      <4>2. dq[r] \in Request /\ dq[r].st = "dropped" /\ dq[r].c = rq[r].c
        BY <1>b, <3>1, <3>5
      <4> QED
        BY <4>1, <4>2
    <3> QED
      BY <3>2, <3>3, <3>4, <3>5
  <2>2. dq \in [Requests -> Request]
    BY <2>1 DEF Discarded
  <2> HIDE DEF dq
  <2>3. FewerReqs(dq) /\ \A r \in Requests : dq[r].st # "queued"
    BY <2>1, <2>2 DEF FewerReqs
  <2> QED
    BY <2>3 DEF dq
<1>6. ASSUME NEW r \in Requests, NEW st \in {"replied", "dropped"}, req[r].st = "handling"
      PROVE  /\ FewerReqs(Settled(req, r, st))
             /\ \A q \in Requests : Settled(req, r, st)[q].st = "queued" <=> req[q].st = "queued"
  <2> DEFINE n == IF req[r].waits THEN [req[r] EXCEPT !.st = st] ELSE NoReq
  <2>1. /\ n \in Request /\ n.st # "queued"
        /\ n = NoReq \/ (n.st # "free" /\ n.c = req[r].c)
    <3>1. req[r] \in Request /\ st # "queued" /\ st # "free"
      BY <1>0
    <3>2. NoReq \in Request /\ NoReq.st # "queued"
      BY <1>0, <1>b
    <3>3. /\ [req[r] EXCEPT !.st = st] \in Request /\ [req[r] EXCEPT !.st = st].st = st
          /\ [req[r] EXCEPT !.st = st].c = req[r].c
      BY <1>b, <3>1
    <3> QED
      BY <3>1, <3>2, <3>3
  <2>2. Settled(req, r, st) = [req EXCEPT ![r] = n]
    BY DEF Settled
  <2> HIDE DEF n
  <2> QED
    BY <1>0, <1>6, <2>1, <2>2 DEF FewerReqs
<1>7. \A cs \in SUBSET Conns :
         /\ FewerReqs(Discarded(Abandoned(req, cs)))
         /\ \A r \in Requests : Discarded(Abandoned(req, cs))[r].st # "queued"
  BY <1>4, <1>5
<1>8. FewerReqs(Discarded(req)) /\ \A r \in Requests : Discarded(req)[r].st # "queued"
  BY <1>1, <1>5
<1> QED
  BY <1>1, <1>2, <1>3, <1>4, <1>6, <1>7, <1>8

\* The channel holds the queued requests, each once.
QueueOK ==
    /\ queue \in Seq(Requests)
    /\ Range(queue) = {r \in Requests : req[r].st = "queued"}
    /\ Len(queue) <= Capacity
    /\ \A i, j \in 1 .. Len(queue) : queue[i] = queue[j] => i = j

LEMMA QueueKept ==
    ASSUME QueueOK, queue' = queue, \A r \in Requests : req'[r].st = "queued" <=> req[r].st = "queued"
    PROVE  QueueOK'
  BY DEF QueueOK, Range

LEMMA QueueEmptied ==
    ASSUME queue' = <<>>, \A r \in Requests : req'[r].st # "queued"
    PROVE  QueueOK'
<1>1. Capacity \in Nat
  BY FrontConstants
<1> QED
  BY <1>1 DEF QueueOK, Range

\* send, at the end of the channel; recv, from its front.
LEMMA QueueSent ==
    ASSUME QueueOK, BooksOK, NEW r \in Requests, Send(r)
    PROVE  QueueOK'
<1>1. /\ queue \in Seq(Requests) /\ queue' = Append(queue, r) /\ Len(queue) < Capacity
      /\ req[r].st = "sending" /\ req' = [req EXCEPT ![r].st = "queued"]
  BY DEF Send, QueueOK
<1>2. /\ queue' \in Seq(Requests) /\ Len(queue') = Len(queue) + 1 /\ queue'[Len(queue) + 1] = r
      /\ \A i \in 1 .. Len(queue) : queue'[i] = queue[i]
      /\ Len(queue) \in Nat /\ DOMAIN queue = 1 .. Len(queue) /\ DOMAIN queue' = 1 .. Len(queue) + 1
  BY <1>1
<1>3. \A i \in 1 .. Len(queue) : queue[i] \in Requests /\ req[queue[i]].st = "queued" /\ queue[i] # r
  BY <1>1, <1>2 DEF QueueOK, Range
<1>4. \A q \in Requests : req'[q].st = "queued" <=> req[q].st = "queued" \/ q = r
  BY <1>1 DEF BooksOK, Request
<1>5. Range(queue') = Range(queue) \cup {r}
  <2>1. Range(queue') = {queue'[i] : i \in 1 .. Len(queue) + 1}
    BY <1>2 DEF Range
  <2>2. Range(queue) = {queue[i] : i \in 1 .. Len(queue)}
    BY <1>2 DEF Range
  <2>3. 1 .. Len(queue) + 1 = (1 .. Len(queue)) \cup {Len(queue) + 1}
    BY <1>2
  <2> QED
    BY <1>2, <2>1, <2>2, <2>3
<1>6. Range(queue') = {q \in Requests : req'[q].st = "queued"}
  BY <1>4, <1>5 DEF QueueOK
<1>7. ASSUME NEW i \in 1 .. Len(queue'), NEW j \in 1 .. Len(queue'), queue'[i] = queue'[j]
      PROVE  i = j
  BY <1>2, <1>3, <1>7 DEF QueueOK
<1>8. Len(queue') <= Capacity
  BY <1>1, <1>2, FrontConstants
<1> QED
  BY <1>2, <1>6, <1>7, <1>8 DEF QueueOK

LEMMA QueueReceived ==
    ASSUME QueueOK, BooksOK, Receive
    PROVE  QueueOK' /\ Head(queue) \in Requests /\ req[Head(queue)].st = "queued"
<1>1. /\ queue \in Seq(Requests) /\ queue # <<>> /\ queue' = Tail(queue)
      /\ req' = [req EXCEPT ![Head(queue)].st = "handling"]
  BY DEF Receive, QueueOK
<1>2. /\ queue' \in Seq(Requests) /\ Len(queue') = Len(queue) - 1 /\ Len(queue) \in Nat /\ Len(queue) > 0
      /\ \A i \in 1 .. Len(queue) - 1 : queue'[i] = queue[i + 1]
      /\ DOMAIN queue = 1 .. Len(queue) /\ DOMAIN queue' = 1 .. Len(queue) - 1 /\ Head(queue) = queue[1]
  BY <1>1
<1>3. queue[1] \in Requests /\ req[queue[1]].st = "queued"
  BY <1>2 DEF QueueOK, Range
<1>4. \A q \in Requests : req'[q].st = "queued" <=> req[q].st = "queued" /\ q # queue[1]
  BY <1>1, <1>2, <1>3 DEF BooksOK, Request
<1>5. Range(queue') = Range(queue) \ {queue[1]}
  <2>1. Range(queue') = {queue[i + 1] : i \in 1 .. Len(queue) - 1}
    BY <1>2 DEF Range
  <2>2. Range(queue) = {queue[i] : i \in 1 .. Len(queue)}
    BY <1>2 DEF Range
  <2>3. ASSUME NEW i \in 1 .. Len(queue) - 1
        PROVE  queue[i + 1] \in Range(queue) /\ queue[i + 1] # queue[1]
    BY <1>2, <2>2 DEF QueueOK
  <2>4. ASSUME NEW i \in 1 .. Len(queue), queue[i] # queue[1]
        PROVE  \E k \in 1 .. Len(queue) - 1 : queue[k + 1] = queue[i]
    <3>1. i # 1 /\ i - 1 \in 1 .. Len(queue) - 1 /\ (i - 1) + 1 = i
      BY <1>2, <2>4
    <3> QED
      BY <3>1
  <2>5. Range(queue') \subseteq Range(queue) \ {queue[1]}
    BY <2>1, <2>3
  <2>6. Range(queue) \ {queue[1]} \subseteq Range(queue')
    BY <2>1, <2>2, <2>4
  <2> QED
    BY <2>5, <2>6
<1>6. Range(queue') = {q \in Requests : req'[q].st = "queued"}
  BY <1>4, <1>5 DEF QueueOK
<1>7. ASSUME NEW i \in 1 .. Len(queue'), NEW j \in 1 .. Len(queue'), queue'[i] = queue'[j]
      PROVE  i = j
  <2>1. i + 1 \in 1 .. Len(queue) /\ j + 1 \in 1 .. Len(queue) /\ queue[i + 1] = queue[j + 1]
    BY <1>2, <1>7
  <2>2. i + 1 = j + 1
    BY <2>1 DEF QueueOK
  <2> QED
    BY <1>2, <2>2
<1>8. Len(queue') <= Capacity
  BY <1>2, FrontConstants DEF QueueOK
<1> QED
  BY <1>2, <1>3, <1>6, <1>7, <1>8 DEF QueueOK
\* Where the loops are.
LoopsOK ==
    /\ transport \in {"https", "tcp", "mem"}
    /\ state \in {"Created", "Listening", "Shutdown"}
    /\ phase \in {"idle", "accepting", "draining", "stopped"}
    /\ cancelled \in BOOLEAN /\ dispatching \in BOOLEAN

FrontInd == ThrottleOK /\ LoopsOK /\ BooksOK /\ CountExact /\ QueueOK

\* A step that leaves connections, requests and the channel alone.
LEMMA BooksKept ==
    ASSUME BooksOK, CountExact, QueueOK, UNCHANGED <<transport, conn, req, connections, queue>>
    PROVE  BooksOK' /\ CountExact' /\ QueueOK'
<1>1. BooksOK'
  BY DEF BooksOK
<1>2. CountExact'
  BY DEF CountExact, HeldBy
<1>3. QueueOK'
  BY QueueKept
<1> QED
  BY <1>1, <1>2, <1>3

\* A step after which the same guards are held.
LEMMA GuardsKept ==
    ASSUME CountExact, connections' = connections,
           \A c \in Conns : /\ Held(conn', req', c) <=> Held(conn, req, c)
                            /\ Held(conn, req, c) => conn'[c].ip = conn[c].ip
    PROVE  CountExact'
<1>1. \A a \in Addresses : HeldBy(a)' = HeldBy(a)
  BY DEF HeldBy
<1> QED
  BY <1>1 DEF CountExact

\* A connection in state `old' goes on to state `new', with the guard where it was.
LEMMA ConnGoesOn ==
    ASSUME BooksOK, NEW c \in Conns, NEW st \in {"tls", "open", "awaiting"},
           conn[c].st \notin {"free"}, conn' = [conn EXCEPT ![c].st = st],
           transport' = transport, transport = "https" => st # "awaiting"
    PROVE  /\ conn' \in [Conns -> Connection]
           /\ conn'[c].st = st /\ conn'[c].ip = conn[c].ip
           /\ \A d \in Conns : d # c => conn'[d] = conn[d]
           /\ \A d \in Conns : /\ conn'[d].st = "free" => conn'[d] = NoConn
                               /\ conn'[d].st # "free" => conn'[d].ip \in Addresses
                               /\ transport' = "https" => conn'[d].st # "awaiting"
           /\ \A d \in Conns : conn[d].st \notin {"free", "arrived"} => conn'[d].st \notin {"free", "arrived"}
<1>1. conn \in [Conns -> Connection] /\ conn[c] \in Connection
  BY DEF BooksOK
<1>2. [conn[c] EXCEPT !.st = st] \in Connection
      /\ [conn[c] EXCEPT !.st = st].st = st /\ [conn[c] EXCEPT !.st = st].ip = conn[c].ip
  BY <1>1 DEF Connection
<1>3. conn' = [conn EXCEPT ![c] = [conn[c] EXCEPT !.st = st]]
  BY <1>1
<1>4. conn' \in [Conns -> Connection] /\ conn'[c].st = st /\ conn'[c].ip = conn[c].ip
      /\ \A d \in Conns : d # c => conn'[d] = conn[d]
  BY <1>1, <1>2, <1>3
<1>5. ASSUME NEW d \in Conns
      PROVE  /\ conn'[d].st = "free" => conn'[d] = NoConn
             /\ conn'[d].st # "free" => conn'[d].ip \in Addresses
             /\ transport' = "https" => conn'[d].st # "awaiting"
             /\ conn[d].st \notin {"free", "arrived"} => conn'[d].st \notin {"free", "arrived"}
  <2>1. CASE d = c
    BY <1>4, <2>1 DEF BooksOK
  <2>2. CASE d # c
    BY <1>4, <2>2 DEF BooksOK
  <2> QED
    BY <2>1, <2>2
<1> QED
  BY <1>4, <1>5

\* A request is taken from connection c.
LEMMA ReqTaken ==
    ASSUME BooksOK, NEW c \in Conns, NEW r \in Requests, req[r].st = "free",
           req' = [req EXCEPT ![r] = [c |-> c, st |-> "sending", waits |-> TRUE]]
    PROVE  /\ req' \in [Requests -> Request]
           /\ req'[r].c = c /\ req'[r].st = "sending"
           /\ \A q \in Requests : q # r => req'[q] = req[q]
           /\ \A q \in Requests : req'[q].st = "queued" <=> req[q].st = "queued"
           /\ \A q \in Requests : req'[q].st = "free" => req'[q] = NoReq
  BY DEF BooksOK, Request
LEMMA StepStopAccepting ==
    ASSUME FrontInd, StopAccepting
    PROVE  FrontInd'
<1> USE DEF FrontInd
<1>1. ThrottleOK' /\ LoopsOK'
  BY DEF StopAccepting, ddosVars, ThrottleOK, LoopsOK
<1>2. /\ req' = req /\ queue' = queue /\ connections' = connections /\ transport' = transport
      /\ conn' = Unaccepted(conn) /\ conn \in [Conns -> Connection]
      /\ NoConn \in Connection /\ NoConn.st = "free" /\ NoConn.ip = None
  BY DEF StopAccepting, ddosVars, BooksOK, NoConn, Connection
<1>3. \A c \in Conns : conn'[c] = IF conn[c].st = "arrived" THEN NoConn ELSE conn[c]
  BY <1>2 DEF Unaccepted
<1>4. conn' \in [Conns -> Connection]
  BY <1>2 DEF Unaccepted
<1>5. BooksOK'
  BY <1>2, <1>3, <1>4 DEF BooksOK
<1>6. ASSUME NEW c \in Conns
      PROVE  /\ Held(conn', req', c) <=> Held(conn, req, c)
             /\ Held(conn, req, c) => conn'[c].ip = conn[c].ip
  <2>1. CASE conn[c].st = "arrived"
    <3>1. ~TaskHolds(conn, c) /\ ~TaskHolds(conn', c)
      BY <1>2, <1>3, <2>1 DEF TaskHolds
    <3>2. \A r \in Requests : ~(req[r].c = c /\ RequestHolds(req, r))
      BY <2>1 DEF BooksOK, RequestHolds
    <3> QED
      BY <1>2, <3>1, <3>2 DEF Held
  <2>2. CASE conn[c].st # "arrived"
    BY <1>2, <1>3, <2>2 DEF Held, TaskHolds
  <2> QED
    BY <2>1, <2>2
<1>7. CountExact'
  BY <1>2, <1>6, GuardsKept
<1>8. QueueOK'
  BY <1>2, QueueKept
<1> QED
  BY <1>1, <1>5, <1>7, <1>8

LEMMA StepArrive ==
    ASSUME FrontInd, NEW a \in Addresses, NEW c \in Conns, Arrive(a, c)
    PROVE  FrontInd'
<1> USE DEF FrontInd
<1>1. ThrottleOK' /\ LoopsOK'
  BY DEF Arrive, ddosVars, ThrottleOK, LoopsOK
<1>2. /\ req' = req /\ queue' = queue /\ connections' = connections /\ transport' = transport
      /\ conn[c].st = "free" /\ conn \in [Conns -> Connection]
      /\ conn' = [conn EXCEPT ![c] = [ip |-> a, st |-> "arrived"]]
  BY DEF Arrive, ddosVars, BooksOK
<1>3. conn' \in [Conns -> Connection] /\ conn'[c].ip = a /\ conn'[c].st = "arrived"
      /\ \A d \in Conns : d # c => conn'[d] = conn[d]
  BY <1>2 DEF Connection
<1>4. \A r \in Requests : req[r].st # "free" => req[r].c # c
  BY <1>2 DEF BooksOK
<1>5. BooksOK'
  BY <1>2, <1>3, <1>4 DEF BooksOK
<1>6. ASSUME NEW d \in Conns
      PROVE  /\ Held(conn', req', d) <=> Held(conn, req, d)
             /\ Held(conn, req, d) => conn'[d].ip = conn[d].ip
  <2>1. CASE d = c
    BY <1>2, <1>3, <1>4, <2>1 DEF Held, TaskHolds, RequestHolds
  <2>2. CASE d # c
    BY <1>2, <1>3, <2>2 DEF Held, TaskHolds
  <2> QED
    BY <2>1, <2>2
<1>7. CountExact'
  BY <1>2, <1>6, GuardsKept
<1>8. QueueOK'
  BY <1>2, QueueKept
<1> QED
  BY <1>1, <1>5, <1>7, <1>8

\* A connection is accepted: its guard is one more of its address, and within the cap.
LEMMA StepAccept ==
    ASSUME FrontInd, NEW c \in Conns, Accept(c)
    PROVE  FrontInd'
<1> USE DEF FrontInd
<1>a. conn[c].st = "arrived" /\ conn[c].ip \in Addresses /\ conn \in [Conns -> Connection]
  BY DEF Accept, BooksOK
<1>0. PICK a \in Addresses : conn[c].ip = a /\ conn[c].st = "arrived" /\ conn \in [Conns -> Connection]
  BY <1>a
<1>1. ThrottleOK' /\ LoopsOK'
  BY LookUpLemma DEF Accept, LoopsOK
<1>2. transport' = transport /\ queue' = queue
  BY DEF Accept
<1>3. \A r \in Requests : req[r].st # "free" => req[r].c # c
  BY <1>0 DEF BooksOK
<1>4. ~Held(conn, req, c)
  BY <1>0, <1>3 DEF Held, TaskHolds, RequestHolds
<1>5. CASE AcceptRefused(c)
  <2>1. conn' = [conn EXCEPT ![c] = NoConn] /\ req' = req /\ connections' = connections
    BY <1>5 DEF AcceptRefused
  <2>2. NoConn \in Connection /\ NoConn.st = "free"
    BY DEF NoConn, Connection
  <2>3. conn' \in [Conns -> Connection] /\ conn'[c] = NoConn /\ \A d \in Conns : d # c => conn'[d] = conn[d]
    BY <1>0, <2>1, <2>2
  <2>4. BooksOK'
    BY <1>2, <1>3, <2>1, <2>2, <2>3 DEF BooksOK
  <2>5. ~Held(conn', req', c)
    BY <1>3, <2>1, <2>2, <2>3 DEF Held, TaskHolds, RequestHolds
  <2>6. \A d \in Conns : /\ Held(conn', req', d) <=> Held(conn, req, d)
                         /\ Held(conn, req, d) => conn'[d].ip = conn[d].ip
    BY <1>4, <2>1, <2>3, <2>5 DEF Held, TaskHolds
  <2>7. CountExact' /\ QueueOK'
    BY <1>2, <2>1, <2>6, GuardsKept, QueueKept
  <2> QED
    BY <1>1, <2>4, <2>7
<1>6. ASSUME AcceptAdmitted(c)
      PROVE  FrontInd'
  <2> DEFINE st == IF transport = "https" THEN "tls" ELSE IF transport = "mem" THEN "awaiting" ELSE "open"
  <2>1. conn' = [conn EXCEPT ![c].st = st] /\ connections' = [connections EXCEPT ![a] = @ + 1]
    BY <1>0, <1>6 DEF AcceptAdmitted, LoopsOK
  <2>2. st \in {"tls", "open", "awaiting"} /\ (transport = "https" => st # "awaiting")
    OBVIOUS
  <2> HIDE DEF st
  <2>3. /\ conn' \in [Conns -> Connection]
        /\ conn'[c].st = st /\ conn'[c].ip = a
        /\ \A d \in Conns : d # c => conn'[d] = conn[d]
        /\ \A d \in Conns : /\ conn'[d].st = "free" => conn'[d] = NoConn
                            /\ conn'[d].st # "free" => conn'[d].ip \in Addresses
                            /\ transport' = "https" => conn'[d].st # "awaiting"
        /\ \A d \in Conns : conn[d].st \notin {"free", "arrived"} => conn'[d].st \notin {"free", "arrived"}
    BY <1>0, <1>2, <2>1, <2>2, ConnGoesOn
  <2>4. /\ BooksOK' /\ QueueOK'
        /\ Held(conn', req', c)
        /\ \A d \in Conns : d # c => (Held(conn', req', d) <=> Held(conn, req, d))
    <3>1. CASE transport # "mem"
      <4>1. req' = req /\ st \in {"tls", "open"}
        BY <1>6, <3>1 DEF AcceptAdmitted, st
      <4>2. BooksOK'
        BY <2>3, <4>1 DEF BooksOK
      <4>3. QueueOK'
        BY <1>2, <4>1, QueueKept
      <4> QED
        BY <2>3, <4>1, <4>2, <4>3 DEF Held, TaskHolds
    <3>2. ASSUME transport = "mem", NEW r \in Requests, req[r].st = "free",
                 req' = [req EXCEPT ![r] = [c |-> c, st |-> "sending", waits |-> TRUE]]
          PROVE  /\ BooksOK' /\ QueueOK'
                 /\ Held(conn', req', c)
                 /\ \A d \in Conns : d # c => (Held(conn', req', d) <=> Held(conn, req, d))
      <4>1. /\ req' \in [Requests -> Request]
            /\ req'[r].c = c /\ req'[r].st = "sending"
            /\ \A q \in Requests : q # r => req'[q] = req[q]
            /\ \A q \in Requests : req'[q].st = "queued" <=> req[q].st = "queued"
            /\ \A q \in Requests : req'[q].st = "free" => req'[q] = NoReq
        BY <3>2, ReqTaken
      <4>2. ASSUME NEW q \in Requests, req'[q].st # "free"
            PROVE  req'[q].c \in Conns /\ conn'[req'[q].c].st \notin {"free", "arrived"}
        <5>1. CASE q = r
          BY <2>2, <2>3, <4>1, <5>1
        <5>2. CASE q # r
          BY <2>3, <4>1, <4>2, <5>2 DEF BooksOK
        <5> QED
          BY <5>1, <5>2
      <4>3. BooksOK'
        BY <2>3, <4>1, <4>2 DEF BooksOK
      <4>4. QueueOK'
        BY <1>2, <4>1, QueueKept
      <4>5. Held(conn', req', c)
        BY <4>1 DEF Held, RequestHolds
      <4>6. ASSUME NEW d \in Conns, d # c
            PROVE  Held(conn', req', d) <=> Held(conn, req, d)
        BY <2>3, <3>2, <4>1, <4>6 DEF Held, TaskHolds, RequestHolds
      <4> QED
        BY <4>3, <4>4, <4>5, <4>6
    <3> QED
      BY <1>6, <3>1, <3>2 DEF AcceptAdmitted
  <2>5. /\ HeldBy(a)' = HeldBy(a) \cup {c} /\ c \notin HeldBy(a)
        /\ \A b \in Addresses : b # a => HeldBy(b)' = HeldBy(b)
    BY <1>0, <1>4, <2>3, <2>4 DEF HeldBy
  <2>6. IsFiniteSet(HeldBy(a))
    BY FrontConstants, FS_Subset DEF HeldBy
  <2>7. Cardinality(HeldBy(a) \cup {c}) = Cardinality(HeldBy(a)) + 1
    BY <2>5, <2>6, FS_AddElement
  <2>8. connections[a] < MaxConnectionsPerIp
    BY <1>0, <1>6 DEF AcceptAdmitted, Admitted, Acquires
  <2>9. connections' \in [Addresses -> 0 .. MaxConnectionsPerIp]
        /\ connections'[a] = connections[a] + 1 /\ \A b \in Addresses : b # a => connections'[b] = connections[b]
    BY <1>0, <2>1, <2>8, FrontConstants DEF CountExact
  <2>10. CountExact'
    <3>1. ASSUME NEW b \in Addresses
          PROVE  connections'[b] = Cardinality(HeldBy(b)')
      <4>0. connections[b] = Cardinality(HeldBy(b)) /\ connections[a] = Cardinality(HeldBy(a))
        BY <1>0 DEF CountExact
      <4>1. CASE b = a
        BY <2>5, <2>7, <2>9, <4>0, <4>1
      <4>2. CASE b # a
        BY <2>5, <2>9, <4>0, <4>2
      <4> QED
        BY <4>1, <4>2
    <3> QED
      BY <2>9, <3>1 DEF CountExact
  <2> QED
    BY <1>1, <2>4, <2>10
<1> QED
  BY <1>5, <1>6 DEF Accept
\* Something ends: connections close, requests are given up or settled.
LEMMA StepEnds ==
    ASSUME FrontInd, ThrottleOK', LoopsOK', transport' = transport,
           NEW cn, NEW rq, FewerConns(cn), FewerReqs(rq), Becomes(cn, rq),
           \/ queue' = queue /\ \A r \in Requests : rq[r].st = "queued" <=> req[r].st = "queued"
           \/ queue' = <<>> /\ \A r \in Requests : rq[r].st # "queued"
    PROVE  FrontInd'
<1>1. BooksOK' /\ CountExact'
  BY BecomesLemma DEF FrontInd
<1>2. req' = rq
  BY DEF Becomes
<1>3. QueueOK'
  BY <1>2, QueueKept, QueueEmptied DEF FrontInd
<1> QED
  BY <1>1, <1>3 DEF FrontInd

\* The end of a request for which its connection was waiting, or that was refused.
LEMMA StepOver ==
    ASSUME FrontInd, ThrottleOK', LoopsOK', transport' = transport, queue' = queue,
           NEW r \in Requests, req[r].st \in {"sending", "replied", "dropped"}, Over(r)
    PROVE  FrontInd'
<1>1. BooksOK /\ req \in [Requests -> Request] /\ req[r].c \in Conns /\ conn[req[r].c].st \notin {"free", "arrived"}
  BY DEF FrontInd, BooksOK
<1> DEFINE cn == IF transport = "https" THEN conn ELSE Closed(conn, {req[r].c})
           rq == [req EXCEPT ![r] = NoReq]
<1>2. FewerConns(cn) /\ FewerReqs(rq)
  BY <1>1, EndingLemma
<1>3. \A q \in Requests : rq[q].st = "queued" <=> req[q].st = "queued"
  BY <1>1 DEF NoReq
<1>4. Becomes(cn, rq)
  BY DEF Over
<1> HIDE DEF cn, rq
<1> QED
  BY <1>2, <1>3, <1>4, StepEnds

\* What AddPoints and NoScore do to the throttle.
LEMMA Scoring ==
    ASSUME FrontInd
    PROVE  /\ NoScore => ThrottleOK'
           /\ \A c \in Conns : conn[c].st # "free" => conn[c].ip \in Addresses
           /\ \A c \in Conns : conn[c].st # "free" /\ ReportBadRequest(conn[c].ip) => ThrottleOK'
           /\ \A c \in Conns : conn[c].st # "free" /\ AllowRequest(conn[c].ip) => ThrottleOK'
           /\ \A r \in Requests : req[r].st # "free" => req[r].c \in Conns /\ conn[req[r].c].st # "free"
<1>1. NoScore => ThrottleOK'
  BY DEF NoScore, ThrottleOK, FrontInd
<1>2. /\ \A c \in Conns : conn[c].st # "free" => conn[c].ip \in Addresses
      /\ \A r \in Requests : req[r].st # "free" => req[r].c \in Conns /\ conn[req[r].c].st # "free"
  BY DEF FrontInd, BooksOK
<1>3. ASSUME NEW c \in Conns, conn[c].st # "free", ReportBadRequest(conn[c].ip)
      PROVE  ThrottleOK'
  BY <1>2, <1>3, FrontConstants, AddPointsLemma DEF ReportBadRequest, FrontInd
<1>4. ASSUME NEW c \in Conns, conn[c].st # "free", AllowRequest(conn[c].ip)
      PROVE  ThrottleOK'
  BY <1>2, <1>4, AddPointsLemma DEF AllowRequest, FrontInd
<1> QED
  BY <1>1, <1>2, <1>3, <1>4

\* The steps of one connection.
LEMMA StepConnection ==
    ASSUME FrontInd, NEW c \in Conns,
           Handshake(c) \/ HandshakeFails(c) \/ CloseConnection(c) \/ UnhandledRoute(c)
    PROVE  FrontInd'
<1>0. BooksOK /\ {c} \in SUBSET Conns
  BY DEF FrontInd
<1>1. CASE Handshake(c)
  <2>1. ThrottleOK' /\ LoopsOK' /\ transport' = transport
    BY <1>1 DEF Handshake, ddosVars, FrontInd, ThrottleOK, LoopsOK
  <2>2. /\ conn[c].st = "tls" /\ conn' = [conn EXCEPT ![c].st = "open"]
        /\ req' = req /\ queue' = queue /\ connections' = connections
    BY <1>1 DEF Handshake, ddosVars
  <2>3. /\ conn' \in [Conns -> Connection]
        /\ conn'[c].st = "open" /\ conn'[c].ip = conn[c].ip
        /\ \A d \in Conns : d # c => conn'[d] = conn[d]
        /\ \A d \in Conns : /\ conn'[d].st = "free" => conn'[d] = NoConn
                            /\ conn'[d].st # "free" => conn'[d].ip \in Addresses
                            /\ transport' = "https" => conn'[d].st # "awaiting"
        /\ \A d \in Conns : conn[d].st \notin {"free", "arrived"} => conn'[d].st \notin {"free", "arrived"}
    BY <1>0, <2>1, <2>2, ConnGoesOn
  <2>4. BooksOK'
    BY <1>0, <2>2, <2>3 DEF BooksOK
  <2>5. \A d \in Conns : /\ Held(conn', req', d) <=> Held(conn, req, d)
                         /\ conn'[d].ip = conn[d].ip
    BY <2>2, <2>3 DEF Held, TaskHolds
  <2>6. CountExact' /\ QueueOK'
    BY <2>2, <2>5, GuardsKept, QueueKept DEF FrontInd
  <2> QED
    BY <2>1, <2>4, <2>6 DEF FrontInd
<1>2. CASE HandshakeFails(c)
  <2>1. conn[c].st = "tls" /\ transport' = transport /\ queue' = queue /\ LoopsOK'
    BY <1>2 DEF HandshakeFails, FrontInd, LoopsOK
  <2>2. ThrottleOK'
    BY <1>2, <2>1, Scoring DEF HandshakeFails
  <2>3. FewerConns(Closed(conn, {c})) /\ FewerReqs(req)
    BY <1>0, <2>1, EndingLemma
  <2>4. Becomes(Closed(conn, {c}), req)
    BY <1>2 DEF HandshakeFails
  <2> QED
    BY <2>1, <2>2, <2>3, <2>4, StepEnds
<1>3. CASE CloseConnection(c)
  <2>1. conn[c].st = "open" /\ transport' = transport /\ queue' = queue /\ LoopsOK'
    BY <1>3 DEF CloseConnection, FrontInd, LoopsOK
  <2>2. ThrottleOK'
    BY <1>3, Scoring DEF CloseConnection
  <2>3. FewerConns(Closed(conn, {c})) /\ FewerReqs(Abandoned(req, {c}))
        /\ \A r \in Requests : Abandoned(req, {c})[r].st = "queued" <=> req[r].st = "queued"
    BY <1>0, <2>1, EndingLemma
  <2>4. Becomes(Closed(conn, {c}), Abandoned(req, {c}))
    BY <1>3 DEF CloseConnection
  <2> QED
    BY <2>1, <2>2, <2>3, <2>4, StepEnds
<1>4. CASE UnhandledRoute(c)
  <2>1. /\ conn[c].st = "open" /\ ReportBadRequest(conn[c].ip) /\ LoopsOK'
        /\ UNCHANGED <<transport, conn, req, connections, queue>>
    BY <1>4 DEF UnhandledRoute, Asks, FrontInd, LoopsOK
  <2>2. ThrottleOK'
    BY <2>1, Scoring
  <2> QED
    BY <2>1, <2>2, BooksKept DEF FrontInd
<1> QED
  BY <1>1, <1>2, <1>3, <1>4
\* A request is taken from a connection whose guard is held.
LEMMA StepAsk ==
    ASSUME FrontInd, NEW c \in Conns, NEW r \in Requests, PostBlob(c, r) \/ ReadFrame(c, r)
    PROVE  FrontInd'
<1>0. BooksOK /\ conn[c].st = "open" /\ req[r].st = "free" /\ queue' = queue /\ connections' = connections
      /\ transport' = transport /\ LoopsOK' /\ req \in [Requests -> Request]
  BY DEF PostBlob, ReadFrame, Asks, FrontInd, LoopsOK, BooksOK, ddosVars
<1>1. ThrottleOK'
  <2>1. CASE PostBlob(c, r)
    BY <1>0, <2>1, Scoring DEF PostBlob
  <2>2. CASE ReadFrame(c, r)
    BY <2>2 DEF ReadFrame, ddosVars, FrontInd, ThrottleOK
  <2> QED
    BY <2>1, <2>2
<1>2. CASE req' = req /\ conn' = conn
  BY <1>0, <1>1, <1>2, BooksKept DEF FrontInd
<1>3. ASSUME req' = [req EXCEPT ![r] = [c |-> c, st |-> "sending", waits |-> TRUE]],
             conn' = conn \/ (transport = "tcp" /\ conn' = [conn EXCEPT ![c].st = "awaiting"])
      PROVE  FrontInd'
  <2>1. /\ req' \in [Requests -> Request]
        /\ req'[r].c = c /\ req'[r].st = "sending"
        /\ \A q \in Requests : q # r => req'[q] = req[q]
        /\ \A q \in Requests : req'[q].st = "queued" <=> req[q].st = "queued"
        /\ \A q \in Requests : req'[q].st = "free" => req'[q] = NoReq
    BY <1>0, <1>3, ReqTaken
  <2>2. /\ conn' \in [Conns -> Connection]
        /\ conn'[c].st \in {"open", "awaiting"} /\ conn'[c].ip = conn[c].ip
        /\ \A d \in Conns : d # c => conn'[d] = conn[d]
        /\ \A d \in Conns : /\ conn'[d].st = "free" => conn'[d] = NoConn
                            /\ conn'[d].st # "free" => conn'[d].ip \in Addresses
                            /\ transport' = "https" => conn'[d].st # "awaiting"
        /\ \A d \in Conns : conn[d].st \notin {"free", "arrived"} => conn'[d].st \notin {"free", "arrived"}
    <3>1. CASE conn' = conn
      BY <1>0, <3>1 DEF BooksOK
    <3>2. CASE transport = "tcp" /\ conn' = [conn EXCEPT ![c].st = "awaiting"]
      BY <1>0, <3>2, ConnGoesOn
    <3> QED
      BY <1>3, <3>1, <3>2
  <2>3. ASSUME NEW q \in Requests, req'[q].st # "free"
        PROVE  req'[q].c \in Conns /\ conn'[req'[q].c].st \notin {"free", "arrived"}
    <3>1. CASE q = r
      BY <2>1, <2>2, <3>1
    <3>2. CASE q # r
      BY <1>0, <2>1, <2>2, <2>3, <3>2 DEF BooksOK
    <3> QED
      BY <3>1, <3>2
  <2>4. BooksOK'
    BY <2>1, <2>2, <2>3 DEF BooksOK
  <2>5. QueueOK'
    BY <1>0, <2>1, QueueKept DEF FrontInd
  <2>6. Held(conn, req, c) /\ Held(conn', req', c)
    BY <1>0, <2>1 DEF Held, TaskHolds, RequestHolds
  <2>7. ASSUME NEW d \in Conns, d # c
        PROVE  Held(conn', req', d) <=> Held(conn, req, d)
    <3>1. \A q \in Requests : (req'[q].c = d /\ req'[q].st # "free") <=> (req[q].c = d /\ req[q].st # "free")
      BY <1>0, <2>1, <2>7
    <3>2. conn'[d] = conn[d]
      BY <2>2, <2>7
    <3> QED
      BY <3>1, <3>2 DEF Held, TaskHolds, RequestHolds
  <2>8. CountExact'
    BY <1>0, <2>2, <2>6, <2>7, GuardsKept DEF FrontInd
  <2> QED
    BY <1>0, <1>1, <2>4, <2>5, <2>8 DEF FrontInd
<1>4. \/ req' = req /\ conn' = conn
      \/ /\ req' = [req EXCEPT ![r] = [c |-> c, st |-> "sending", waits |-> TRUE]]
         /\ conn' = conn \/ (transport = "tcp" /\ conn' = [conn EXCEPT ![c].st = "awaiting"])
  <2>1. CASE PostBlob(c, r)
    <3>1. CASE AllowsRequest(conn[c].ip)
      BY <2>1, <3>1 DEF PostBlob
    <3>2. CASE ~AllowsRequest(conn[c].ip)
      BY <1>0, <2>1, <3>2 DEF PostBlob
    <3> QED
      BY <3>1, <3>2
  <2>2. CASE ReadFrame(c, r)
    BY <2>2 DEF ReadFrame
  <2> QED
    BY <2>1, <2>2
<1> QED
  BY <1>2, <1>3, <1>4

\* A request goes into the channel, and out of it.
LEMMA StepChannel ==
    ASSUME FrontInd, (\E r \in Requests : Send(r)) \/ Receive
    PROVE  FrontInd'
<1>0. BooksOK /\ QueueOK /\ CountExact /\ req \in [Requests -> Request]
  BY DEF FrontInd, BooksOK
<1>1. ThrottleOK' /\ LoopsOK'
  BY DEF Send, Receive, ddosVars, FrontInd, ThrottleOK, LoopsOK
<1>2. transport' = transport /\ conn' = conn /\ connections' = connections
  BY DEF Send, Receive, ddosVars
<1>3. ASSUME NEW r \in Requests, NEW st \in {"queued", "handling"},
             req[r].st \in {"sending", "queued"}, req' = [req EXCEPT ![r].st = st]
      PROVE  BooksOK' /\ CountExact'
  <2>1. /\ req' \in [Requests -> Request] /\ req'[r].st = st /\ req'[r].c = req[r].c
        /\ \A q \in Requests : q # r => req'[q] = req[q]
    BY <1>0, <1>3 DEF Request
  <2>2. \A q \in Requests : req'[q].c = req[q].c /\ (req'[q].st = "free" <=> req[q].st = "free")
    BY <1>3, <2>1
  <2>3. \A q \in Requests : req'[q].st = "free" => req'[q] = NoReq
    BY <1>0, <1>3, <2>1 DEF BooksOK
  <2>4. BooksOK'
    BY <1>0, <1>2, <2>1, <2>2, <2>3 DEF BooksOK
  <2>5. \A c \in Conns : Held(conn', req', c) <=> Held(conn, req, c)
    BY <1>2, <2>2 DEF Held, TaskHolds, RequestHolds
  <2>6. CountExact'
    BY <1>0, <1>2, <2>5, GuardsKept
  <2> QED
    BY <2>4, <2>6
<1>4. ASSUME NEW r \in Requests, Send(r)
      PROVE  FrontInd'
  <2>1. QueueOK'
    BY <1>0, <1>4, QueueSent
  <2>2. BooksOK' /\ CountExact'
    BY <1>3, <1>4 DEF Send
  <2> QED
    BY <1>1, <2>1, <2>2 DEF FrontInd
<1>5. CASE Receive
  <2>1. QueueOK' /\ Head(queue) \in Requests /\ req[Head(queue)].st = "queued"
    BY <1>0, <1>5, QueueReceived
  <2>2. BooksOK' /\ CountExact'
    BY <1>3, <1>5, <2>1 DEF Receive
  <2> QED
    BY <1>1, <2>1, <2>2 DEF FrontInd
<1> QED
  BY <1>4, <1>5

\* The steps that end requests.
LEMMA StepRequest ==
    ASSUME FrontInd, NEW r \in Requests,
           \/ SendFails(r) \/ Respond(r) \/ RespondBad(r)
           \/ DispatchOk(r) \/ DispatchError(r) \/ DispatchUndecodable(r)
    PROVE  FrontInd'
<1>0. BooksOK
  BY DEF FrontInd
<1>1. ASSUME SendFails(r) \/ Respond(r) \/ RespondBad(r)
      PROVE  FrontInd'
  <2>1. req[r].st \in {"sending", "replied", "dropped"} /\ Over(r) /\ transport' = transport /\ queue' = queue /\ LoopsOK'
    BY <1>1 DEF SendFails, Respond, RespondBad, FrontInd, LoopsOK
  <2>2. NoScore \/ ReportBadRequest(conn[req[r].c].ip)
    BY <1>1 DEF SendFails, Respond, RespondBad
  <2>3. req[r].c \in Conns /\ conn[req[r].c].st # "free"
    BY <2>1, Scoring
  <2>4. ThrottleOK'
    BY <2>2, <2>3, Scoring
  <2> QED
    BY <2>1, <2>4, StepOver
<1>2. ASSUME NEW reply \in {"replied", "dropped"}, Dispatched(r, reply),
             NoScore \/ ReportBadRequest(conn[req[r].c].ip)
      PROVE  FrontInd'
  <2>1. req[r].st = "handling" /\ transport' = transport /\ queue' = queue /\ LoopsOK'
    BY <1>2 DEF Dispatched, Handling, FrontInd, LoopsOK
  <2>2. req[r].c \in Conns /\ conn[req[r].c].st # "free"
    BY <2>1, Scoring
  <2>3. ThrottleOK'
    BY <1>2, <2>2, Scoring
  <2>4. FewerConns(conn) /\ FewerReqs(Settled(req, r, reply))
        /\ \A q \in Requests : Settled(req, r, reply)[q].st = "queued" <=> req[q].st = "queued"
    BY <1>0, <2>1, EndingLemma
  <2>5. Becomes(conn, Settled(req, r, reply))
    BY <1>2 DEF Dispatched
  <2> QED
    BY <2>1, <2>3, <2>4, <2>5, StepEnds
<1> QED
  BY <1>1, <1>2 DEF DispatchOk, DispatchError, DispatchUndecodable

\* The steps that end the loops.
LEMMA StepShutdown ==
    ASSUME FrontInd, ShutdownDeadline \/ RunFails \/ StopDispatching
    PROVE  FrontInd'
<1>0. BooksOK /\ transport' = transport
  BY DEF FrontInd, ShutdownDeadline, RunFails, StopDispatching
<1>1. ThrottleOK'
  BY Scoring DEF ShutdownDeadline, RunFails, StopDispatching
<1>2. LoopsOK'
  BY DEF ShutdownDeadline, RunFails, StopDispatching, FrontInd, LoopsOK
<1>3. LiveConns \in SUBSET Conns /\ \A c \in LiveConns : conn[c].st \notin {"free", "arrived"}
  BY DEF LiveConns, Live
<1>4. CASE ShutdownDeadline
  <2>1. FewerConns(Closed(conn, LiveConns)) /\ FewerReqs(Abandoned(req, LiveConns))
        /\ \A r \in Requests : Abandoned(req, LiveConns)[r].st = "queued" <=> req[r].st = "queued"
    BY <1>0, <1>3, EndingLemma
  <2>2. Becomes(Closed(conn, LiveConns), Abandoned(req, LiveConns)) /\ queue' = queue
    BY <1>4 DEF ShutdownDeadline
  <2> QED
    BY <1>0, <1>1, <1>2, <2>1, <2>2, StepEnds
<1>5. CASE RunFails
  <2> DEFINE ended == IF transport = "https" THEN LiveConns ELSE {}
  <2>1. ended \in SUBSET Conns /\ \A c \in ended : conn[c].st \notin {"free", "arrived"}
    BY <1>3
  <2>2. Becomes(Unaccepted(Closed(conn, ended)), Discarded(Abandoned(req, ended))) /\ queue' = <<>>
    BY <1>5 DEF RunFails
  <2> HIDE DEF ended
  <2>3. FewerConns(Unaccepted(Closed(conn, ended))) /\ FewerReqs(Discarded(Abandoned(req, ended)))
        /\ \A r \in Requests : Discarded(Abandoned(req, ended))[r].st # "queued"
    BY <1>0, <2>1, EndingLemma
  <2> QED
    BY <1>0, <1>1, <1>2, <2>2, <2>3, StepEnds
<1>6. CASE StopDispatching
  <2>1. FewerConns(conn) /\ FewerReqs(Discarded(req)) /\ \A r \in Requests : Discarded(req)[r].st # "queued"
    BY <1>0, EndingLemma
  <2>2. Becomes(conn, Discarded(req)) /\ queue' = <<>>
    BY <1>6 DEF StopDispatching
  <2> QED
    BY <1>0, <1>1, <1>2, <2>1, <2>2, StepEnds
<1> QED
  BY <1>4, <1>5, <1>6

\* The steps that leave connections and requests alone.
LEMMA StepElse ==
    ASSUME FrontInd,
           \/ Listen \/ Cancel \/ Drained \/ SecondPasses \/ AtRest
           \/ \E a \in Addresses : BanAdded(a)
           \/ UNCHANGED frontVars
    PROVE  FrontInd'
<1>1. UNCHANGED <<transport, conn, req, connections, queue>>
  BY DEF Listen, Cancel, Drained, SecondPasses, AtRest, BanAdded, Second, IpsetAdd, frontVars, listenVars, ddosVars
<1>2. LoopsOK'
  BY DEF Listen, Cancel, Drained, SecondPasses, AtRest, BanAdded, frontVars, listenVars, FrontInd, LoopsOK
<1>3. ThrottleOK'
  <2>1. CASE UNCHANGED <<protection, scores, throttle, adding, firewall>>
    BY <2>1 DEF FrontInd, ThrottleOK
  <2>2. CASE Second
    BY <2>2, SecondLemma DEF FrontInd
  <2>3. ASSUME NEW a \in Addresses, IpsetAdd(a)
        PROVE  ThrottleOK'
    <3>1. [firewall EXCEPT ![a] = IdleSecs] \in [Addresses -> 0 .. IdleSecs]
      BY IdleSecsLemma DEF FrontInd, ThrottleOK
    <3> QED
      BY <2>3, <3>1 DEF IpsetAdd, FrontInd, ThrottleOK
  <2> QED
    BY <2>1, <2>2, <2>3 DEF Listen, Cancel, Drained, SecondPasses, AtRest, BanAdded, frontVars, ddosVars
<1> QED
  BY <1>1, <1>2, <1>3, BooksKept DEF FrontInd

\* The invariant of the listener is inductive.
LEMMA FrontStep ==
    ASSUME FrontInd, [ListenerNext]_frontVars
    PROVE  FrontInd'
  BY StepElse, StepShutdown, StepRequest, StepChannel, StepAsk, StepConnection, StepAccept,
     StepArrive, StepStopAccepting
  DEF ListenerNext

\* The guards bound what an address has in the server.
LEMMA FrontCaps ==
    ASSUME FrontInd
    PROVE  ListenerInv
<1>1. ListenerTypeOK
  BY DEF FrontInd, ThrottleOK, LoopsOK, BooksOK, CountExact, QueueOK, ListenerTypeOK, DdosTypeOK
<1>2. ASSUME NEW a \in Addresses
      PROVE  /\ IsFiniteSet(HeldBy(a)) /\ Cardinality(HeldBy(a)) <= MaxConnectionsPerIp
             /\ \A S \in SUBSET HeldBy(a) : Cardinality(S) <= MaxConnectionsPerIp
  <2>1. IsFiniteSet(HeldBy(a))
    BY FrontConstants, FS_Subset DEF HeldBy
  <2>2. Cardinality(HeldBy(a)) \in 0 .. MaxConnectionsPerIp
    BY DEF FrontInd, CountExact
  <2>3. ASSUME NEW S \in SUBSET HeldBy(a)
        PROVE  Cardinality(S) <= MaxConnectionsPerIp
    <3>1. IsFiniteSet(S) /\ Cardinality(S) <= Cardinality(HeldBy(a))
      BY <2>1, FS_Subset
    <3>2. Cardinality(S) \in Nat
      BY <3>1, FS_CardinalityType
    <3> QED
      BY <2>2, <3>1, <3>2, FrontConstants
  <2> QED
    BY <2>1, <2>2, <2>3, FrontConstants
<1>3. ASSUME NEW a \in Addresses
      PROVE  /\ transport = "https" =>
                  {c \in Conns : conn[c].ip = a /\ Live(conn, c)} \subseteq HeldBy(a)
             /\ {req[r].c : r \in {q \in Requests : req[q].st \in {"queued", "handling"}
                                                     /\ conn[req[q].c].ip = a}} \subseteq HeldBy(a)
  <2>1. transport = "https" => {c \in Conns : conn[c].ip = a /\ Live(conn, c)} \subseteq HeldBy(a)
    BY DEF FrontInd, BooksOK, Live, HeldBy, Held, TaskHolds
  <2>2. ASSUME NEW r \in Requests, req[r].st \in {"queued", "handling"}, conn[req[r].c].ip = a
        PROVE  req[r].c \in HeldBy(a)
    BY <2>2 DEF FrontInd, BooksOK, HeldBy, Held, RequestHolds
  <2> QED
    BY <2>1, <2>2
<1>4. ConnectionCap
  BY <1>2, <1>3 DEF ConnectionCap
<1> QED
  BY <1>1, <1>4 DEF ListenerInv

\* Whatever peers do, and wherever connections, requests and the loops end, an address has
\* no more in the server than its cap: the count of its guards stays exact.
THEOREM FrontAlwaysCapped == ListenerSpec => []ListenerInv
<1>1. ListenerInit => FrontInd
  <2> SUFFICES ASSUME ListenerInit PROVE FrontInd
    OBVIOUS
  <2> USE DEF ListenerInit
  <2>1. ThrottleOK
    BY FrontConstants, IdleSecsLemma DEF DdosInit, ThrottleOK
  <2>2. LoopsOK
    BY DEF LoopsOK
  <2>3. BooksOK
    BY DEF BooksOK, NoConn, NoReq, Connection, Request
  <2>4. QueueOK
    BY FrontConstants DEF QueueOK, Range, NoReq
  <2>5. \A a \in Addresses : HeldBy(a) = {}
    BY DEF HeldBy, Held, TaskHolds, RequestHolds, NoConn, NoReq
  <2>6. CountExact
    <3>1. Cardinality({}) = 0
      BY FS_EmptySet
    <3>2. connections \in [Addresses -> 0 .. MaxConnectionsPerIp] /\ \A a \in Addresses : connections[a] = 0
      BY FrontConstants DEF DdosInit
    <3> QED
      BY <2>5, <3>1, <3>2 DEF CountExact
  <2> QED
    BY <2>1, <2>2, <2>3, <2>4, <2>6 DEF FrontInd
<1>2. FrontInd /\ [ListenerNext]_frontVars => FrontInd'
  BY FrontStep
<1>3. FrontInd => ListenerInv
  BY FrontCaps
<1> QED
  BY <1>1, <1>2, <1>3, PTL DEF ListenerSpec
-----------------------------------------------------------------------------
(***************************************************************************)
(* The envelope: types.                                                    *)
(***************************************************************************)
\* Stamps that worth can be counted for.
Stamps == {t \in Int : t + EnvelopeTime >= 0}

WorkSeen == [pow : Nat, ts : Stamps]

Destinations == Servers \cup {AnyServer}

Packet ==
  [salt : Calls, to : Servers, flags : SUBSET {"known"}, key : Destinations, body : Bodies,
   ts : Stamps, pow : Works, kind : {"PingV1", "BootstrapV1"}]

Answer ==
  [id : Servers, signed : [key : Servers, hash : Bodies], kind : {"PingV1", "BootstrapV1", "ErrorResponseV1"}]

CallRecord ==
  [st : {"idle"}] \cup
  [st : {"waiting", "failed"}, dest : Destinations, body : Bodies, from : {AnyServer}] \cup
  [st : {"answered"}, dest : Destinations, body : Bodies, from : Servers]

EnvelopeTypeOK ==
  /\ serverTime \in 0 .. EnvelopeTime
  /\ packets \in SUBSET Packet
  /\ salts \in [Servers -> SUBSET [salt : Calls, at : Nat]]
  /\ own \in [Servers -> [day : WorkSeen, month : WorkSeen]]
  /\ answers \in SUBSET Answer
  /\ call \in [Calls -> CallRecord]
  /\ receipts \in [Servers -> [Calls -> Seq(Nat)]]

\* A salt names one packet, of a call that was made; what was accepted was sent.
OneSalt ==
  /\ \A p \in packets : call[p.salt].st # "idle"
  /\ \A p, q \in packets : p.salt = q.salt => p = q
  /\ \A s \in Servers, k \in Calls : receipts[s][k] # <<>> => call[k].st # "idle"

\* The last acceptance of a salt is remembered with its time.
LastRemembered ==
  \A s \in Servers, k \in Calls :
    receipts[s][k] # <<>> => \E e \in salts[s] : e.salt = k /\ e.at = receipts[s][k][Len(receipts[s][k])]

\* An answer is signed by the server that gives it, which accepted a request of that body.
AnswersBacked ==
  \A r \in answers :
    /\ r.signed.key = r.id
    /\ \E p \in packets : p.body = r.signed.hash /\ receipts[r.id][p.salt] # <<>>

EnvelopeInd ==
  /\ EnvelopeTypeOK
  /\ OneSalt
  /\ LastRemembered
  /\ AnswersBacked
  /\ ActedOnOnce
  /\ BestWorkKept
  /\ AnsweredByDestination

-----------------------------------------------------------------------------
(***************************************************************************)
(* The envelope: worth.                                                    *)
(***************************************************************************)
LEMMA EnvelopeBounds ==
  /\ ClockDrift \in Nat /\ SaltMemory \in Nat /\ EnvelopeTime \in Nat /\ ClockDrift <= SaltMemory
  /\ Works \subseteq Nat /\ AnyServer \notin Servers
  /\ \A skew \in Skews : skew \in Int /\ skew + EnvelopeTime >= 0
BY EnvelopeAssumption

\* What a work is worth is a number, so that any two are in order.
LEMMA WorthIsNumber ==
  ASSUME NEW w \in WorkSeen
  PROVE  DayWorth(w) \in Int /\ MonthWorth(w) \in Int
<1> DEFINE n == w.ts + EnvelopeTime
<1>1. n \in Nat /\ w.pow \in Nat
  BY EnvelopeBounds DEF WorkSeen, Stamps
<1>2. 2^n \in Int
  BY <1>1
<1> QED
  BY <1>1, <1>2 DEF DayWorth, MonthWorth

LEMMA WorkOfTyped ==
  ASSUME NEW s \in Servers, NEW p \in Packet
  PROVE  WorkOf(s, p) \in WorkSeen
BY EnvelopeBounds DEF WorkOf, PowMeasure, Packet, WorkSeen

\* A better work takes the place of the one that was kept, and a worse one does not.
LEMMA ImprovedKeepsBest ==
  ASSUME NEW s \in Servers, own[s] \in [day : WorkSeen, month : WorkSeen], NEW w \in WorkSeen
  PROVE  /\ Improved(s, w) \in [day : WorkSeen, month : WorkSeen]
         /\ DayWorth(Improved(s, w).day) >= DayWorth(w)
         /\ DayWorth(Improved(s, w).day) >= DayWorth(own[s].day)
         /\ MonthWorth(Improved(s, w).month) >= MonthWorth(w)
         /\ MonthWorth(Improved(s, w).month) >= MonthWorth(own[s].month)
<1>1. own[s].day \in WorkSeen /\ own[s].month \in WorkSeen
  OBVIOUS
<1>2. /\ DayWorth(w) \in Int /\ MonthWorth(w) \in Int
      /\ DayWorth(own[s].day) \in Int /\ MonthWorth(own[s].month) \in Int
  BY <1>1, WorthIsNumber
<1>3. /\ Improved(s, w).day = (IF DayWorth(w) > DayWorth(own[s].day) THEN w ELSE own[s].day)
      /\ Improved(s, w).month = (IF MonthWorth(w) > MonthWorth(own[s].month) THEN w ELSE own[s].month)
  BY DEF Improved
<1>4. Improved(s, w) \in [day : WorkSeen, month : WorkSeen]
  BY <1>1 DEF Improved
<1>5. /\ DayWorth(Improved(s, w).day) >= DayWorth(w)
      /\ DayWorth(Improved(s, w).day) >= DayWorth(own[s].day)
  <2>1. CASE DayWorth(w) > DayWorth(own[s].day)
    <3>1. Improved(s, w).day = w
      BY <2>1, <1>3
    <3> QED
      BY <3>1, <2>1, <1>2
  <2>2. CASE ~(DayWorth(w) > DayWorth(own[s].day))
    <3>1. Improved(s, w).day = own[s].day
      BY <2>2, <1>3
    <3> QED
      BY <3>1, <2>2, <1>2
  <2> QED
    BY <2>1, <2>2
<1>6. /\ MonthWorth(Improved(s, w).month) >= MonthWorth(w)
      /\ MonthWorth(Improved(s, w).month) >= MonthWorth(own[s].month)
  <2>1. CASE MonthWorth(w) > MonthWorth(own[s].month)
    <3>1. Improved(s, w).month = w
      BY <2>1, <1>3
    <3> QED
      BY <3>1, <2>1, <1>2
  <2>2. CASE ~(MonthWorth(w) > MonthWorth(own[s].month))
    <3>1. Improved(s, w).month = own[s].month
      BY <2>2, <1>3
    <3> QED
      BY <3>1, <2>2, <1>2
  <2> QED
    BY <2>1, <2>2
<1> QED
  BY <1>4, <1>5, <1>6

-----------------------------------------------------------------------------
(***************************************************************************)
(* The envelope: the steps.                                                *)
(***************************************************************************)
LEMMA EnvelopeStarts == EnvelopeInit => EnvelopeInd
<1> SUFFICES ASSUME EnvelopeInit PROVE EnvelopeInd
  OBVIOUS
<1>1. NoWork \in WorkSeen
  BY EnvelopeBounds DEF NoWork, WorkSeen, Stamps
<1>2. \A s \in Servers, k \in Calls : receipts[s][k] = <<>>
  BY DEF EnvelopeInit
<1>3. EnvelopeTypeOK
  <2>1. call \in [Calls -> CallRecord]
    BY DEF EnvelopeInit, CallRecord
  <2>2. own \in [Servers -> [day : WorkSeen, month : WorkSeen]]
    BY <1>1 DEF EnvelopeInit
  <2>3. receipts \in [Servers -> [Calls -> Seq(Nat)]]
    BY DEF EnvelopeInit
  <2> QED
    BY <2>1, <2>2, <2>3, EnvelopeBounds DEF EnvelopeInit, EnvelopeTypeOK
<1>4. OneSalt /\ LastRemembered /\ AnswersBacked
  BY <1>2 DEF EnvelopeInit, OneSalt, LastRemembered, AnswersBacked
<1>5. ActedOnOnce /\ BestWorkKept
  BY DEF EnvelopeInit, ActedOnOnce, BestWorkKept
<1>6. AnsweredByDestination
  BY DEF EnvelopeInit, AnsweredByDestination
<1> QED
  BY <1>3, <1>4, <1>5, <1>6 DEF EnvelopeInd
\* A call sends a packet of a salt that no packet had.
LEMMA RpcStep ==
  ASSUME EnvelopeInd, NEW k \in Calls, NEW to \in Servers, NEW dest \in Destinations, NEW body \in Bodies,
         NEW skew \in Skews, NEW pow \in Works, NEW kind \in {"PingV1", "BootstrapV1"},
         Rpc(k, to, dest, body, skew, pow, kind)
  PROVE  EnvelopeInd'
<1> USE DEF EnvelopeInd
<1> DEFINE new == EncodeRequest(k, to, dest, body, serverTime + skew, pow, kind)
           waiting == [st |-> "waiting", dest |-> dest, body |-> body, from |-> AnyServer]
<1>1. /\ packets' = packets \cup {new}
      /\ call' = [call EXCEPT ![k] = waiting]
      /\ call[k].st = "idle"
      /\ serverTime' = serverTime /\ salts' = salts /\ own' = own /\ answers' = answers /\ receipts' = receipts
  BY DEF Rpc
<1>2. new \in Packet
  <2>1. serverTime + skew \in Stamps
    BY EnvelopeBounds DEF EnvelopeTypeOK, Stamps
  <2> QED
    BY <2>1 DEF EncodeRequest, RequestFlags, Packet
<1>3. waiting \in CallRecord
  BY DEF CallRecord, Destinations
<1>4. new.salt = k
  BY DEF EncodeRequest
<1> HIDE DEF new, waiting
<1>5. EnvelopeTypeOK'
  <2>1. packets' \in SUBSET Packet
    BY <1>1, <1>2 DEF EnvelopeTypeOK
  <2>2. call' \in [Calls -> CallRecord]
    BY <1>1, <1>3 DEF EnvelopeTypeOK
  <2> QED
    BY <2>1, <2>2, <1>1 DEF EnvelopeTypeOK
<1>6. call \in [Calls -> CallRecord] /\ waiting.st = "waiting"
  BY DEF EnvelopeTypeOK, waiting
<1>7. \A j \in Calls : call'[j] = IF j = k THEN waiting ELSE call[j]
  BY <1>1, <1>6
<1>8. \A p \in packets : p.salt # k /\ p.salt \in Calls
  BY <1>1 DEF OneSalt, EnvelopeTypeOK, Packet
<1>9. OneSalt'
  <2>1. \A p \in packets' : call'[p.salt].st # "idle"
    BY <1>1, <1>4, <1>6, <1>7, <1>8 DEF OneSalt
  <2>2. \A p, q \in packets' : p.salt = q.salt => p = q
    BY <1>1, <1>4, <1>8 DEF OneSalt
  <2>3. \A s \in Servers, j \in Calls : receipts'[s][j] # <<>> => call'[j].st # "idle"
    BY <1>1, <1>6, <1>7 DEF OneSalt
  <2> QED
    BY <2>1, <2>2, <2>3 DEF OneSalt
<1>10. \A s \in Servers : receipts[s][k] = <<>>
  BY <1>1 DEF OneSalt
<1>11. LastRemembered'
  BY <1>1 DEF LastRemembered
<1>12. AnswersBacked'
  BY <1>1 DEF AnswersBacked
<1>13. ActedOnOnce'
  <2> SUFFICES ASSUME NEW s \in Servers, NEW p \in packets', Len(receipts[s][p.salt]) > 1
               PROVE  /\ p.ts >= receipts[s][p.salt][1]
                      /\ \A i \in 2 .. Len(receipts[s][p.salt]) :
                            receipts[s][p.salt][i] >= receipts[s][p.salt][i - 1] + SaltMemory
    BY <1>1 DEF ActedOnOnce
  <2>1. p \in packets
    BY <1>1, <1>4, <1>10
  <2> QED
    BY <2>1 DEF ActedOnOnce
<1>14. BestWorkKept'
  <2> SUFFICES ASSUME NEW s \in Servers, NEW p \in packets', "known" \in p.flags, receipts[s][p.salt] # <<>>
               PROVE  /\ DayWorth(own[s].day) >= DayWorth(WorkOf(s, p))
                      /\ MonthWorth(own[s].month) >= MonthWorth(WorkOf(s, p))
    BY <1>1 DEF BestWorkKept, DayWorth, MonthWorth, WorkOf
  <2>1. p \in packets
    BY <1>1, <1>4, <1>10
  <2> QED
    BY <2>1 DEF BestWorkKept
<1>15. AnsweredByDestination'
  <2> SUFFICES ASSUME NEW j \in Calls, call'[j].st = "answered"
               PROVE  /\ call'[j].dest \in {AnyServer, call'[j].from}
                      /\ \E p \in packets' : p.body = call'[j].body /\ receipts'[call'[j].from][p.salt] # <<>>
    BY DEF AnsweredByDestination
  <2>1. call'[j] = call[j]
    BY <1>6, <1>7
  <2> QED
    BY <2>1, <1>1 DEF AnsweredByDestination
<1> QED
  BY <1>5, <1>9, <1>11, <1>12, <1>13, <1>14, <1>15

\* A step that leaves packets, servers and answers alone disturbs only what calls know.
LEMMA CallStep ==
  ASSUME EnvelopeInd, UNCHANGED <<serverTime, packets, salts, own, answers, receipts>>,
         call' \in [Calls -> CallRecord],
         \A j \in Calls : call'[j].st = "idle" => call[j].st = "idle",
         AnsweredByDestination'
  PROVE  EnvelopeInd'
<1> USE DEF EnvelopeInd
<1>1. EnvelopeTypeOK'
  BY DEF EnvelopeTypeOK
<1>2. \A p \in packets : p.salt \in Calls
  BY DEF EnvelopeTypeOK, Packet
<1>3. OneSalt'
  BY <1>2 DEF OneSalt
<1>4. LastRemembered' /\ AnswersBacked' /\ ActedOnOnce'
  BY DEF LastRemembered, AnswersBacked, ActedOnOnce
<1>5. BestWorkKept'
  BY DEF BestWorkKept, DayWorth, MonthWorth, WorkOf
<1> QED
  BY <1>1, <1>3, <1>4, <1>5

LEMMA RpcFailsStep ==
  ASSUME EnvelopeInd, NEW k \in Calls, RpcFails(k)
  PROVE  EnvelopeInd'
<1> DEFINE failed == [call[k] EXCEPT !.st = "failed"]
<1>1. /\ call' = [call EXCEPT ![k] = failed]
      /\ call[k].st = "waiting"
      /\ UNCHANGED <<serverTime, packets, salts, own, answers, receipts>>
  BY DEF RpcFails
<1>2. call \in [Calls -> CallRecord]
  BY DEF EnvelopeInd, EnvelopeTypeOK
<1>3. failed \in CallRecord /\ failed.st = "failed"
  BY <1>1, <1>2 DEF CallRecord
<1> HIDE DEF failed
<1>4. \A j \in Calls : call'[j] = IF j = k THEN failed ELSE call[j]
  BY <1>1, <1>2
<1>5. call' \in [Calls -> CallRecord]
  BY <1>1, <1>2, <1>3
<1>6. \A j \in Calls : call'[j].st = "idle" => call[j].st = "idle"
  BY <1>3, <1>4
<1>7. AnsweredByDestination'
  <2> SUFFICES ASSUME NEW j \in Calls, call'[j].st = "answered"
               PROVE  /\ call'[j].dest \in {AnyServer, call'[j].from}
                      /\ \E p \in packets' : p.body = call'[j].body /\ receipts'[call'[j].from][p.salt] # <<>>
    BY DEF AnsweredByDestination
  <2>1. call'[j] = call[j]
    BY <1>3, <1>4
  <2> QED
    BY <2>1, <1>1 DEF AnsweredByDestination, EnvelopeInd
<1> QED
  BY <1>1, <1>5, <1>6, <1>7, CallStep

\* An answer that decodes is the destination's, and its server accepted the request.
LEMMA RpcReturnsStep ==
  ASSUME EnvelopeInd, NEW k \in Calls, NEW r \in answers, RpcReturns(k, r)
  PROVE  EnvelopeInd'
<1> DEFINE good == DecodesResponse(k, r) /\ r.kind # "ErrorResponseV1"
           next == IF good THEN [st |-> "answered", dest |-> call[k].dest, body |-> call[k].body, from |-> r.signed.key]
                   ELSE [st |-> "failed", dest |-> call[k].dest, body |-> call[k].body, from |-> call[k].from]
<1>1. call \in [Calls -> CallRecord] /\ r \in Answer
  BY DEF EnvelopeInd, EnvelopeTypeOK
<1>2. /\ call[k].st = "waiting"
      /\ UNCHANGED <<serverTime, packets, salts, own, answers, receipts>>
  BY DEF RpcReturns
<1>3. call[k] = [st |-> "waiting", dest |-> call[k].dest, body |-> call[k].body, from |-> call[k].from]
      /\ call[k].dest \in Destinations /\ call[k].body \in Bodies /\ call[k].from = AnyServer
  BY <1>1, <1>2 DEF CallRecord
<1>4. call' = [call EXCEPT ![k] = next]
  <2>1. CASE good
    <3>1. [call[k] EXCEPT !.st = "answered", !.from = r.signed.key] = next
      <4> DEFINE one == [call[k] EXCEPT !.st = "answered"]
      <4>1. [call[k] EXCEPT !.st = "answered", !.from = r.signed.key] = [one EXCEPT !.from = r.signed.key]
        OBVIOUS
      <4>2. one = [st |-> "answered", dest |-> call[k].dest, body |-> call[k].body, from |-> call[k].from]
        BY <1>3
      <4> HIDE DEF one
      <4>3. [one EXCEPT !.from = r.signed.key]
              = [st |-> "answered", dest |-> call[k].dest, body |-> call[k].body, from |-> r.signed.key]
        BY <4>2
      <4> QED
        BY <4>1, <4>3, <2>1
    <3>2. call' = [call EXCEPT ![k] = [call[k] EXCEPT !.st = "answered", !.from = r.signed.key]]
      BY <2>1, <1>1 DEF RpcReturns
    <3> QED
      BY <3>1, <3>2
  <2>2. CASE ~good
    <3>1. [call[k] EXCEPT !.st = "failed"] = next
      BY <1>3, <2>2
    <3>2. call' = [call EXCEPT ![k] = [call[k] EXCEPT !.st = "failed"]]
      BY <2>2, <1>1 DEF RpcReturns
    <3> QED
      BY <3>1, <3>2
  <2> QED
    BY <2>1, <2>2
<1>5. r.signed.key \in Servers /\ r.id \in Servers
  BY <1>1 DEF Answer
<1>6. next \in CallRecord /\ next.st \in {"answered", "failed"}
  BY <1>3, <1>5 DEF CallRecord, Destinations
<1>7. \A j \in Calls : call'[j] = IF j = k THEN next ELSE call[j]
  BY <1>1, <1>4
<1>8. call' \in [Calls -> CallRecord]
  BY <1>1, <1>4, <1>6
<1>9. \A j \in Calls : call'[j].st = "idle" => call[j].st = "idle"
  BY <1>6, <1>7
<1>10. AnsweredByDestination'
  <2> SUFFICES ASSUME NEW j \in Calls, call'[j].st = "answered"
               PROVE  /\ call'[j].dest \in {AnyServer, call'[j].from}
                      /\ \E p \in packets' : p.body = call'[j].body /\ receipts'[call'[j].from][p.salt] # <<>>
    BY DEF AnsweredByDestination
  <2>1. CASE j = k
    <3>1. good /\ call'[j] = next
      BY <2>1, <1>7
    <3>2. /\ next.dest = call[k].dest /\ next.body = call[k].body /\ next.from = r.signed.key
          /\ r.signed.key = r.id /\ r.signed.hash = call[k].body
          /\ call[k].dest = AnyServer \/ r.id = call[k].dest
      BY <3>1 DEF DecodesResponse
    <3>3. \E p \in packets : p.body = r.signed.hash /\ receipts[r.id][p.salt] # <<>>
      BY DEF EnvelopeInd, AnswersBacked
    <3> HIDE DEF next, good
    <3> QED
      BY <3>1, <3>2, <3>3, <1>2
  <2>2. CASE j # k
    <3>1. call'[j] = call[j]
      BY <2>2, <1>7
    <3> QED
      BY <3>1, <1>2 DEF AnsweredByDestination, EnvelopeInd
  <2> QED
    BY <2>1, <2>2
<1> HIDE DEF next, good
<1> QED
  BY <1>2, <1>8, <1>9, <1>10, CallStep
LEMMA TimesAppended ==
  ASSUME NEW times \in Seq(Nat), NEW t \in Nat
  PROVE  /\ Len(Append(times, t)) = Len(times) + 1
         /\ Append(times, t)[Len(times) + 1] = t
         /\ \A i \in 1 .. Len(times) : Append(times, t)[i] = times[i]
         /\ Append(times, t) # <<>>
<1>1. /\ Len(Append(times, t)) = Len(times) + 1
      /\ Append(times, t)[Len(times) + 1] = t
  OBVIOUS
<1>2. \A i \in 1 .. Len(times) : Append(times, t)[i] = times[i]
  OBVIOUS
<1>3. Len(times) + 1 # 0
  OBVIOUS
<1>4. Append(times, t) # <<>>
  BY <1>1, <1>3
<1> QED
  BY <1>1, <1>2, <1>4

\* A packet accepted again was stamped by a clock that was ahead, and is accepted once the memory
\* of the last time is over; the better of the works stays.
LEMMA WrapAndDispatchStep ==
  ASSUME EnvelopeInd, NEW s \in Servers, NEW p \in packets, WrapAndDispatch(s, p)
  PROVE  EnvelopeInd'
<1> USE DEF EnvelopeInd
<1> DEFINE k == p.salt
           old == receipts[s][k]
           more == Append(old, serverTime)
           remembered == [salt |-> k, at |-> serverTime]
           w == WorkOf(s, p)
           response == EncodeResponse(s, p, "known" \in p.flags \/ AnonymousAllowed(p))
<1>1. /\ p.to = s
      /\ Timely(p)
      /\ ~Remembered(s, p.salt)
      /\ UNCHANGED <<serverTime, packets, call>>
      /\ answers' = answers \cup {response}
      /\ salts' = [salts EXCEPT ![s] = {e \in @ : e.salt # p.salt} \cup {[salt |-> p.salt, at |-> serverTime]}]
      /\ receipts' = [receipts EXCEPT ![s][p.salt] = Append(@, serverTime)]
      /\ own' = IF "known" \in p.flags THEN [own EXCEPT ![s] = Improved(s, WorkOf(s, p))] ELSE own
  BY DEF WrapAndDispatch, DecodesRequest, Remember
<1>2. /\ p \in Packet /\ k \in Calls
      /\ serverTime \in Nat
      /\ receipts \in [Servers -> [Calls -> Seq(Nat)]]
      /\ salts \in [Servers -> SUBSET [salt : Calls, at : Nat]]
      /\ old \in Seq(Nat)
  BY EnvelopeBounds DEF EnvelopeTypeOK, Packet
<1>3. \A t \in Servers, j \in Calls :
        receipts'[t][j] = IF t = s /\ j = k THEN more ELSE receipts[t][j]
  BY <1>1, <1>2
<1>4. receipts' \in [Servers -> [Calls -> Seq(Nat)]]
  BY <1>1, <1>2
<1>5. \A t \in Servers : salts'[t] = IF t = s THEN {e \in salts[s] : e.salt # k} \cup {remembered} ELSE salts[t]
  BY <1>1, <1>2
<1>6. remembered \in [salt : Calls, at : Nat] /\ remembered.salt = k /\ remembered.at = serverTime
  BY <1>2
<1>7. w \in WorkSeen
  BY <1>2, WorkOfTyped
<1>8. response.id = s /\ response.signed = [key |-> s, hash |-> p.body] /\ response \in Answer
  BY <1>2 DEF EncodeResponse, Packet, Answer
<1>9. own[s] \in [day : WorkSeen, month : WorkSeen]
  BY DEF EnvelopeTypeOK
<1>10. /\ Improved(s, w) \in [day : WorkSeen, month : WorkSeen]
       /\ DayWorth(Improved(s, w).day) >= DayWorth(w)
       /\ DayWorth(Improved(s, w).day) >= DayWorth(own[s].day)
       /\ MonthWorth(Improved(s, w).month) >= MonthWorth(w)
       /\ MonthWorth(Improved(s, w).month) >= MonthWorth(own[s].month)
  BY <1>7, <1>9, ImprovedKeepsBest
<1>11. own' = IF "known" \in p.flags THEN [own EXCEPT ![s] = Improved(s, w)] ELSE own
  BY <1>1
<1> HIDE DEF remembered, w, response
<1>12. EnvelopeTypeOK'
  <2>1. salts' \in [Servers -> SUBSET [salt : Calls, at : Nat]]
    BY <1>2, <1>5, <1>6, <1>1
  <2>2. own' \in [Servers -> [day : WorkSeen, month : WorkSeen]]
    BY <1>10, <1>11 DEF EnvelopeTypeOK
  <2>3. answers' \in SUBSET Answer
    BY <1>1, <1>8 DEF EnvelopeTypeOK
  <2> QED
    BY <2>1, <2>2, <2>3, <1>1, <1>4 DEF EnvelopeTypeOK
<1>13. OneSalt'
  <2>1. \A t \in Servers, j \in Calls : receipts'[t][j] # <<>> => call[j].st # "idle"
    BY <1>3 DEF OneSalt
  <2> QED
    BY <2>1, <1>1 DEF OneSalt
<1>14. /\ Len(more) = Len(old) + 1 /\ more[Len(old) + 1] = serverTime
       /\ \A i \in 1 .. Len(old) : more[i] = old[i]
       /\ more # <<>>
  BY <1>2, TimesAppended
<1> HIDE DEF more
<1>15. \A t \in Servers, j \in Calls : receipts[t][j] # <<>> => receipts'[t][j] # <<>>
  BY <1>3, <1>14
<1>16. receipts'[s][k] = more
  BY <1>2, <1>3
<1>17. receipts'[s][k] # <<>> /\ receipts'[s][k][Len(receipts'[s][k])] = serverTime
  BY <1>2, <1>14, <1>16
<1>18. LastRemembered'
  <2> SUFFICES ASSUME NEW t \in Servers, NEW j \in Calls, receipts'[t][j] # <<>>
               PROVE  \E e \in salts'[t] : e.salt = j /\ e.at = receipts'[t][j][Len(receipts'[t][j])]
    BY DEF LastRemembered
  <2>1. CASE t = s /\ j = k
    <3>1. remembered \in salts'[t]
      BY <2>1, <1>5
    <3> QED
      BY <3>1, <2>1, <1>6, <1>17
  <2>2. CASE ~(t = s /\ j = k)
    <3>1. receipts'[t][j] = receipts[t][j]
      BY <2>2, <1>3
    <3>2. PICK e \in salts[t] : e.salt = j /\ e.at = receipts[t][j][Len(receipts[t][j])]
      BY <3>1 DEF LastRemembered
    <3>3. e \in salts'[t]
      BY <3>2, <2>2, <1>5
    <3> QED
      BY <3>1, <3>2, <3>3
  <2> QED
    BY <2>1, <2>2
<1>19. \A q \in packets : q.salt \in Calls
  BY DEF EnvelopeTypeOK, Packet
<1>20. AnswersBacked'
  <2> SUFFICES ASSUME NEW r \in answers'
               PROVE  /\ r.signed.key = r.id
                      /\ \E q \in packets : q.body = r.signed.hash /\ receipts'[r.id][q.salt] # <<>>
    BY <1>1 DEF AnswersBacked
  <2>1. CASE r = response
    <3>1. r.id = s /\ r.signed.key = s /\ r.signed.hash = p.body
      BY <2>1, <1>8
    <3> QED
      BY <3>1, <1>17
  <2>2. CASE r \in answers
    <3>1. PICK q \in packets : q.body = r.signed.hash /\ receipts[r.id][q.salt] # <<>>
      BY <2>2 DEF AnswersBacked
    <3>2. r.id \in Servers /\ q.salt \in Calls /\ r.signed.key = r.id
      BY <2>2, <1>19 DEF EnvelopeTypeOK, Answer, AnswersBacked
    <3>3. receipts'[r.id][q.salt] # <<>>
      BY <3>1, <3>2, <1>15
    <3> QED
      BY <3>1, <3>2, <3>3
  <2> QED
    BY <2>1, <2>2, <1>1
<1>21. old # <<>> => serverTime >= old[Len(old)] + SaltMemory
  <2> SUFFICES ASSUME old # <<>> PROVE serverTime >= old[Len(old)] + SaltMemory
    OBVIOUS
  <2>1. PICK e \in salts[s] : e.salt = k /\ e.at = old[Len(old)]
    BY <1>2 DEF LastRemembered
  <2>2. ~(serverTime < e.at + SaltMemory) /\ e.at \in Nat
    BY <2>1, <1>1, <1>2 DEF Remembered
  <2> QED
    BY <2>1, <2>2, <1>2, EnvelopeBounds
<1>22. p.ts \in Int /\ serverTime - p.ts <= ClockDrift
  BY <1>1, <1>2, EnvelopeBounds DEF Timely, Abs, Packet, Stamps
<1>23. ActedOnOnce'
  <2> SUFFICES ASSUME NEW t \in Servers, NEW q \in packets, Len(receipts'[t][q.salt]) > 1
               PROVE  /\ q.ts >= receipts'[t][q.salt][1]
                      /\ \A i \in 2 .. Len(receipts'[t][q.salt]) :
                            receipts'[t][q.salt][i] >= receipts'[t][q.salt][i - 1] + SaltMemory
    BY <1>1 DEF ActedOnOnce
  <2>1. CASE t = s /\ q.salt = k
    <3>1. q = p
      BY <2>1 DEF OneSalt
    <3>2. receipts'[t][q.salt] = more
      BY <2>1, <1>2, <1>3
    <3>3. Len(old) \in Nat /\ Len(old) >= 1 /\ old # <<>> /\ old[1] \in Nat
      BY <3>2, <1>2, <1>14
    <3>4. p.ts >= old[1]
      <4>1. CASE Len(old) = 1
        <5>1. serverTime >= old[1] + SaltMemory
          BY <4>1, <3>3, <1>21
        <5>2. serverTime - p.ts <= ClockDrift /\ p.ts \in Int /\ serverTime \in Nat /\ old[1] \in Nat
          BY <1>2, <1>22, <3>3
        <5> QED
          BY <5>1, <5>2, EnvelopeBounds, SMT
      <4>2. CASE Len(old) # 1
        <5>1. Len(old) > 1
          <6> DEFINE n == Len(old)
          <6>1. n \in Nat /\ n >= 1 /\ n # 1
            BY <4>2, <3>3
          <6> HIDE DEF n
          <6>2. n > 1
            BY <6>1
          <6> QED
            BY <6>2 DEF n
        <5> QED
          BY <5>1 DEF ActedOnOnce
      <4> QED
        BY <4>1, <4>2
    <3>5. ASSUME NEW i \in 2 .. Len(more)
          PROVE  more[i] >= more[i - 1] + SaltMemory
      <4>1. CASE i = Len(old) + 1
        <5>1. more[i] = serverTime /\ more[i - 1] = old[Len(old)]
          BY <4>1, <3>3, <1>14
        <5> QED
          BY <5>1, <3>3, <1>21
      <4>2. CASE i # Len(old) + 1
        <5>1. i \in 2 .. Len(old) /\ i \in 1 .. Len(old) /\ i - 1 \in 1 .. Len(old) /\ Len(old) > 1
          <6> DEFINE n == Len(old)
          <6>1. n \in Nat /\ i \in 2 .. n + 1 /\ i # n + 1
            BY <4>2, <3>3, <1>14
          <6> HIDE DEF n
          <6>2. i \in 2 .. n /\ i \in 1 .. n /\ i - 1 \in 1 .. n /\ n > 1
            BY <6>1
          <6> QED
            BY <6>2 DEF n
        <5>2. old[i] >= old[i - 1] + SaltMemory
          BY <5>1 DEF ActedOnOnce
        <5> QED
          BY <5>1, <5>2, <1>14
      <4> QED
        BY <4>1, <4>2
    <3>6. more[1] = old[1]
      BY <3>3, <1>14
    <3> QED
      BY <3>1, <3>2, <3>4, <3>5, <3>6
  <2>2. CASE ~(t = s /\ q.salt = k)
    <3>1. receipts'[t][q.salt] = receipts[t][q.salt]
      BY <2>2, <1>3, <1>19
    <3> QED
      BY <3>1 DEF ActedOnOnce
  <2> QED
    BY <2>1, <2>2
<1>24. BestWorkKept'
  <2> SUFFICES ASSUME NEW t \in Servers, NEW q \in packets, "known" \in q.flags, receipts'[t][q.salt] # <<>>
               PROVE  /\ DayWorth(own'[t].day) >= DayWorth(WorkOf(t, q))
                      /\ MonthWorth(own'[t].month) >= MonthWorth(WorkOf(t, q))
    BY <1>1 DEF BestWorkKept, DayWorth, MonthWorth, WorkOf
  <2>1. CASE t = s /\ q.salt = k
    <3>1. q = p
      BY <2>1 DEF OneSalt
    <3>2. own'[t] = Improved(s, w)
      BY <2>1, <3>1, <1>11 DEF EnvelopeTypeOK
    <3> QED
      BY <2>1, <3>1, <3>2, <1>10 DEF w
  <2>2. CASE ~(t = s /\ q.salt = k)
    <3>1. receipts[t][q.salt] # <<>>
      BY <2>2, <1>3, <1>19
    <3>2. /\ DayWorth(own[t].day) >= DayWorth(WorkOf(t, q))
          /\ MonthWorth(own[t].month) >= MonthWorth(WorkOf(t, q))
      BY <3>1 DEF BestWorkKept
    <3>3. CASE own'[t] = own[t]
      BY <3>2, <3>3
    <3>4. CASE own'[t] # own[t]
      <4>1. t = s /\ own'[t] = Improved(s, w)
        BY <3>4, <1>11 DEF EnvelopeTypeOK
      <4>2. q \in Packet /\ WorkOf(t, q) \in WorkSeen
        BY WorkOfTyped DEF EnvelopeTypeOK
      <4>3. /\ Improved(s, w).day \in WorkSeen /\ Improved(s, w).month \in WorkSeen
            /\ own[s].day \in WorkSeen /\ own[s].month \in WorkSeen
        BY <1>9, <1>10
      <4>4. /\ DayWorth(Improved(s, w).day) \in Int /\ MonthWorth(Improved(s, w).month) \in Int
            /\ DayWorth(own[s].day) \in Int /\ MonthWorth(own[s].month) \in Int
            /\ DayWorth(WorkOf(t, q)) \in Int /\ MonthWorth(WorkOf(t, q)) \in Int
        BY <4>2, <4>3, WorthIsNumber
      <4> QED
        BY <3>2, <4>1, <4>4, <1>10
    <3> QED
      BY <3>3, <3>4
  <2> QED
    BY <2>1, <2>2
<1>25. AnsweredByDestination'
  <2> SUFFICES ASSUME NEW j \in Calls, call[j].st = "answered"
               PROVE  /\ call[j].dest \in {AnyServer, call[j].from}
                      /\ \E q \in packets : q.body = call[j].body /\ receipts'[call[j].from][q.salt] # <<>>
    BY <1>1 DEF AnsweredByDestination
  <2>1. PICK q \in packets : q.body = call[j].body /\ receipts[call[j].from][q.salt] # <<>>
    BY DEF AnsweredByDestination
  <2>2. receipts'[call[j].from][q.salt] # <<>>
    <3>1. call[j].from \in Servers
      BY DEF EnvelopeTypeOK, CallRecord
    <3> QED
      BY <3>1, <2>1, <1>19, <1>15
  <2> QED
    BY <2>1, <2>2 DEF AnsweredByDestination
<1> QED
  BY <1>12, <1>13, <1>18, <1>20, <1>23, <1>24, <1>25
\* The clock moves on: what was accepted was accepted before.
LEMMA ClockTicksStep ==
  ASSUME EnvelopeInd, ClockTicks
  PROVE  EnvelopeInd'
<1> USE DEF EnvelopeInd
<1>1. serverTime' \in 0 .. EnvelopeTime /\ UNCHANGED <<packets, salts, own, answers, call, receipts>>
  BY EnvelopeBounds DEF ClockTicks, EnvelopeTypeOK
<1>2. EnvelopeTypeOK'
  BY <1>1 DEF EnvelopeTypeOK
<1>3. OneSalt' /\ LastRemembered' /\ AnswersBacked' /\ ActedOnOnce'
  BY <1>1 DEF OneSalt, LastRemembered, AnswersBacked, ActedOnOnce
<1>4. BestWorkKept'
  BY <1>1 DEF BestWorkKept, DayWorth, MonthWorth, WorkOf
<1>5. AnsweredByDestination'
  BY <1>1 DEF AnsweredByDestination
<1> QED
  BY <1>2, <1>3, <1>4, <1>5

LEMMA EnvelopeNextStep == EnvelopeInd /\ [EnvelopeNext]_envelopeVars => EnvelopeInd'
<1> SUFFICES ASSUME EnvelopeInd, [EnvelopeNext]_envelopeVars PROVE EnvelopeInd'
  OBVIOUS
<1>1. CASE ClockTicks
  BY <1>1, ClockTicksStep
<1>2. CASE UNCHANGED envelopeVars
  <2>1. UNCHANGED <<serverTime, packets, salts, own, answers, call, receipts>>
    BY <1>2 DEF envelopeVars
  <2>2. EnvelopeTypeOK' /\ OneSalt' /\ LastRemembered'
    BY <2>1 DEF EnvelopeInd, EnvelopeTypeOK, OneSalt, LastRemembered
  <2>3. AnswersBacked' /\ ActedOnOnce'
    BY <2>1 DEF EnvelopeInd, AnswersBacked, ActedOnOnce
  <2>4. AnsweredByDestination'
    BY <2>1 DEF EnvelopeInd, AnsweredByDestination
  <2>5. BestWorkKept'
    BY <2>1 DEF EnvelopeInd, BestWorkKept, DayWorth, MonthWorth, WorkOf
  <2> QED
    BY <2>2, <2>3, <2>4, <2>5 DEF EnvelopeInd
<1>3. ASSUME NEW k \in Calls, RpcFails(k) PROVE EnvelopeInd'
  BY <1>3, RpcFailsStep
<1>4. ASSUME NEW k \in Calls, NEW r \in answers, RpcReturns(k, r) PROVE EnvelopeInd'
  BY <1>4, RpcReturnsStep
<1>5. ASSUME NEW k \in Calls, NEW to \in Servers, NEW dest \in Servers \cup {AnyServer}, NEW body \in Bodies,
             NEW skew \in Skews, NEW pow \in Works,
             NEW kind \in {"PingV1"} \cup (IF dest = AnyServer THEN {"BootstrapV1"} ELSE {}),
             Rpc(k, to, dest, body, skew, pow, kind)
      PROVE  EnvelopeInd'
  <2>1. dest \in Destinations /\ kind \in {"PingV1", "BootstrapV1"}
    BY DEF Destinations
  <2> QED
    BY <1>5, <2>1, RpcStep
<1>6. ASSUME NEW s \in Servers, NEW p \in packets, WrapAndDispatch(s, p) PROVE EnvelopeInd'
  BY <1>6, WrapAndDispatchStep
<1> QED
  BY <1>1, <1>2, <1>3, <1>4, <1>5, <1>6 DEF EnvelopeNext, EnvelopeRests

(***************************************************************************)
(* The inductive invariant of the envelope: a salt names one packet, the   *)
(* server remembers when it last accepted it, and every answer goes back   *)
(* to a request that its server accepted.                                  *)
(***************************************************************************)
THEOREM EnvelopeInductive == EnvelopeSpec => []EnvelopeInd
<1> QED
  BY EnvelopeStarts, EnvelopeNextStep, PTL DEF EnvelopeSpec

(***************************************************************************)
(* wrap_and_dispatch_network_envelope (dispatch.rs:137-263) and            *)
(* rpc_server_xxx (rpc.rs:150-176): whatever is delivered late, twice or   *)
(* to the wrong server, and however the clocks differ, a request is acted  *)
(* on once, the best work it brings is kept, and an answer that is         *)
(* accepted is the destination's.                                          *)
(***************************************************************************)
THEOREM CallsAlwaysAnsweredOnce == EnvelopeSpec => []CallsAnsweredOnce
<1>1. EnvelopeInd => CallsAnsweredOnce
  BY DEF EnvelopeInd, CallsAnsweredOnce
<1> QED
  BY <1>1, EnvelopeInductive, PTL
-----------------------------------------------------------------------------
(***************************************************************************)
(* The services: what is kept, and what the inductive invariant says.      *)
(***************************************************************************)
Counted == [tag : Tags, count : Nat \ {0}]

\* A list of hashtags with how many used them, the most used first.
RankedList(list, known) ==
  /\ list \in [1 .. Cardinality(known) -> Counted]
  /\ \A i, j \in 1 .. Cardinality(known) : i < j => list[i].count >= list[j].count

\* The list that is kept ranks the hashtags that were used when it was made.
KeptIsRanked ==
  trending # Uncached =>
    /\ trending = [at |-> trending.at, list |-> trending.list, known |-> trending.known]
    /\ trending.at \in Nat /\ trending.known \in SUBSET Tags
    /\ RankedList(trending.list, trending.known)

KeptStatsDated == stats # Uncached => stats.at \in Nat /\ stats.at <= seconds

\* What is to be visited was checked.
PreviewChecked ==
  preview.st = "checked" => preview.resolved # {} /\ preview.resolved \cap ProtectedIps = {}

ServicesTypeOK == seconds \in Nat /\ seenBy \in [Tags -> SUBSET TagAuthors] /\ requests \in Nat

ServicesInd ==
  /\ ServicesTypeOK
  /\ KeptIsRanked
  /\ KeptStatsDated
  /\ PreviewChecked
  /\ ServicesConsistent

-----------------------------------------------------------------------------
(***************************************************************************)
(* The services: the list of an answer.                                    *)
(***************************************************************************)
LEMMA ServicesBounds ==
  /\ TrendingTtl \in Nat /\ TrendingTtl > 0 /\ StatsTtl \in Nat /\ StatsTtl > 0
  /\ ServiceTime \in Nat /\ MaxAsked \in Nat /\ Limits \subseteq Nat
  /\ IsFiniteSet(Tags) /\ IsFiniteSet(TagAuthors)
BY ServicesAssumption

ListEntry == [tag : Tags \cup {Fallback[1], Fallback[2]}, count : Nat]

\* m entries that were counted and then fillers, which repeat nothing.
Filled(list, m, limit) ==
  /\ list \in Seq(ListEntry)
  /\ m \in 0 .. Len(list) /\ Len(list) <= limit
  /\ \A i \in 1 .. Len(list) : list[i].count > 0 <=> i <= m
  /\ \A i, j \in 1 .. Len(list) : i < j => list[i].count >= list[j].count
  /\ \A i \in 1 .. Len(list), j \in (m + 1) .. Len(list) :
        i # j => Lowered[list[i].tag] # Lowered[list[j].tag]

\* A filler goes to the end, while there is room.
LEMMA FillerAdded ==
  ASSUME NEW limit \in Nat, NEW list, NEW m, Filled(list, m, limit), NEW tag \in {Fallback[1], Fallback[2]}
  PROVE  Filled(TopUpWith(list, limit, tag), m, limit)
<1> DEFINE filler == [tag |-> tag, count |-> 0]
           more == Append(list, filler)
<1>1. list \in Seq(ListEntry) /\ Len(list) \in Nat /\ Len(list) <= limit /\ m \in 0 .. Len(list) /\ m \in Nat
  BY DEF Filled
<1>2. filler \in ListEntry /\ filler.tag = tag /\ filler.count = 0
  BY DEF ListEntry
<1> HIDE DEF filler
<1>3. /\ more \in Seq(ListEntry) /\ Len(more) = Len(list) + 1 /\ more[Len(list) + 1] = filler
      /\ \A i \in 1 .. Len(list) : more[i] = list[i]
  BY <1>1, <1>2
<1> HIDE DEF more
<1>4. CASE Len(list) >= limit \/ Lowered[tag] \in NormalisedHashtags(list)
  BY <1>4 DEF TopUpWith
<1>5. CASE ~(Len(list) >= limit \/ Lowered[tag] \in NormalisedHashtags(list))
  <2>1. TopUpWith(list, limit, tag) = more
    BY <1>5 DEF TopUpWith, more, filler
  <2>2. Len(more) <= limit /\ m \in 0 .. Len(more)
    BY <1>1, <1>3, <1>5
  <2>3. \A i \in 1 .. Len(list) : Lowered[list[i].tag] # Lowered[tag]
    BY <1>1, <1>5 DEF NormalisedHashtags
  <2>4. \A i \in 1 .. Len(list) : list[i].count \in Nat
    <3>1. \A i \in 1 .. Len(list) : list[i] \in ListEntry
      BY <1>1
    <3> QED
      BY <3>1 DEF ListEntry
  <2>5. ASSUME NEW i \in 1 .. Len(more) PROVE more[i].count > 0 <=> i <= m
    <3>1. CASE i = Len(list) + 1
      BY <3>1, <1>1, <1>2, <1>3
    <3>2. CASE i # Len(list) + 1
      <4>1. i \in 1 .. Len(list)
        BY <3>2, <1>1, <1>3
      <4> QED
        BY <4>1, <1>3 DEF Filled
    <3> QED
      BY <3>1, <3>2
  <2>6. ASSUME NEW i \in 1 .. Len(more), NEW j \in 1 .. Len(more), i < j
        PROVE  more[i].count >= more[j].count
    <3>1. i \in 1 .. Len(list)
      BY <2>6, <1>1, <1>3
    <3>2. CASE j = Len(list) + 1
      BY <3>1, <3>2, <2>4, <1>2, <1>3
    <3>3. CASE j # Len(list) + 1
      <4>1. j \in 1 .. Len(list)
        BY <3>3, <1>1, <1>3
      <4> QED
        BY <3>1, <4>1, <2>6, <1>3 DEF Filled
    <3> QED
      BY <3>2, <3>3
  <2>7. ASSUME NEW i \in 1 .. Len(more), NEW j \in (m + 1) .. Len(more), i # j
        PROVE  Lowered[more[i].tag] # Lowered[more[j].tag]
    <3>1. CASE i = Len(list) + 1
      <4>1. j \in 1 .. Len(list) /\ more[i].tag = tag
        BY <3>1, <2>7, <1>1, <1>2, <1>3
      <4> QED
        BY <4>1, <2>3, <1>3
    <3>2. CASE j = Len(list) + 1
      <4>1. i \in 1 .. Len(list) /\ more[j].tag = tag
        BY <3>2, <2>7, <1>1, <1>2, <1>3
      <4> QED
        BY <4>1, <2>3, <1>3
    <3>3. CASE i # Len(list) + 1 /\ j # Len(list) + 1
      <4>1. i \in 1 .. Len(list) /\ j \in 1 .. Len(list) /\ j \in (m + 1) .. Len(list)
        BY <3>3, <1>1, <1>3
      <4> QED
        BY <4>1, <2>7, <1>3 DEF Filled
    <3> QED
      BY <3>1, <3>2, <3>3
  <2> QED
    BY <2>1, <2>2, <2>5, <2>6, <2>7, <1>3 DEF Filled
<1> QED
  BY <1>4, <1>5

\* A list that is cut to the limit holds counted entries alone.
LEMMA CutIsFilled ==
  ASSUME NEW limit \in Nat, NEW known \in SUBSET Tags, NEW list, RankedList(list, known)
  PROVE  /\ Cardinality(known) \in Nat
         /\ Filled(Truncated(list, limit), Smaller(limit, Cardinality(known)), limit)
<1> DEFINE n == Cardinality(known)
           m == Smaller(limit, n)
           cut == Truncated(list, limit)
<1>1. n \in Nat
  BY ServicesBounds, FS_Subset, FS_CardinalityType
<1>2. /\ list \in [1 .. n -> Counted]
      /\ \A i, j \in 1 .. n : i < j => list[i].count >= list[j].count
  BY DEF RankedList
<1> HIDE DEF n
<1>3. list \in Seq(Counted) /\ Len(list) = n
  BY <1>1, <1>2
<1>4. m \in Nat /\ m <= n /\ m <= limit /\ m = IF limit < n THEN limit ELSE n
  BY <1>1 DEF Smaller
<1>5. cut = SubSeq(list, 1, m)
  BY <1>3, <1>4 DEF Truncated
<1> HIDE DEF m, cut
<1>6. cut \in Seq(Counted) /\ Len(cut) = m /\ \A i \in 1 .. m : cut[i] = list[i]
  BY <1>1, <1>3, <1>4, <1>5
<1>7. \A i \in 1 .. m : i \in 1 .. n /\ cut[i] \in Counted
  BY <1>1, <1>2, <1>4, <1>6
<1>8. cut \in Seq(ListEntry)
  <2>1. Counted \subseteq ListEntry
    BY DEF Counted, ListEntry
  <2> QED
    BY <2>1, <1>6
<1>9. \A i \in 1 .. m : cut[i].count > 0
  BY <1>7 DEF Counted
<1>10. \A i, j \in 1 .. m : i < j => cut[i].count >= cut[j].count
  BY <1>2, <1>6, <1>7
<1>11. Filled(cut, m, limit)
  BY <1>4, <1>6, <1>8, <1>9, <1>10 DEF Filled
<1> QED
  BY <1>1, <1>11 DEF n, m, cut

\* As many as asked for, as far as there are any; the fillers after them.
LEMMA TopUpFills ==
  ASSUME NEW limit \in Nat, NEW known \in SUBSET Tags, NEW list, RankedList(list, known)
  PROVE  LET answer_list == TopUp(Truncated(list, limit), limit)
             m == Smaller(limit, Cardinality(known))
         IN  /\ Filled(answer_list, m, limit)
             /\ {i \in DOMAIN answer_list : answer_list[i].count > 0} = 1 .. m
             /\ m \in Nat /\ Cardinality(1 .. m) = m
<1> DEFINE m == Smaller(limit, Cardinality(known))
           cut == Truncated(list, limit)
           full == TopUp(cut, limit)
<1>1. Cardinality(known) \in Nat /\ Filled(cut, m, limit)
  BY CutIsFilled
<1>2. m \in Nat
  BY <1>1 DEF Smaller
<1> HIDE DEF m, cut
<1>3. Filled(TopUpWith(cut, limit, Fallback[1]), m, limit)
  BY <1>1, FillerAdded
<1>4. Filled(full, m, limit)
  BY <1>3, FillerAdded DEF TopUp
<1> HIDE DEF full
<1>5. DOMAIN full = 1 .. Len(full) /\ Len(full) \in Nat /\ m \in 0 .. Len(full)
  BY <1>4 DEF Filled
<1>6. {i \in DOMAIN full : full[i].count > 0} = 1 .. m
  BY <1>4, <1>5 DEF Filled
<1>7. Cardinality(1 .. m) = m
  BY <1>2, FS_Interval
<1> QED
  BY <1>2, <1>4, <1>6, <1>7 DEF full, cut, m
-----------------------------------------------------------------------------
(***************************************************************************)
(* The services: the steps.                                                *)
(***************************************************************************)
LEMMA ServicesStart == ServicesInit => ServicesInd
BY DEF ServicesInit, ServicesInd, ServicesTypeOK, KeptIsRanked, KeptStatsDated, PreviewChecked,
       ServicesConsistent, TrendingAnswered, StatsGiven, VisitsChecked

\* A step after which nothing was just told.
LEMMA SilentStep ==
  ASSUME ServicesInd, ServicesTypeOK', PreviewChecked', UNCHANGED <<trending, stats>>,
         seconds' \in Nat, seconds' >= seconds, told'.what \notin {"trending", "stats", "visited"}
  PROVE  ServicesInd'
<1>1. KeptIsRanked'
  BY DEF ServicesInd, KeptIsRanked, RankedList
<1>2. KeptStatsDated'
  BY DEF ServicesInd, ServicesTypeOK, KeptStatsDated
<1>3. ServicesConsistent'
  BY DEF ServicesConsistent, TrendingAnswered, StatsGiven, VisitsChecked
<1> QED
  BY <1>1, <1>2, <1>3 DEF ServicesInd

LEMMA SecondStep ==
  ASSUME ServicesInd, NEW n \in {1, TrendingTtl}, SecondPassesBy(n)
  PROVE  ServicesInd'
<1>1. /\ seconds' = seconds + n /\ n \in Nat /\ seconds \in Nat
      /\ UNCHANGED <<seenBy, trending, stats, requests, preview>> /\ told' = [what |-> "nothing"]
  BY ServicesBounds DEF SecondPassesBy, ServicesInd, ServicesTypeOK
<1>2. seconds' \in Nat /\ seconds' >= seconds
  BY <1>1
<1>3. ServicesTypeOK' /\ PreviewChecked'
  BY <1>1, <1>2 DEF ServicesInd, ServicesTypeOK, PreviewChecked
<1>4. told'.what = "nothing"
  BY <1>1
<1> QED
  BY <1>1, <1>2, <1>3, <1>4, SilentStep

LEMMA TrackHashtagsStep ==
  ASSUME ServicesInd, NEW author \in TagAuthors, NEW referenced, NEW linked, TrackHashtags(author, referenced, linked)
  PROVE  ServicesInd'
<1>1. /\ seenBy' = [t \in Tags |-> IF t \in referenced \cap linked THEN seenBy[t] \cup {author} ELSE seenBy[t]]
      /\ UNCHANGED <<seconds, trending, stats, requests, preview>> /\ told' = [what |-> "nothing"]
  BY DEF TrackHashtags
<1>2. ServicesTypeOK' /\ PreviewChecked'
  BY <1>1 DEF ServicesInd, ServicesTypeOK, PreviewChecked
<1>3. told'.what = "nothing" /\ seconds' \in Nat /\ seconds' >= seconds
  BY <1>1 DEF ServicesInd, ServicesTypeOK
<1> QED
  BY <1>1, <1>2, <1>3, SilentStep

\* A list that is made ranks what is used, whatever limit it was made for.
LEMMA MadeIsRanked ==
  ASSUME ServicesTypeOK, NEW list \in Ranked
  PROVE  Used \in SUBSET Tags /\ RankedList(list, Used)
<1> DEFINE n == Cardinality(Used)
           many == Cardinality(TagAuthors)
<1>1. Used \in SUBSET Tags
  BY DEF Used
<1>2. n \in Nat /\ many \in Nat
  BY <1>1, ServicesBounds, FS_Subset, FS_CardinalityType
<1>3. /\ list \in [1 .. n -> [tag : Used, count : 1 .. many]]
      /\ \A i, j \in DOMAIN list : i < j => list[i].count >= list[j].count
  BY DEF Ranked
<1> HIDE DEF n, many
<1>4. DOMAIN list = 1 .. n /\ list = [i \in 1 .. n |-> list[i]]
  BY <1>3
<1>5. \A i \in 1 .. n : list[i] \in Counted
  <2>1. \A i \in 1 .. n : list[i] \in [tag : Used, count : 1 .. many]
    BY <1>3
  <2> QED
    BY <2>1, <1>1, <1>2 DEF Counted
<1>6. list \in [1 .. n -> Counted]
  BY <1>4, <1>5
<1>7. RankedList(list, Used)
  BY <1>3, <1>4, <1>6 DEF RankedList, n
<1> QED
  BY <1>1, <1>7

\* A list that is answered, cut and filled up from what is kept.
LEMMA TrendingTold ==
  ASSUME NEW limit \in Limits, NEW list, NEW known \in SUBSET Tags, RankedList(list, known),
         AnswerTrending(limit, list, trending'.at), trending'.known = known,
         seconds' - trending'.at < TrendingTtl
  PROVE  TrendingAnswered'
<1> DEFINE full == TopUp(Truncated(list, limit), limit)
           m == Smaller(limit, Cardinality(known))
<1>1. told' = [what |-> "trending", limit |-> limit, list |-> full, at |-> trending'.at]
  BY DEF AnswerTrending
<1>2. limit \in Nat
  BY ServicesBounds
<1>3. /\ Filled(full, m, limit)
      /\ {i \in DOMAIN full : full[i].count > 0} = 1 .. m
      /\ m \in Nat /\ Cardinality(1 .. m) = m
  BY <1>2, TopUpFills
<1> HIDE DEF full
<1>4. told'.list = full /\ told'.limit = limit /\ told'.at = trending'.at
  BY <1>1
<1>5. DOMAIN full = 1 .. Len(full) /\ Len(full) \in Nat /\ Len(full) <= limit /\ m \in 0 .. Len(full)
  BY <1>3 DEF Filled
<1>6. \A i, j \in DOMAIN full : i < j => full[i].count >= full[j].count
  BY <1>3, <1>5 DEF Filled
<1>7. DOMAIN full \ (1 .. m) = (m + 1) .. Len(full)
  BY <1>3, <1>5
<1>8. \A i \in DOMAIN full, j \in DOMAIN full \ (1 .. m) : i # j => Lowered[full[i].tag] # Lowered[full[j].tag]
  BY <1>3, <1>5, <1>7 DEF Filled
<1> HIDE DEF m
<1>9. /\ Cardinality({i \in DOMAIN told'.list : told'.list[i].count > 0}) = m
      /\ \A i, j \in DOMAIN told'.list : i < j => told'.list[i].count >= told'.list[j].count
      /\ \A i \in DOMAIN told'.list, j \in DOMAIN told'.list \ {h \in DOMAIN told'.list : told'.list[h].count > 0} :
            i # j => Lowered[told'.list[i].tag] # Lowered[told'.list[j].tag]
      /\ Len(told'.list) <= told'.limit
  BY <1>3, <1>4, <1>5, <1>6, <1>8
<1>10. m = Smaller(told'.limit, Cardinality(trending'.known)) /\ seconds' - told'.at < TrendingTtl
  BY <1>4 DEF m
<1> QED
  BY <1>9, <1>10 DEF TrendingAnswered

LEMMA TrendingHashtagsFetchStep ==
  ASSUME ServicesInd, NEW limit \in Limits, TrendingHashtagsFetch(limit)
  PROVE  ServicesInd'
<1>1. UNCHANGED <<seconds, seenBy, stats, requests, preview>> /\ seconds \in Nat
  BY DEF TrendingHashtagsFetch, ServicesInd, ServicesTypeOK
<1>2. ServicesTypeOK' /\ KeptStatsDated' /\ PreviewChecked'
  BY <1>1 DEF ServicesInd, ServicesTypeOK, KeptStatsDated, PreviewChecked
<1>3. KeptIsRanked' /\ TrendingAnswered'
  <2>1. CASE IsFresh(trending, TrendingTtl)
    <3>1. AnswerTrending(limit, trending.list, trending.at) /\ trending' = trending
      BY <2>1 DEF TrendingHashtagsFetch
    <3>2. trending.known \in SUBSET Tags /\ RankedList(trending.list, trending.known)
      BY <2>1 DEF IsFresh, ServicesInd, KeptIsRanked
    <3>3. seconds' - trending'.at < TrendingTtl
      BY <2>1, <3>1, <1>1 DEF IsFresh
    <3>4. TrendingAnswered'
      BY <3>1, <3>2, <3>3, TrendingTold
    <3> QED
      BY <3>1, <3>4 DEF ServicesInd, KeptIsRanked, RankedList
  <2>2. CASE ~IsFresh(trending, TrendingTtl)
    <3>1. PICK list \in Ranked :
            /\ trending' = [at |-> seconds, list |-> list, known |-> Used]
            /\ AnswerTrending(limit, list, seconds)
      BY <2>2 DEF TrendingHashtagsFetch, KeptForOthers
    <3>2. Used \in SUBSET Tags /\ RankedList(list, Used)
      BY MadeIsRanked DEF ServicesInd
    <3>3. trending'.at = seconds /\ trending'.list = list /\ trending'.known = Used
      BY <3>1
    <3>4. seconds' - trending'.at < TrendingTtl
      BY <3>3, <1>1, ServicesBounds
    <3>5. TrendingAnswered'
      BY <3>1, <3>2, <3>3, <3>4, TrendingTold
    <3>6. /\ trending' = [at |-> trending'.at, list |-> trending'.list, known |-> trending'.known]
          /\ trending'.at \in Nat /\ trending'.known \in SUBSET Tags
      BY <3>1, <3>2, <3>3, <1>1
    <3>7. RankedList(trending'.list, trending'.known)
      BY <3>2, <3>3
    <3>8. KeptIsRanked'
      BY <3>6, <3>7 DEF KeptIsRanked, RankedList
    <3> QED
      BY <3>5, <3>8
  <2> QED
    BY <2>1, <2>2
<1>4. told'.what = "trending"
  BY DEF TrendingHashtagsFetch, AnswerTrending
<1>5. StatsGiven' /\ VisitsChecked'
  BY <1>4 DEF StatsGiven, VisitsChecked
<1> QED
  BY <1>2, <1>3, <1>5 DEF ServicesInd, ServicesConsistent

LEMMA PeerStatsStep ==
  ASSUME ServicesInd, NEW enough \in BOOLEAN, PeerStatsRequestV1(enough)
  PROVE  ServicesInd'
<1>1. /\ UNCHANGED <<seconds, seenBy, trending, preview>> /\ requests' = requests + 1
      /\ stats' = IF enough THEN GivenStats ELSE stats
      /\ told' = IF enough THEN [what |-> "stats", given |-> GivenStats] ELSE [what |-> "refused"]
  BY DEF PeerStatsRequestV1
<1>2. ServicesTypeOK' /\ PreviewChecked'
  BY <1>1 DEF ServicesInd, ServicesTypeOK, PreviewChecked
<1>3. KeptIsRanked'
  BY <1>1 DEF ServicesInd, KeptIsRanked, RankedList
<1>4. /\ GivenStats.at \in Nat /\ GivenStats.at <= seconds
      /\ seconds - GivenStats.at < StatsTtl
  <2>1. CASE IsFresh(stats, StatsTtl)
    BY <2>1 DEF GivenStats, IsFresh, ServicesInd, KeptStatsDated
  <2>2. CASE ~IsFresh(stats, StatsTtl)
    <3>1. GivenStats.at = seconds /\ seconds \in Nat
      BY <2>2 DEF GivenStats, NewStats, ServicesInd, ServicesTypeOK
    <3> QED
      BY <3>1, ServicesBounds
  <2> QED
    BY <2>1, <2>2
<1>5. KeptStatsDated'
  BY <1>1, <1>4 DEF ServicesInd, KeptStatsDated
<1>6. StatsGiven'
  BY <1>1, <1>4 DEF StatsGiven
<1>7. told'.what \in {"stats", "refused"}
  BY <1>1
<1>8. TrendingAnswered' /\ VisitsChecked'
  BY <1>7 DEF TrendingAnswered, VisitsChecked
<1> QED
  BY <1>2, <1>3, <1>5, <1>6, <1>8 DEF ServicesInd, ServicesConsistent

LEMMA FetchUrlPreviewStep ==
  ASSUME ServicesInd, NEW https, NEW named, NEW dns, FetchUrlPreview(https, named, dns)
  PROVE  ServicesInd'
<1>1. UNCHANGED <<seconds, seenBy, trending, stats, requests>> /\ told'.what \in {"nothing", "refused"}
  BY DEF FetchUrlPreview
<1>2. preview' = preview \/ (preview' = [st |-> "checked", resolved |-> dns] /\ dns # {} /\ dns \cap ProtectedIps = {})
  BY DEF FetchUrlPreview
<1>3. PreviewChecked'
  BY <1>2 DEF PreviewChecked, ServicesInd
<1>4. ServicesTypeOK' /\ seconds' \in Nat /\ seconds' >= seconds
  BY <1>1 DEF ServicesInd, ServicesTypeOK
<1> QED
  BY <1>1, <1>3, <1>4, SilentStep

LEMMA VisitUrlStep ==
  ASSUME ServicesInd, NEW dns, VisitUrl(dns)
  PROVE  ServicesInd'
<1>1. /\ UNCHANGED <<seconds, seenBy, trending, stats, requests>> /\ preview' = [st |-> "none"]
      /\ told' = [what |-> "visited", ips |-> preview.resolved] /\ preview.st = "checked"
  BY DEF VisitUrl, ResolveToAddrs
<1>2. ServicesTypeOK' /\ KeptStatsDated' /\ PreviewChecked'
  BY <1>1 DEF ServicesInd, ServicesTypeOK, KeptStatsDated, PreviewChecked
<1>3. KeptIsRanked'
  BY <1>1 DEF ServicesInd, KeptIsRanked, RankedList
<1>4. TrendingAnswered' /\ StatsGiven' /\ VisitsChecked'
  BY <1>1 DEF ServicesInd, PreviewChecked, TrendingAnswered, StatsGiven, VisitsChecked
<1> QED
  BY <1>2, <1>3, <1>4 DEF ServicesInd, ServicesConsistent

LEMMA ServicesNextStep == ServicesInd /\ [ServicesNext]_servicesVars => ServicesInd'
<1> SUFFICES ASSUME ServicesInd, [ServicesNext]_servicesVars PROVE ServicesInd'
  OBVIOUS
<1>1. CASE UNCHANGED servicesVars
  BY <1>1 DEF servicesVars, ServicesInd, ServicesTypeOK, KeptIsRanked, RankedList, KeptStatsDated, PreviewChecked,
              ServicesConsistent, TrendingAnswered, StatsGiven, VisitsChecked
<1>2. ASSUME NEW n \in {1, TrendingTtl}, SecondPassesBy(n) PROVE ServicesInd'
  BY <1>2, SecondStep
<1>3. ASSUME NEW a \in TagAuthors, NEW r \in SUBSET Tags, NEW l \in SUBSET Tags, TrackHashtags(a, r, l) PROVE ServicesInd'
  BY <1>3, TrackHashtagsStep
<1>4. ASSUME NEW limit \in Limits, TrendingHashtagsFetch(limit) PROVE ServicesInd'
  BY <1>4, TrendingHashtagsFetchStep
<1>5. ASSUME NEW enough \in BOOLEAN, PeerStatsRequestV1(enough) PROVE ServicesInd'
  BY <1>5, PeerStatsStep
<1>6. ASSUME NEW dns, VisitUrl(dns) PROVE ServicesInd'
  BY <1>6, VisitUrlStep
<1>7. ASSUME NEW dns, NEW https \in BOOLEAN, NEW named \in BOOLEAN, FetchUrlPreview(https, named, dns) PROVE ServicesInd'
  BY <1>7, FetchUrlPreviewStep
<1> QED
  BY <1>1, <1>2, <1>3, <1>4, <1>5, <1>6, <1>7 DEF ServicesNext

(***************************************************************************)
(* The inductive invariant of the services: the list that is kept ranks    *)
(* what was used when it was made, and an address that is to be visited    *)
(* was checked.                                                            *)
(***************************************************************************)
THEOREM ServicesInductive == ServicesSpec => []ServicesInd
<1> QED
  BY ServicesStart, ServicesNextStep, PTL DEF ServicesSpec

(***************************************************************************)
(* The trending hashtags, the statistics and the preview of a page         *)
(* (dispatch.rs:1157-1361): what is kept for others serves every limit as  *)
(* a fresh answer would, and only addresses that were checked are visited. *)
(***************************************************************************)
THEOREM ServicesAlwaysConsistent == ServicesSpec => []ServicesConsistent
<1>1. ServicesInd => ServicesConsistent
  BY DEF ServicesInd
<1> QED
  BY <1>1, ServicesInductive, PTL
=============================================================================
