--------------------------- MODULE Certificates ---------------------------
(***************************************************************************)
(* The certificate refresher of the HTTPS transport                         *)
(* (https_transport_cert_refresher.rs): the self-signed pair written at     *)
(* start, the hourly loop that renews the certificate and reloads it, and   *)
(* the files cert.pem, key.pem and last_refreshed, which are written one    *)
(* after the other and outlive the process.                                 *)
(*                                                                         *)
(* A certificate and a key are the generation that made them: they belong   *)
(* together when they are the same number.  Time is counted in checks of    *)
(* the loop (one hour); the ages of the last renewal and of the last        *)
(* attempt saturate one past the limit they are compared with.              *)
(***************************************************************************)
EXTENDS Naturals

CONSTANTS RenewAfter,       \* MILLIS_TO_WAIT_BETWEEN_CERT_RENEWALS, in checks
          RetryAfter,       \* MILLIS_TO_WAIT_BETWEEN_CERT_RENEWAL_FAILURES, in checks
          MaxRefusals,      \* bound: renewals Let's Encrypt refuses
          MaxDeaths         \* bound: deaths of the process

ASSUME CertificatesAssumption ==
    RenewAfter \in Nat /\ RetryAfter \in Nat /\ MaxRefusals \in Nat /\ MaxDeaths \in Nat

VARIABLES
    renews,         \* port 443 and not force_local_network
    cert, key,      \* what the files hold: a generation, NoFile or EmptyFile
    sinceRefresh,   \* age of last_refreshed
    sinceAttempt,   \* age of certs_last_attempted, in memory
    serving,        \* base_cert: the pair the server presents, or NoPair
    at,             \* where the process is
    newest,         \* the last generation made
    refusals, deaths

certVars == <<renews, cert, key, sinceRefresh, sinceAttempt, serving, at, newest, refusals, deaths>>

\* A death wastes one generation at most, so that these are enough to tell files apart.
Generations == 0 .. MaxDeaths + 2

NextGeneration == (newest + 1) % (MaxDeaths + 3)

\* A file that is not there, and one that was created or cut and not yet written.
NoFile == MaxDeaths + 3
EmptyFile == MaxDeaths + 4
NoPair == <<NoFile, EmptyFile>>

OlderThan(age, limit) == age > limit

Aged(age, limit) == IF age > limit THEN age ELSE age + 1

CertificatesInit ==
    /\ renews \in BOOLEAN
    /\ cert = NoFile /\ key = NoFile
    /\ sinceRefresh = RenewAfter + 1
    /\ sinceAttempt = RetryAfter + 1
    /\ serving = NoPair
    /\ at = "off"
    /\ newest = 0
    /\ refusals = 0 /\ deaths = 0

---------------------------------------------------------------------------
(* HttpsTransportCertRefresher::new                                        *)

\* The server is started for the first time.
CertsStart ==
    /\ at = "off"
    /\ at' = "new"
    /\ UNCHANGED <<renews, cert, key, sinceRefresh, sinceAttempt, serving, newest, refusals, deaths>>

\* fs::exists of both files: a file that is there and empty exists.
CertsNew ==
    /\ at = "new"
    /\ IF cert = NoFile \/ key = NoFile
       THEN /\ newest' = NextGeneration
            /\ at' = "self cert"
       ELSE at' = "check" /\ UNCHANGED newest
    /\ serving' = NoPair
    /\ sinceAttempt' = RetryAfter + 1
    /\ UNCHANGED <<renews, cert, key, sinceRefresh, refusals, deaths>>

---------------------------------------------------------------------------
(* Writing a file: it is cut to nothing, then written.                     *)

WriteCert(here, next) ==
    /\ at = here
    /\ \/ cert # EmptyFile /\ cert # newest /\ cert' = EmptyFile /\ at' = here
       \/ cert = EmptyFile /\ cert' = newest /\ at' = next
    /\ UNCHANGED <<renews, key, sinceRefresh, sinceAttempt, serving, newest, refusals, deaths>>

WriteKey(here, next) ==
    /\ at = here
    /\ \/ key # EmptyFile /\ key # newest /\ key' = EmptyFile /\ at' = here
       \/ key = EmptyFile /\ key' = newest /\ at' = next
    /\ UNCHANGED <<renews, cert, sinceRefresh, sinceAttempt, serving, newest, refusals, deaths>>

---------------------------------------------------------------------------
(* The loop of process()                                                   *)

\* The two gates of a renewal: the certificate is old, and the last attempt is not recent.
Attempts == OlderThan(sinceRefresh, RenewAfter) /\ OlderThan(sinceAttempt, RetryAfter)

\* A check that renews: refresh_cert, up to the answer of Let's Encrypt.
RefreshCert ==
    /\ at = "check"
    /\ renews /\ Attempts
    /\ sinceAttempt' = 0
    /\ \/ /\ newest' = NextGeneration
          /\ at' = "new cert"
          /\ UNCHANGED refusals
       \/ /\ refusals < MaxRefusals
          /\ refusals' = refusals + 1
          /\ at' = "sleep"      \* the error leaves the try block: no reload
          /\ UNCHANGED newest
    /\ UNCHANGED <<renews, cert, key, sinceRefresh, serving, deaths>>

\* MUTANT: the marker is written before the key.
RefreshedFirst == at = "new key" /\ sinceRefresh' = 0 /\ UNCHANGED at

\* fs::write(last_refreshed): after the certificate and the key.
Refreshed == at = "refreshed" /\ sinceRefresh' = 0 /\ at' = "reload"

WriteLastRefreshed ==
    /\ Refreshed
    /\ UNCHANGED <<renews, cert, key, sinceAttempt, serving, newest, refusals, deaths>>

\* MUTANT: the time of the attempt is set by every check.
NoRefreshStamped ==
    /\ at = "check"
    /\ ~(renews /\ Attempts)
    /\ at' = "reload"
    /\ sinceAttempt' = 0
    /\ UNCHANGED <<renews, cert, key, sinceRefresh, serving, newest, refusals, deaths>>

\* A check that has nothing to renew goes straight to the reload.
NoRefresh ==
    /\ at = "check"
    /\ ~(renews /\ Attempts)
    /\ at' = "reload"
    /\ UNCHANGED <<renews, cert, key, sinceRefresh, sinceAttempt, serving, newest, refusals, deaths>>

\* MUTANT: the pair is reloaded only once it has been renewed.
ReloadCertsRenewed ==
    /\ at = "reload"
    /\ serving' = IF cert \in Generations /\ key \in Generations /\ sinceRefresh = 0 THEN <<cert, key>> ELSE serving
    /\ at' = "sleep"
    /\ UNCHANGED <<renews, cert, key, sinceRefresh, sinceAttempt, newest, refusals, deaths>>

\* reload_certs: an empty or missing file leaves what is served; the pair is not compared.
ReloadCerts ==
    /\ at = "reload"
    /\ serving' = IF cert \in Generations /\ key \in Generations THEN <<cert, key>> ELSE serving
    /\ at' = "sleep"
    /\ UNCHANGED <<renews, cert, key, sinceRefresh, sinceAttempt, newest, refusals, deaths>>

\* cancellable_sleep until the next check.
CertSleep ==
    /\ at = "sleep"
    /\ at' = "check"
    /\ sinceRefresh' = Aged(sinceRefresh, RenewAfter)
    /\ sinceAttempt' = Aged(sinceAttempt, RetryAfter)
    /\ UNCHANGED <<renews, cert, key, serving, newest, refusals, deaths>>

\* The process dies anywhere and is started again: only the files are left.
CertCrash ==
    /\ at # "off"
    /\ deaths < MaxDeaths
    /\ deaths' = deaths + 1
    /\ at' = "new"
    /\ serving' = NoPair
    /\ UNCHANGED <<renews, cert, key, sinceRefresh, sinceAttempt, newest, refusals>>

CertStep ==
    \/ CertsNew
    \/ WriteCert("self cert", "self key") \/ WriteKey("self key", "check")
    \/ RefreshCert \/ NoRefresh
    \/ WriteCert("new cert", "new key") \/ WriteKey("new key", "refreshed")
    \/ WriteLastRefreshed \/ ReloadCerts \/ CertSleep

CertificatesNext == CertsStart \/ CertStep \/ CertCrash

CertificatesSpec ==
    CertificatesInit /\ [][CertificatesNext]_certVars /\ WF_certVars(CertStep)

---------------------------------------------------------------------------
\* What a client that is not the ACME server is given: resolve().
ServesPair == serving[1] = serving[2]

\* A last_refreshed that holds back the next renewal vouches for the files: the
\* certificate and the key on disk are then a pair, whatever crash came between the writes.
FreshMeansPair ==
    ~OlderThan(sinceRefresh, RenewAfter) => cert = key /\ cert \in Generations

\* A server that renews its certificate comes to present a certificate with its own key
\* again and again, after crashes between the writes and refusals by Let's Encrypt.
PairServed == []<>(at # "off" /\ renews => ServesPair)

\* A server that does not renew presents its self-signed pair, unless it died while it
\* wrote the files: an empty file counts as existing and is not written again.
SelfSignedServed == []<>(at = "off" \/ renews \/ deaths > 0 \/ ServesPair)

\* A server comes to present a certificate with its own key, again and again if it renews
\* it; without renewal it presents its self-signed one, unless it died writing the files.
CertificateServed == PairServed /\ SelfSignedServed
===========================================================================
