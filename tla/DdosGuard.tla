------------------------------ MODULE DdosGuard ------------------------------
(***************************************************************************)
(* The throttle of inbound connections: a score per address that decays     *)
(* linearly, a count of connections per address, and, in the variant used   *)
(* by the server binary, the ban of an address in the kernel's firewall.    *)
(*                                                                         *)
(* Scores are counted in whole points and time in whole seconds.  An entry  *)
(* keeps the seconds since it was last incremented (`age', the code's now - *)
(* last_updated) and since it was last looked up (`idle', for the eviction   *)
(* of the cache that holds the entries).                                    *)
(***************************************************************************)
EXTENDS Integers, FiniteSets, FiniteSetsExt

CONSTANTS
  Addresses,            \* the addresses connections come from
  ScoreThreshold,       \* SERVER_DDOS_SCORE_THRESHOLD
  DecayPerSecond,       \* SERVER_DDOS_DECAY_PER_SECOND
  BadRequestPenalty,    \* SERVER_DDOS_BAD_REQUEST_PENALTY
  MaxConnectionsPerIp,  \* SERVER_DDOS_MAX_CONNECTIONS_PER_IP
  ThrottleSecs,         \* how long the firewall is not told again of an address
  None

ASSUME DdosAssumption ==
  /\ {ScoreThreshold, DecayPerSecond, BadRequestPenalty, MaxConnectionsPerIp, ThrottleSecs}
       \subseteq Nat \ {0}

VARIABLES
  protection,   \* "mem" or "ipset"
  scores,       \* the cache of scores, None for an address without an entry
  connections,  \* the connections counted for each address
  throttle,     \* seconds for which the firewall is not told again
  adding,       \* addresses with a spawned `ipset add' that has not run yet
  firewall      \* seconds for which the firewall still drops an address

ddosVars == <<protection, scores, connections, throttle, adding, firewall>>

-----------------------------------------------------------------------------
(* Idle expiry of a score: twice the time in which the threshold decays.    *)
IdleSecs ==
  (2 * ScoreThreshold + DecayPerSecond - 1) \div DecayPerSecond

Current(entry) == Max({0, entry.score - DecayPerSecond * entry.age})

Increment(entry, points) ==
  [score |-> points + (IF entry = None THEN 0 ELSE Current(entry)), age |-> 0, idle |-> 0]

NewScore(a, points) == Increment(scores[a], points).score

IsScoreBanned(a) == scores[a] # None /\ Current(scores[a]) >= ScoreThreshold

DdosInit ==
  /\ scores = [a \in Addresses |-> None]
  /\ connections = [a \in Addresses |-> 0]
  /\ throttle = [a \in Addresses |-> 0]
  /\ adding = {}
  /\ firewall = [a \in Addresses |-> 0]

MaybeCallIpset(a, score) ==
  IF protection = "ipset" /\ score >= ScoreThreshold /\ throttle[a] = 0
  THEN /\ throttle' = [throttle EXCEPT ![a] = ThrottleSecs]
       /\ adding' = adding \cup {a}
  ELSE UNCHANGED <<throttle, adding>>

AddPoints(a, points) ==
  /\ scores' = [scores EXCEPT ![a] = Increment(@, points)]
  /\ MaybeCallIpset(a, NewScore(a, points))
  /\ UNCHANGED <<protection, firewall>>

AllowsRequest(a) == NewScore(a, 1) < ScoreThreshold

AllowRequest(a) == AddPoints(a, 1)

ReportBadRequest(a) == AddPoints(a, BadRequestPenalty)

NoScore == UNCHANGED <<protection, scores, throttle, adding, firewall>>

(* Asking whether the address is banned is a lookup of its entry.           *)
\* Mutant: the cap is one too high.
AcquiresAtCap(a) == ~IsScoreBanned(a) /\ connections[a] <= MaxConnectionsPerIp

Acquires(a) == ~IsScoreBanned(a) /\ connections[a] < MaxConnectionsPerIp

LookUpScore(a) ==
  /\ scores' = [scores EXCEPT ![a] = IF @ = None THEN None ELSE [@ EXCEPT !.idle = 0]]
  /\ UNCHANGED <<protection, throttle, adding, firewall>>

Released(a, guards) == Max({0, connections[a] - guards})

-----------------------------------------------------------------------------
(* The spawned command runs, and succeeds or fails.                         *)
IpsetAdd(a) ==
  /\ a \in adding
  /\ adding' = adding \ {a}
  /\ firewall' \in {firewall, [firewall EXCEPT ![a] = IdleSecs]}
  /\ UNCHANGED <<protection, scores, connections, throttle>>

Older(entry) ==
  IF entry = None \/ entry.idle + 1 >= IdleSecs THEN None
  ELSE [entry EXCEPT !.idle = @ + 1, !.age = IF Current(entry) = 0 THEN @ ELSE @ + 1]

Sooner(seconds) == [a \in Addresses |-> Max({0, seconds[a] - 1})]

\* Mutant: `ipset create' without a timeout.
EverFirewalled == firewall

FirewallExpiry == Sooner(firewall)

Second ==
  /\ scores' = [a \in Addresses |-> Older(scores[a])]
  /\ throttle' = Sooner(throttle)
  /\ firewall' = FirewallExpiry
  /\ UNCHANGED <<protection, connections, adding>>

\* Nothing is left for the clock to change.
Quiet ==
  /\ \A a \in Addresses : scores[a] = None /\ throttle[a] = 0 /\ firewall[a] = 0
  /\ adding = {}

Score == [score : Nat, age : Nat, idle : 0 .. IdleSecs - 1]

DdosTypeOK ==
  /\ protection \in {"mem", "ipset"}
  /\ scores \in [Addresses -> Score \cup {None}]
  /\ connections \in [Addresses -> 0 .. MaxConnectionsPerIp]
  /\ throttle \in [Addresses -> 0 .. ThrottleSecs]
  /\ firewall \in [Addresses -> 0 .. IdleSecs]
  /\ adding \subseteq Addresses

\* An address that the server lets in: neither banned by its score nor dropped by the firewall.
Welcome(a) == ~IsScoreBanned(a) /\ firewall[a] = 0 /\ a \notin adding

=============================================================================
