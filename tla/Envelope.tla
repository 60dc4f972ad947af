------------------------------ MODULE Envelope ------------------------------
(***************************************************************************)
(* One remote call: the client stamps a request and works for it; the       *)
(* network delivers it late, twice, or to the server that has the address   *)
(* by now; the server decodes it, refuses what is too old, too cheap or     *)
(* already seen, keeps the work as its own when it is the best it has been  *)
(* given, and signs its answer; and the client checks that answer.          *)
(*                                                                         *)
(* A packet is a record of its header fields.  Its salt names it: two        *)
(* searches never end with the same salt.  A body stands for its hash.        *)
(***************************************************************************)
EXTENDS Integers, FiniteSets, Sequences

CONSTANTS
  Servers,       \* servers, each with a key and an identity
  AnyServer,     \* Id::zero(), the destination of a call to an address
  Calls,         \* calls of clients, and the salts of their packets
  Bodies,        \* bodies of requests
  Skews,         \* how far a client's clock may be from the servers'
  ClockDrift,    \* POW_MAX_CLOCK_DRIFT_MILLIS
  SaltMemory,    \* how long seen_salts remembers
  KnownPow,      \* POW_MINIMUM_PER_RPC_SERVER_KNOWN
  UnknownPow,    \* POW_MINIMUM_PER_RPC_SERVER_UNKNOWN
  Works,         \* work a client may do, in bits
  EnvelopeTime   \* bound: the clock

ASSUME EnvelopeAssumption ==
  /\ {ClockDrift, SaltMemory, KnownPow, UnknownPow, EnvelopeTime} \subseteq Nat
  /\ ClockDrift <= SaltMemory   \* five minutes each (a build for tests has eight times the drift)
  /\ Works \subseteq Nat
  /\ AnyServer \notin Servers
  /\ \A skew \in Skews : skew \in Int /\ skew + EnvelopeTime >= 0   \* no stamp is older than worth counts from

VARIABLES
  serverTime, \* the servers' time
  packets,   \* requests sent, which the network keeps and may deliver again
  salts,     \* seen_salts of each server: salts with the time of their insertion
  own,       \* peer_self of each server: its best work of the day and of the month
  answers,   \* responses sent, which the network may deliver to any call
  call,      \* what each call knows of its fate
  receipts   \* history: when each server accepted each packet

envelopeVars == <<serverTime, packets, salts, own, answers, call, receipts>>

-----------------------------------------------------------------------------
(* Work is bound to the destination's keys: measured with other keys a salt  *)
(* is worth nothing.                                                        *)
PowMeasure(p, key) == IF p.key = key THEN p.pow ELSE 0

\* Whether the payload is compressed is the business of module Wire.
RequestFlags(dest) == IF dest = AnyServer THEN {} ELSE {"known"}

\* RpcRequestPacketTx::encode: the stamp is taken before the search.
EncodeRequest(k, to, dest, body, stamp, pow, kind) ==
  [salt |-> k, to |-> to, flags |-> RequestFlags(dest), key |-> dest, body |-> body, ts |-> stamp, pow |-> pow, kind |-> kind]

Abs(n) == IF n < 0 THEN -n ELSE n

\* Mutant: the drift is one more than what the salts are remembered for.
TimelyLonger(p) == Abs(serverTime - p.ts) <= ClockDrift + 1

Timely(p) == Abs(serverTime - p.ts) <= ClockDrift

EnoughPow(s, p) ==
  IF "known" \in p.flags THEN PowMeasure(p, s) >= KnownPow ELSE PowMeasure(p, AnyServer) >= UnknownPow

DecodesRequest(s, p) == Timely(p) /\ EnoughPow(s, p)

Remembered(s, salt) == \E e \in salts[s] : e.salt = salt /\ serverTime < e.at + SaltMemory

(* Half-lives: a day is one unit of the clock here and a month two, so work   *)
(* decays as pow / 2^age and pow / 2^(age/2); ages differ by the stamps.     *)
DayWorth(w) == w.pow * 2^(w.ts + EnvelopeTime)

MonthWorth(w) == w.pow * w.pow * 2^(w.ts + EnvelopeTime)

WorkOf(s, p) == [pow |-> PowMeasure(p, s), ts |-> p.ts]

\* Mutant: work of another time is compared without its decay.
ImprovedUndecayed(s, w) ==
  [day |-> IF w.pow > own[s].day.pow THEN w ELSE own[s].day,
   month |-> IF w.pow > own[s].month.pow THEN w ELSE own[s].month]

\* The server's record takes over better work, and is signed again.
Improved(s, w) ==
  [day |-> IF DayWorth(w) > DayWorth(own[s].day) THEN w ELSE own[s].day,
   month |-> IF MonthWorth(w) > MonthWorth(own[s].month) THEN w ELSE own[s].month]

AnonymousAllowed(p) == p.kind = "BootstrapV1"

\* RpcResponsePacketTx::encode: the server signs the hash of the request.
EncodeResponse(s, p, ok) ==
  [id |-> s, signed |-> [key |-> s, hash |-> p.body], kind |-> IF ok THEN p.kind ELSE "ErrorResponseV1"]

\* Mutant: the destination is not compared.
DecodesAnyResponse(k, r) == r.signed.hash = call[k].body

(* RpcResponsePacketRx::decode: the server is the destination, unless there   *)
(* is none, and has signed this request's hash.                             *)
DecodesResponse(k, r) ==
  /\ call[k].dest = AnyServer \/ r.id = call[k].dest
  /\ r.signed = [key |-> r.id, hash |-> call[k].body]

-----------------------------------------------------------------------------
NoWork == [pow |-> 0, ts |-> 0]

EnvelopeInit ==
  /\ serverTime = 0
  /\ packets = {}
  /\ salts = [s \in Servers |-> {}]
  /\ own = [s \in Servers |-> [day |-> NoWork, month |-> NoWork]]
  /\ answers = {}
  /\ call = [k \in Calls |-> [st |-> "idle"]]
  /\ receipts = [s \in Servers |-> [k \in Calls |-> <<>>]]

Rpc(k, to, dest, body, skew, pow, kind) ==
  /\ call[k].st = "idle"
  /\ pow >= (IF dest = AnyServer THEN UnknownPow ELSE KnownPow)
  /\ packets' = packets \cup {EncodeRequest(k, to, dest, body, serverTime + skew, pow, kind)}
  /\ call' = [call EXCEPT ![k] = [st |-> "waiting", dest |-> dest, body |-> body, from |-> AnyServer]]
  /\ UNCHANGED <<serverTime, salts, own, answers, receipts>>

(* The client gives up; its packet may still arrive.                         *)
RpcFails(k) ==
  /\ call[k].st = "waiting"
  /\ call' = [call EXCEPT ![k].st = "failed"]
  /\ UNCHANGED <<serverTime, packets, salts, own, answers, receipts>>

Remember(s, p) ==
  salts' = [salts EXCEPT ![s] = {e \in @ : e.salt # p.salt} \cup {[salt |-> p.salt, at |-> serverTime]}]

(* Work done for the server counts whatever the handler answers.  A request   *)
(* that may not be anonymous is answered with an error.                     *)
WrapAndDispatch(s, p) ==
  /\ p \in packets
  /\ p.to = s
  /\ DecodesRequest(s, p)
  /\ ~Remembered(s, p.salt)
  /\ Remember(s, p)
  /\ receipts' = [receipts EXCEPT ![s][p.salt] = Append(@, serverTime)]
  /\ answers' = answers \cup {EncodeResponse(s, p, "known" \in p.flags \/ AnonymousAllowed(p))}
  /\ own' = IF "known" \in p.flags THEN [own EXCEPT ![s] = Improved(s, WorkOf(s, p))] ELSE own
  /\ UNCHANGED <<serverTime, packets, call>>

(* A response reaches a call: one that does not decode fails it, an error     *)
(* response too.                                                            *)
RpcReturns(k, r) ==
  /\ call[k].st = "waiting"
  /\ r \in answers
  /\ call' = [call EXCEPT ![k] =
                IF DecodesResponse(k, r) /\ r.kind # "ErrorResponseV1"
                THEN [@ EXCEPT !.st = "answered", !.from = r.signed.key]
                ELSE [@ EXCEPT !.st = "failed"]]
  /\ UNCHANGED <<serverTime, packets, salts, own, answers, receipts>>

ClockTicks ==
  /\ serverTime < EnvelopeTime
  /\ serverTime' = serverTime + 1
  /\ UNCHANGED <<packets, salts, own, answers, call, receipts>>

EnvelopeRests == serverTime = EnvelopeTime /\ UNCHANGED envelopeVars

EnvelopeNext ==
  \/ ClockTicks \/ EnvelopeRests
  \/ \E k \in Calls :
       \/ RpcFails(k)
       \/ \E r \in answers : RpcReturns(k, r)
       \/ \E to \in Servers, dest \in Servers \cup {AnyServer}, body \in Bodies, skew \in Skews, pow \in Works :
             \E kind \in {"PingV1"} \cup (IF dest = AnyServer THEN {"BootstrapV1"} ELSE {}) :
               Rpc(k, to, dest, body, skew, pow, kind)
  \/ \E s \in Servers, p \in packets : WrapAndDispatch(s, p)

EnvelopeSpec == EnvelopeInit /\ [][EnvelopeNext]_envelopeVars

-----------------------------------------------------------------------------

(* A server acts once on a packet that was stamped before it first received   *)
(* it: it forgets the salt no sooner than the stamp becomes too old.  Only a  *)
(* stamp from a clock that is ahead (or exact to the millisecond) leaves a    *)
(* moment in which a copy is accepted again, and then only after the whole     *)
(* memory has passed.                                                       *)
ActedOnOnce ==
  \A s \in Servers, p \in packets :
    LET times == receipts[s][p.salt]
    IN Len(times) > 1 =>
         /\ p.ts >= times[1]
         /\ \A i \in 2 .. Len(times) : times[i] >= times[i - 1] + SaltMemory

(* A server shows the best work it was ever given, by what it is worth now:   *)
(* decay never turns the order of two works around, whatever the order in     *)
(* which they arrive and with stamps of the past and of the future.          *)
BestWorkKept ==
  \A s \in Servers, p \in packets :
    ("known" \in p.flags /\ receipts[s][p.salt] # <<>>) =>
      /\ DayWorth(own[s].day) >= DayWorth(WorkOf(s, p))
      /\ MonthWorth(own[s].month) >= MonthWorth(WorkOf(s, p))

(* A call to a server is answered by that server, which decoded a request of  *)
(* the same body and accepted it; so is a call to an address, by some server.  *)
AnsweredByDestination ==
  \A k \in Calls : call[k].st = "answered" =>
    /\ call[k].dest \in {AnyServer, call[k].from}
    /\ \E p \in packets : p.body = call[k].body /\ receipts[call[k].from][p.salt] # <<>>

\* A request delivered late or twice is acted on once, the best work it brings is kept, and
\* an answer that the client accepts is the destination's.
CallsAnsweredOnce == ActedOnOnce /\ BestWorkKept /\ AnsweredByDestination
=============================================================================
