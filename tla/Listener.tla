------------------------------ MODULE Listener ------------------------------
(***************************************************************************)
(* The inbound side of a server: the accept loop of a transport, the tasks  *)
(* of its connections, the bounded channel of requests, and the one         *)
(* dispatch loop that answers them, from `listen' to the shutdown.          *)
(*                                                                         *)
(* Three transports implement the same interface and are modelled side by   *)
(* side (`transport'): HTTPS, with a keep-alive connection and any number   *)
(* of requests on it; plain TCP, one request per connection; and the        *)
(* in-memory transport of the tests, where a connection is one message.     *)
(* What a request asks, and the answer, are left to Envelope.               *)
(***************************************************************************)
EXTENDS DdosGuard, Sequences, SequencesExt

CONSTANTS
  Conns,           \* connections that may exist at one time
  Requests,        \* requests that may be in the server at one time
  Capacity,        \* capacity of the channel to the dispatch loop
  MaxConnections,  \* HTTPS_SERVER_TRANSPORT_MAX_CONNECTIONS
  MaxArrivals,     \* bound: connections made in a behaviour
  MaxAsks          \* bound: requests made in a behaviour

ASSUME ListenerAssumption ==
  /\ {Capacity, MaxConnections, MaxArrivals, MaxAsks} \subseteq Nat \ {0}
  /\ IsFiniteSet(Conns)
  /\ None \notin Conns \cup Addresses

VARIABLES
  transport,   \* "https", "tcp" or "mem"
  state,       \* ServerState of the transport server
  phase,       \* of the accept loop: "idle", "accepting", "draining", "stopped"
  cancelled,   \* the cancellation token
  dispatching, \* the dispatch loop runs and holds the receiving end
  conn,        \* the connections
  req,         \* the requests
  queue,       \* the channel
  left         \* arrivals and requests still to come

listenVars == <<transport, state, phase, cancelled, dispatching, conn, req, queue, left>>
frontVars == <<ddosVars, listenVars>>

Connection == [ip : Addresses \cup {None},
               st : {"free", "arrived", "tls", "open", "awaiting", "closed"}]
Request == [c : Conns \cup {None}, waits : BOOLEAN,
            st : {"free", "sending", "queued", "handling", "replied", "dropped"}]

NoConn == [ip |-> None, st |-> "free"]
NoReq == [c |-> None, st |-> "free", waits |-> FALSE]

(* A task of the connection runs: in the handshake, serving, or, for a      *)
(* transport with one request per connection, awaiting its reply.           *)
Live(cn, c) == cn[c].st \in {"tls", "open", "awaiting"}

(* The task owns the connection's guard; TCP and the in-memory transport     *)
(* move it into the request, HTTPS clones it.                               *)
TaskHolds(cn, c) == cn[c].st \in {"tls", "open"}

\* Mutant: the reply, and not the request, owns the guard.
RequestHoldsReply(rq, r) == rq[r].waits

RequestHolds(rq, r) == rq[r].st # "free"

Held(cn, rq, c) == TaskHolds(cn, c) \/ \E r \in Requests : rq[r].c = c /\ RequestHolds(rq, r)

\* Mutant: a guard is released with the task of its connection or not at all.
DroppedByTask(cn, rq, a) ==
  {c \in Conns : conn[c].ip = a /\ TaskHolds(conn, c) /\ ~Held(cn, rq, c)}

(* The guards whose last owner is gone when connections and requests become *)
(* cn and rq are dropped, and release their slots.                          *)
Dropped(cn, rq, a) ==
  {c \in Conns : conn[c].ip = a /\ Held(conn, req, c) /\ ~Held(cn, rq, c)}

(* A connection that is over is free for another when nothing refers to it. *)
Swept(cn, rq) ==
  [c \in Conns |-> IF cn[c].st = "closed" /\ \A r \in Requests : rq[r].c # c THEN NoConn ELSE cn[c]]

Becomes(cn, rq) ==
  /\ conn' = Swept(cn, rq)
  /\ req' = rq
  /\ connections' = [a \in Addresses |-> Released(a, Cardinality(Dropped(cn, rq, a)))]

(* The connection's task ends: the handlers of its requests are dropped      *)
(* with it; those already in the channel are still there.                   *)
Abandoned(rq, cs) ==
  [r \in Requests |->
     IF rq[r].c \notin cs THEN rq[r]
     ELSE IF rq[r].st \in {"queued", "handling"} THEN [rq[r] EXCEPT !.waits = FALSE]
     ELSE NoReq]

Closed(cn, cs) == [c \in Conns |-> IF c \in cs THEN [cn[c] EXCEPT !.st = "closed"] ELSE cn[c]]

\* The message of a request is gone, with its reply sent or not.
Settled(rq, r, st) == [rq EXCEPT ![r] = IF rq[r].waits THEN [@ EXCEPT !.st = st] ELSE NoReq]

-----------------------------------------------------------------------------
ListenerInit ==
  /\ DdosInit
  /\ transport \in {"https", "tcp", "mem"}
  /\ protection = IF transport = "https" THEN "ipset" ELSE "mem"
  /\ state = "Created"
  /\ phase = "idle"
  /\ cancelled = FALSE
  /\ dispatching = TRUE
  /\ conn = [c \in Conns |-> NoConn]
  /\ req = [r \in Requests |-> NoReq]
  /\ queue = <<>>
  /\ left = [arrivals |-> MaxArrivals, asks |-> MaxAsks]

Listen ==
  /\ phase = "idle"
  /\ state = "Created"
  /\ state' = "Listening"
  /\ phase' = "accepting"
  /\ UNCHANGED <<ddosVars, transport, cancelled, dispatching, conn, req, queue, left>>

(* A connection reaches the socket, or a message the in-memory server;       *)
(* callers of the in-memory transport all have addresses of their own.      *)
Arrive(a, c) ==
  /\ left.arrivals > 0
  /\ phase \in {"idle", "accepting"}
  /\ firewall[a] = 0
  /\ conn[c].st = "free"
  /\ transport = "mem" => \A d \in Conns : conn[d].ip # a
  /\ conn' = [conn EXCEPT ![c] = [ip |-> a, st |-> "arrived"]]
  /\ left' = [left EXCEPT !.arrivals = @ - 1]
  /\ UNCHANGED <<ddosVars, transport, state, phase, cancelled, dispatching, req, queue>>

Permits == MaxConnections - Cardinality({c \in Conns : Live(conn, c)})

Admitted(c) ==
  /\ Acquires(conn[c].ip)
  /\ transport = "https" => Permits > 0

(* The guard is taken before the handshake.  Where the transport reads one   *)
(* request, the in-memory message is that request.                          *)
AcceptAdmitted(c) ==
  /\ Admitted(c)
  /\ connections' = [connections EXCEPT ![conn[c].ip] = @ + 1]
  /\ \/ /\ transport # "mem"
        /\ conn' = [conn EXCEPT ![c].st = IF transport = "https" THEN "tls" ELSE "open"]
        /\ UNCHANGED req
     \/ /\ transport = "mem"
        /\ conn' = [conn EXCEPT ![c].st = "awaiting"]
        /\ \E r \in Requests :
             /\ req[r].st = "free"
             /\ req' = [req EXCEPT ![r] = [c |-> c, st |-> "sending", waits |-> TRUE]]

AcceptRefused(c) ==
  /\ ~Admitted(c)
  /\ conn' = [conn EXCEPT ![c] = NoConn]
  /\ UNCHANGED <<connections, req>>

Accept(c) ==
  /\ phase = "accepting"
  /\ conn[c].st = "arrived"
  /\ AcceptAdmitted(c) \/ AcceptRefused(c)
  /\ LookUpScore(conn[c].ip)
  /\ UNCHANGED <<transport, state, phase, cancelled, dispatching, queue, left>>

Handshake(c) ==
  /\ conn[c].st = "tls"
  /\ conn' = [conn EXCEPT ![c].st = "open"]
  /\ UNCHANGED <<ddosVars, transport, state, phase, cancelled, dispatching, req, queue, left>>

\* An error in the handshake, or its time is up.
HandshakeFails(c) ==
  /\ conn[c].st = "tls"
  /\ ReportBadRequest(conn[c].ip)
  /\ Becomes(Closed(conn, {c}), req)
  /\ UNCHANGED <<transport, state, phase, cancelled, dispatching, queue, left>>

(* The peer hangs up, sends something unreadable, is too slow with a header  *)
(* or a frame, or (TCP) the server is cancelled while it waits for a frame.  *)
CloseConnection(c) ==
  /\ conn[c].st = "open"
  /\ Becomes(Closed(conn, {c}), Abandoned(req, {c}))
  /\ NoScore
  /\ UNCHANGED <<transport, state, phase, cancelled, dispatching, queue, left>>

-----------------------------------------------------------------------------
Asks(c) == conn[c].st = "open" /\ left.asks > 0 /\ firewall[conn[c].ip] = 0

Asked == left' = [left EXCEPT !.asks = @ - 1]

PostBlob(c, r) ==
  /\ transport = "https"
  /\ Asks(c)
  /\ req[r].st = "free"
  /\ req' = [req EXCEPT ![r] = IF AllowsRequest(conn[c].ip)
                                THEN [c |-> c, st |-> "sending", waits |-> TRUE] ELSE @]
  /\ AllowRequest(conn[c].ip)
  /\ Asked
  /\ UNCHANGED <<connections, transport, state, phase, cancelled, dispatching, conn, queue>>

UnhandledRoute(c) ==
  /\ transport = "https"
  /\ Asks(c)
  /\ ReportBadRequest(conn[c].ip)
  /\ Asked
  /\ UNCHANGED <<connections, transport, state, phase, cancelled, dispatching, conn, req, queue>>

ReadFrame(c, r) ==
  /\ transport = "tcp"
  /\ Asks(c)
  /\ req[r].st = "free"
  /\ conn' = [conn EXCEPT ![c].st = "awaiting"]
  /\ req' = [req EXCEPT ![r] = [c |-> c, st |-> "sending", waits |-> TRUE]]
  /\ Asked
  /\ UNCHANGED <<ddosVars, transport, state, phase, cancelled, dispatching, queue>>

Send(r) ==
  /\ req[r].st = "sending"
  /\ dispatching
  /\ Len(queue) < Capacity
  /\ queue' = Append(queue, r)
  /\ req' = [req EXCEPT ![r].st = "queued"]
  /\ UNCHANGED <<ddosVars, transport, state, phase, cancelled, dispatching, conn, left>>

(* HTTPS answers a request that was dropped with an error and reports it;    *)
(* the other transports end the connection either way.                      *)
Over(r) ==
  Becomes(IF transport = "https" THEN conn ELSE Closed(conn, {req[r].c}),
          [req EXCEPT ![r] = NoReq])

\* Mutant: nobody drops the receiving end, so a send waits instead of failing.
SendWaits(r) == FALSE

SendFails(r) ==
  /\ req[r].st = "sending"
  /\ ~dispatching
  /\ Over(r)
  /\ IF transport = "https" THEN ReportBadRequest(conn[req[r].c].ip) ELSE NoScore
  /\ UNCHANGED <<transport, state, phase, cancelled, dispatching, queue, left>>

Respond(r) ==
  /\ req[r].st = "replied"
  /\ Over(r)
  /\ NoScore
  /\ UNCHANGED <<transport, state, phase, cancelled, dispatching, queue, left>>

RespondBad(r) ==
  /\ req[r].st = "dropped"
  /\ Over(r)
  /\ IF transport = "https" THEN ReportBadRequest(conn[req[r].c].ip) ELSE NoScore
  /\ UNCHANGED <<transport, state, phase, cancelled, dispatching, queue, left>>

-----------------------------------------------------------------------------
Handling == {r \in Requests : req[r].st = "handling"}

Receive ==
  /\ dispatching
  /\ Handling = {}
  /\ queue # <<>>
  /\ req' = [req EXCEPT ![Head(queue)].st = "handling"]
  /\ queue' = Tail(queue)
  /\ UNCHANGED <<ddosVars, transport, state, phase, cancelled, dispatching, conn, left>>

(* The envelope was answered, was answered with an error response, or could  *)
(* not be decoded or is a replay: the last two are reported, and the last    *)
(* has no answer.                                                           *)
Dispatched(r, reply) ==
  /\ r \in Handling
  /\ Becomes(conn, Settled(req, r, reply))
  /\ UNCHANGED <<transport, state, phase, cancelled, dispatching, queue, left>>

DispatchOk(r) == Dispatched(r, "replied") /\ NoScore

DispatchError(r) == Dispatched(r, "replied") /\ ReportBadRequest(conn[req[r].c].ip)

DispatchUndecodable(r) == Dispatched(r, "dropped") /\ ReportBadRequest(conn[req[r].c].ip)

(* With the receiving end the messages in the channel go, and the reply of   *)
(* each with it.                                                            *)
Discarded(rq) ==
  [r \in Requests |-> IF rq[r].st \notin {"queued", "handling"} THEN rq[r]
                      ELSE IF rq[r].waits THEN [rq[r] EXCEPT !.st = "dropped"] ELSE NoReq]

StopDispatching ==
  /\ dispatching
  /\ cancelled
  /\ Handling = {}
  /\ dispatching' = FALSE
  /\ queue' = <<>>
  /\ Becomes(conn, Discarded(req))
  /\ NoScore
  /\ UNCHANGED <<transport, state, phase, cancelled, left>>

-----------------------------------------------------------------------------
Cancel ==
  /\ ~cancelled
  /\ cancelled' = TRUE
  /\ UNCHANGED <<ddosVars, transport, state, phase, dispatching, conn, req, queue, left>>

Unaccepted(cn) == [c \in Conns |-> IF cn[c].st = "arrived" THEN NoConn ELSE cn[c]]

StopAccepting ==
  /\ phase = "accepting"
  /\ cancelled
  /\ phase' = "draining"
  /\ conn' = Unaccepted(conn)
  /\ UNCHANGED <<ddosVars, transport, state, cancelled, dispatching, req, queue, left>>

LiveConns == {c \in Conns : Live(conn, c)}

Drained ==
  /\ phase = "draining"
  /\ LiveConns = {}
  /\ phase' = "stopped"
  /\ state' = "Shutdown"
  /\ UNCHANGED <<ddosVars, transport, cancelled, dispatching, conn, req, queue, left>>

\* Mutant: the connections that are still open are awaited without a deadline.
NoDeadline == FALSE

\* HTTPS_SERVER_TRANSPORT_SHUTDOWN_TIMEOUT_SECS are over: the rest is aborted.
ShutdownDeadline ==
  /\ phase = "draining"
  /\ transport = "https"
  /\ phase' = "stopped"
  /\ state' = "Shutdown"
  /\ Becomes(Closed(conn, LiveConns), Abandoned(req, LiveConns))
  /\ NoScore
  /\ UNCHANGED <<transport, cancelled, dispatching, queue, left>>

(* One of the tasks of `run' fails (the certificates cannot be loaded, or    *)
(* the maintenance of the environment): the others are dropped where they    *)
(* are.  The connections of HTTPS are dropped with them, the detached tasks   *)
(* of the other transports are not.                                         *)
RunFails ==
  /\ phase \in {"idle", "accepting"}
  /\ ~cancelled
  /\ phase' = "stopped"
  /\ state' = "Listening"
  /\ dispatching' = FALSE
  /\ queue' = <<>>
  /\ LET ended == IF transport = "https" THEN LiveConns ELSE {}
     IN Becomes(Unaccepted(Closed(conn, ended)), Discarded(Abandoned(req, ended)))
  /\ NoScore
  /\ UNCHANGED <<transport, cancelled, left>>

SecondPasses == ~Quiet /\ Second /\ UNCHANGED listenVars

BanAdded(a) == IpsetAdd(a) /\ UNCHANGED listenVars

\* Nothing is left to do: the process is about to exit.
AtRest == cancelled /\ Quiet /\ UNCHANGED frontVars

ListenerNext ==
  \/ Listen \/ Cancel \/ StopAccepting \/ Drained \/ ShutdownDeadline \/ RunFails
  \/ Receive \/ StopDispatching \/ SecondPasses \/ AtRest
  \/ \E c \in Conns :
       \/ \E a \in Addresses : Arrive(a, c)
       \/ Accept(c) \/ Handshake(c) \/ HandshakeFails(c) \/ CloseConnection(c)
       \/ UnhandledRoute(c)
       \/ \E r \in Requests : PostBlob(c, r) \/ ReadFrame(c, r)
  \/ \E r \in Requests :
       \/ Send(r) \/ SendFails(r) \/ Respond(r) \/ RespondBad(r)
       \/ DispatchOk(r) \/ DispatchError(r) \/ DispatchUndecodable(r)
  \/ \E a \in Addresses : BanAdded(a)

(* The runtime runs every task that is ready, timers fire and the clock      *)
(* goes on.  Nothing is assumed of the peers: an HTTPS connection may stay   *)
(* open for as long as they like.                                           *)
ListenerFairness ==
  /\ WF_frontVars(Listen \/ StopAccepting \/ Drained \/ ShutdownDeadline)
  /\ WF_frontVars(Receive \/ StopDispatching)
  /\ WF_frontVars(SecondPasses)
  /\ \A c \in Conns :
       WF_frontVars(Accept(c) \/ Handshake(c) \/ HandshakeFails(c) \/ (transport = "tcp" /\ CloseConnection(c)))
  /\ \A r \in Requests :
       WF_frontVars(Send(r) \/ SendFails(r) \/ Respond(r) \/ RespondBad(r)
                      \/ DispatchOk(r) \/ DispatchError(r) \/ DispatchUndecodable(r))
  /\ \A a \in Addresses : WF_frontVars(BanAdded(a))

ListenerSpec == ListenerInit /\ [][ListenerNext]_frontVars /\ ListenerFairness

-----------------------------------------------------------------------------
ListenerTypeOK ==
  /\ DdosTypeOK
  /\ transport \in {"https", "tcp", "mem"}
  /\ state \in {"Created", "Listening", "Shutdown"}
  /\ phase \in {"idle", "accepting", "draining", "stopped"}
  /\ cancelled \in BOOLEAN /\ dispatching \in BOOLEAN
  /\ conn \in [Conns -> Connection]
  /\ req \in [Requests -> Request]
  /\ queue \in Seq(Requests)
  /\ Range(queue) = {r \in Requests : req[r].st = "queued"} /\ Len(queue) <= Capacity

(* Whatever peers do, an address never has more HTTPS connections served     *)
(* than its cap, nor requests of more connections than that in the server:   *)
(* a connection that was closed with a request in the channel still counts.  *)
ConnectionCap ==
  \A a \in Addresses :
    /\ transport = "https" =>
         Cardinality({c \in Conns : conn[c].ip = a /\ Live(conn, c)}) <= MaxConnectionsPerIp
    /\ Cardinality({req[r].c : r \in {q \in Requests :
         req[q].st \in {"queued", "handling"} /\ conn[req[q].c].ip = a}}) <= MaxConnectionsPerIp

(* The next four speak of a server that is left alone: a behaviour makes     *)
(* finitely many connections and requests, and what they leave behind goes.  *)

(* Every request that a transport took is answered, refused, or given up     *)
(* with its connection, also when the server stops with it in the channel.   *)
RequestsEnd == []<>(\A r \in Requests : req[r].st = "free")

(* Slots come back: when no connection of an address is left, what is        *)
(* counted for it returns to nothing.                                       *)
SlotsReturn ==
  []<>(\A a \in Addresses : (\A c \in Conns : conn[c].ip = a => ~Live(conn, c)) => connections[a] = 0)

(* A cancelled server stops listening, also with idle connections open.      *)
CancelStops == []<>(cancelled => phase = "stopped")

(* No ban is for ever: an address is let in again once its score has decayed *)
(* and the firewall has forgotten it.                                       *)
BansEnd == []<>(\A a \in Addresses : Welcome(a))

\* The connections of an address that live, and the slots that its requests still hold,
\* stay within the caps, and the guard's counts stay numbers that were acquired.
ListenerInv == ListenerTypeOK /\ ConnectionCap

\* Nothing waits for ever at the front of a server: a request is answered or given up, a
\* slot comes back, a cancelled server stops although tasks wait on each other, and a ban
\* of the score or of the firewall ends.
NothingWaitsForEver == RequestsEnd /\ SlotsReturn /\ CancelStops /\ BansEnd
=============================================================================
