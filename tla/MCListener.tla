----------------------------- MODULE MCListener -----------------------------
(***************************************************************************)
(* Two addresses, two connections and two requests in the server; and,      *)
(* instead of them, one of four machines that stand beside it: its read     *)
(* cache, the searches for proof of work, the virtual clock and the         *)
(* certificate refresher.  A behaviour chooses one of the five at its start *)
(* and only that one moves.                                                 *)
(***************************************************************************)
EXTENDS Listener, PostBundleCache, PowJobs, ManualTime, Certificates, TLC

VARIABLE part    \* the machine that moves

mcVars == <<part, frontVars, cacheVars, powVars, clockVars, certVars>>

MCInit ==
  /\ part \in {"front", "cache", "pow", "clock", "certs"}
  /\ ListenerInit /\ CacheInit /\ PowJobsInit /\ ManualTimeInit /\ CertificatesInit
  \* A machine that does not move has one initial state.
  /\ part # "front" => transport = "mem"
  /\ part # "pow" => backend = "native"
  /\ part # "certs" => renews

Only(p) ==
  /\ part = p
  /\ UNCHANGED part
  /\ p # "front" => UNCHANGED frontVars
  /\ p # "cache" => UNCHANGED cacheVars
  /\ p # "pow" => UNCHANGED powVars
  /\ p # "clock" => UNCHANGED clockVars
  /\ p # "certs" => UNCHANGED certVars

MCNext ==
  \/ Only("front") /\ ListenerNext
  \/ Only("cache") /\ CacheNext
  \/ Only("pow") /\ PowJobsNext
  \/ Only("clock") /\ ManualTimeNext
  \/ Only("certs") /\ (CertificatesNext \/ UNCHANGED certVars)

\* The fairness of each machine, for the behaviours in which it moves.
MCFairness ==
  /\ WF_mcVars(Only("front") /\ (Listen \/ StopAccepting \/ Drained \/ ShutdownDeadline))
  /\ WF_mcVars(Only("front") /\ (Receive \/ StopDispatching))
  /\ WF_mcVars(Only("front") /\ SecondPasses)
  /\ \A c \in Conns :
       WF_mcVars(Only("front") /\ (Accept(c) \/ Handshake(c) \/ HandshakeFails(c) \/ (transport = "tcp" /\ CloseConnection(c))))
  /\ \A r \in Requests :
       WF_mcVars(Only("front") /\ (Send(r) \/ SendFails(r) \/ Respond(r) \/ RespondBad(r)
                                     \/ DispatchOk(r) \/ DispatchError(r) \/ DispatchUndecodable(r)))
  /\ \A a \in Addresses : WF_mcVars(Only("front") /\ BanAdded(a))
  /\ \A s \in Slots : WF_mcVars(Only("pow") /\ SlotStep(s))
  /\ WF_mcVars(Only("clock") /\ DriverStep)
  /\ \A s \in Sleepers : WF_mcVars(Only("clock") /\ SleeperStep(s))
  /\ WF_mcVars(Only("certs") /\ CertStep)

MCSpec == MCInit /\ [][MCNext]_mcVars /\ MCFairness

---------------------------------------------------------------------------
\* One search with a cap of three chunks, one without.
MCIterationCap == "j1" :> 5 @@ "j2" :> 0

\* Higher originators are nearer to location 1; at location 2 all are equally far.
MCAgreement == [l \in Location |-> [o \in Originator |-> IF l = 1 THEN o ELSE 0]]
=============================================================================
