------------------------------ MODULE MCCodecs ------------------------------
(***************************************************************************)
(* Eight independent parts in one run: the request envelope, the packets,   *)
(* identities and tokens, the server's services, the bytes of posts, the    *)
(* handles of the bindings, and the two kinds of storage.  A behaviour      *)
(* chooses one part at its start and only that part moves.                  *)
(***************************************************************************)
EXTENDS Envelope, Wire, Credentials, Services, PostBytes, Sessions, StorageBackends, EnvironmentStores

VARIABLE part    \* the part that moves

Parts == {"envelope", "wire", "credentials", "services", "bytes", "sessions", "storage", "stores"}

codecVars ==
  <<part, envelopeVars, wireVars, credentialsVars, servicesVars, postBytesVars, sessionVars, storageVars, storeVars>>

MCInit ==
  /\ part \in Parts
  /\ EnvelopeInit /\ WireInit /\ CredentialsInit /\ ServicesInit
  /\ PostBytesInit /\ SessionsInit /\ StorageInit /\ EnvironmentStoresInit

Others(p) ==
  /\ part = p
  /\ UNCHANGED part
  /\ p # "envelope" => UNCHANGED envelopeVars
  /\ p # "wire" => UNCHANGED wireVars
  /\ p # "credentials" => UNCHANGED credentialsVars
  /\ p # "services" => UNCHANGED servicesVars
  /\ p # "bytes" => UNCHANGED postBytesVars
  /\ p # "sessions" => UNCHANGED sessionVars
  /\ p # "storage" => UNCHANGED storageVars
  /\ p # "stores" => UNCHANGED storeVars

MCNext ==
  \/ Others("envelope") /\ EnvelopeNext
  \/ Others("wire") /\ WireNext
  \/ Others("credentials") /\ CredentialsNext
  \/ Others("services") /\ ServicesNext
  \/ Others("bytes") /\ PostBytesNext
  \/ Others("sessions") /\ SessionsNext
  \/ Others("storage") /\ StorageNext
  \/ Others("stores") /\ EnvironmentStoresNext

MCSpec == MCInit /\ [][MCNext]_codecVars

---------------------------------------------------------------------------
\* Clocks of clients: behind and ahead.
MCSkews == {-1, 1}

MCBlobs == {<<>>, <<7>>, <<1, 1>>}

MCEntries == {[post_id |-> 1, feedback_type |-> 1, salt |-> 1, pow |-> 1], [post_id |-> 2, feedback_type |-> 2, salt |-> 1, pow |-> 2]}

MCWorth == [p \in Holders \X Inputs |-> IF p \in {<<"s1", "i1">>, <<"s2", "i2">>} THEN 2 ELSE 1]

MCFallback == <<"hashiverse", "news">>

MCLowered == [t \in Tags \cup {"hashiverse", "news"} |-> IF t = "News" THEN "news" ELSE t]

MCTexts == {<<"a">>, <<"a", "b">>}

MCTagId == [t \in TagArgs |-> "h_news"]

MCBucketTrims == [b \in Buckets |-> IF b = "peer" THEN 1 ELSE 0]

MCBundleIds == {<<16, 1>>, <<200, 3>>}

MCFeedbackValues == {[salt |-> 1, pow |-> 1], [salt |-> 2, pow |-> 2]}
=============================================================================
