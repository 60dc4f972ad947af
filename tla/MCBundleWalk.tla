----------------------------- MODULE MCBundleWalk -----------------------------
EXTENDS BundleWalk

\* One peer near the location and the others equally far.
MCAgreement == <<2, 0, 0>>

\* For the walk, one caller and all servers; for the locks and the ages, all callers
\* and one server.
MCWorld == {[callers |-> {CHOOSE c \in Caller : TRUE}, servers |-> Peer, seeds |-> {2},
             until |-> 0],
            [callers |-> Caller, servers |-> {1}, seeds |-> {1},
             until |-> MaxTime]}
==============================================================================
