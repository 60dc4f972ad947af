--------------------------- MODULE ReplicatedPosts ----------------------------
(***************************************************************************)
(* What the servers of a location promise together: each stores a set of   *)
(* posts; a post enters the system only at a server that admitted it;      *)
(* other servers may receive copies of posts that entered; a server may    *)
(* lose its whole set, and loses posts in no other way.                    *)
(***************************************************************************)
CONSTANTS Server, Post

VARIABLES claimed, stored, accepted

vars == <<claimed, stored, accepted>>

Init ==
    /\ claimed = {}
    /\ stored = [s \in Server |-> {}]
    /\ accepted = {}

Admit(s, p) ==
    /\ claimed' = claimed \cup {<<s, p>>}
    /\ UNCHANGED <<stored, accepted>>

Accept(s, p) ==
    /\ <<s, p>> \in claimed
    /\ p \notin stored[s]
    /\ stored' = [stored EXCEPT ![s] = @ \cup {p}]
    /\ accepted' = accepted \cup {p}
    /\ UNCHANGED claimed

Copy(s, posts) ==
    /\ posts \subseteq accepted
    /\ stored' = [stored EXCEPT ![s] = @ \cup posts]
    /\ UNCHANGED <<claimed, accepted>>

Lose(s) ==
    /\ stored' = [stored EXCEPT ![s] = {}]
    /\ UNCHANGED <<claimed, accepted>>

Next ==
    \/ \E s \in Server, p \in Post : Admit(s, p) \/ Accept(s, p)
    \/ \E s \in Server, posts \in SUBSET Post : Copy(s, posts)
    \/ \E s \in Server : Lose(s)

Spec == Init /\ [][Next]_vars
=============================================================================
