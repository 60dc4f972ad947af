-------------------------- MODULE ReplicatedFeedback --------------------------
(***************************************************************************)
(* What the servers of a location promise about feedback: for every post   *)
(* and feedback type each server keeps the strongest proof of work it was  *)
(* given, only proofs that some client submitted are ever kept, and a      *)
(* proof is replaced only by a stronger one or deleted with the bundle.    *)
(***************************************************************************)
EXTENDS Integers

CONSTANTS Server, Key, Pow

VARIABLES submitted, strongest

vars == <<submitted, strongest>>

Init ==
    /\ submitted = {}
    /\ strongest = [s \in Server |-> [k \in Key |-> 0]]

Submit(k, pow) ==
    /\ submitted' = submitted \cup {<<k, pow>>}
    /\ UNCHANGED strongest

Raise(s, k, pow) ==
    /\ <<k, pow>> \in submitted
    /\ pow > strongest[s][k]
    /\ strongest' = [strongest EXCEPT ![s][k] = pow]
    /\ UNCHANGED submitted

Delete(s, keys) ==
    /\ strongest' = [strongest EXCEPT ![s] =
                        [k \in Key |-> IF k \in keys THEN 0 ELSE @[k]]]
    /\ UNCHANGED submitted

Next ==
    \/ \E k \in Key : \E pow \in Pow : Submit(k, pow)
    \/ \E s \in Server, k \in Key : \E pow \in Pow : Raise(s, k, pow)
    \/ \E s \in Server, keys \in SUBSET Key : Delete(s, keys)

Spec == Init /\ [][Next]_vars
=============================================================================
