------------------------------ MODULE MCKademlia ------------------------------
(***************************************************************************)
(* Ids of three bits: three peers share the first bucket, which has room   *)
(* for two; the server itself is in the last one.                          *)
(***************************************************************************)
EXTENDS Kademlia

\* The ids are 000, 001, 010, 100, 101 and 110.
MCAgreement ==
    << <<3, 2, 1, 0, 0, 0>>,
       <<2, 3, 1, 0, 0, 0>>,
       <<1, 1, 3, 0, 0, 0>>,
       <<0, 0, 0, 3, 2, 1>>,
       <<0, 0, 0, 2, 3, 1>>,
       <<0, 0, 0, 1, 1, 3>> >>

\* The first proof of work loses against the second as time goes by.
MCScore == << <<3, 1, 1>>, <<2, 2, 2>> >>

MCScoreAt == [p \in Pow |-> [t \in Time |-> MCScore[p][t + 1]]]

MCOtherRecord ==
    {[id |-> i, pow |-> p, stamp |-> 0] :
        <<i, p>> \in {<<4, 1>>, <<4, 2>>, <<5, 1>>, <<6, 2>>}}
=============================================================================
