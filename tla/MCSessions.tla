----------------------------- MODULE MCSessions -----------------------------
(* One account and the guest, two handles, calls that overlap in pairs.      *)
EXTENDS Sessions

MCTagId == [t \in TagArgs |-> "h_news"]
=============================================================================
