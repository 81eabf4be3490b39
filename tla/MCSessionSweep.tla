---------------------------- MODULE MCSessionSweep ----------------------------
(* A small instance of SessionSweep for TLC: a key is granted, revoked with  *)
(* every other key of its account two blocks later, and a later block leaves *)
(* a row in calls.                                                           *)
EXTENDS SessionSweep

MCSessionTxs == {<<1, 1>>, <<3, 1>>, <<4, 1>>}
MCWhat == [x \in MCSessionTxs |->
             CASE x[1] = 1 -> "create" [] x[1] = 3 -> "revoke_all" [] OTHER -> "plain"]
MCKeyOf == [x \in MCSessionTxs |-> "k1"]
MCMasterOf == [k \in {"k1"} |-> "m"]
=============================================================================
