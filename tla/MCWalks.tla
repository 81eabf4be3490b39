------------------------------- MODULE MCWalks -------------------------------
(* The walks of SyncAll over small chains. *)
EXTENDS Walks

-----------------------------------------------------------------------------
(* An operator who may decline blocks (-1), ask for all of them (0), or for  *)
(* one of two depths.                                                        *)
MCDays == {-1, 0, 1, 2}

(* Genesis, a mixed block, a block that leaves no row, a block with a failed *)
(* transfer, and a block of a send and a call.                               *)
MCTxs == {<<0, 1>>, <<1, 1>>, <<1, 2>>, <<2, 1>>, <<2, 2>>,
          <<3, 1>>, <<3, 2>>, <<4, 1>>}
MCKind == [x \in MCTxs |->
             IF x[1] = 2 THEN "other"
             ELSE IF x \in {<<1, 2>>, <<3, 1>>} THEN "call" ELSE "send"]
MCSucceeded == MCTxs \ {<<3, 1>>}

(* Two keys of one account: granted, revoked together, granted again, used   *)
(* and revoked alone.                                                        *)
MCSessionTxs == {<<1, 1>>, <<2, 1>>, <<2, 2>>, <<3, 1>>, <<3, 2>>, <<3, 3>>}
MCWhat == [x \in MCSessionTxs |->
             CASE x = <<2, 1>> -> "revoke_all"
               [] x = <<3, 3>> -> "revoke"
               [] x = <<3, 1>> -> "plain"
               [] OTHER        -> "create"]
MCKeyOf == [x \in MCSessionTxs |-> IF x[1] = 3 THEN "k2" ELSE "k1"]
MCMasterOf == [k \in {"k1", "k2"} |-> "m"]

(* A coin in genesis, two in one block, and blocks that move a coin without  *)
(* leaving a call or a send.                                                 *)
MCCoinTxs == {<<0, 1>>, <<1, 1>>, <<2, 1>>, <<2, 2>>, <<3, 1>>}
MCRowed == {<<0, 1>>, <<2, 1>>}

(* Two users of genesis; one takes a second and a third name and returns to  *)
(* the second, the other is deleted.                                         *)
Event(h, k, n, a) == [at |-> h, kind |-> k, name |-> n, address |-> a]
MCUserEvents ==
  <<Event(0, "Registered", "n1", "a1"), Event(0, "Registered", "n2", "a2"),
    Event(1, "Updated", "n3", "a1"), Event(2, "Deleted", "", "a2"),
    Event(2, "Updated", "n4", "a1"), Event(3, "Updated", "n3", "a1")>>
=============================================================================
