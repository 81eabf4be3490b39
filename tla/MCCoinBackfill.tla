---------------------------- MODULE MCCoinBackfill ----------------------------
(* The coin walk of a database older than the coin ledger. *)
EXTENDS CoinBackfill

-----------------------------------------------------------------------------
(* A coin in genesis, two in one block, and blocks that move a coin without  *)
(* leaving a call or a send.                                                 *)
MCCoinTxs == {<<0, 1>>, <<1, 1>>, <<2, 1>>, <<2, 2>>, <<3, 1>>, <<4, 1>>}
MCRowed == {<<0, 1>>, <<2, 1>>, <<4, 1>>}
=============================================================================
