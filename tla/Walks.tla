-------------------------------- MODULE Walks --------------------------------
(***************************************************************************)
(* The walks of SyncAll: block sync, the reset check with the cursors it   *)
(* resets, and the six walks over transactions and old rows. Each owns its *)
(* tables, its cursors and its steps, so a behaviour takes one walk and    *)
(* leaves the others alone: what is checked of a walk is what its own      *)
(* specification would give.                                               *)
(***************************************************************************)
EXTENDS BlockSync, ChainReset,
        TxSync, TokenLedger, SessionSweep, CoinBackfill, UserRegistry, HistoryRepair

VARIABLE walk  \* the walk of this behaviour

WalkNames == {"blocks", "reset", "transactions", "tokens", "sessions", "coins",
              "users", "repairs"}

walksVars == <<walk, blockVars, chainVars, txVars, ledgerVars, sessionVars, coinVars,
               userVars, repairVars>>

-----------------------------------------------------------------------------
\* A walk that is not taken stays where one of its initial states put it.
Untaken(w, at) == walk = w \/ at

WalksInit ==
  /\ walk \in WalkNames
  /\ BlockInit /\ Untaken("blocks", blockTip = 0 /\ \A d \in DaysChoices : days <= d)
  /\ ChainInit /\ Untaken("reset", chainTip = 0)
  /\ TxInit /\ Untaken("transactions", txTip = 0)
  /\ LedgerInit /\ Untaken("tokens", ledgerTip = 0)
  /\ SessionInit /\ Untaken("sessions", top = 0)
  /\ CoinInit /\ Untaken("coins", coinTop = 1 /\ coinBehind = 1 /\ coinRows = {})
  /\ UserInit /\ Untaken("users", userTip = 0)
  /\ RepairInit /\ Untaken("repairs", repairSlow = RepairHeight /\ gas = {})

OnlyBlocks ==
  /\ walk = "blocks"
  /\ UNCHANGED <<chainVars, txVars, ledgerVars, sessionVars,
                 coinVars, userVars, repairVars>>
OnlyReset ==
  /\ walk = "reset"
  /\ UNCHANGED <<blockVars, txVars, ledgerVars, sessionVars,
                 coinVars, userVars, repairVars>>
OnlyTx ==
  /\ walk = "transactions"
  /\ UNCHANGED <<blockVars, chainVars, ledgerVars, sessionVars,
                 coinVars, userVars, repairVars>>
OnlyLedger ==
  /\ walk = "tokens"
  /\ UNCHANGED <<blockVars, chainVars, txVars, sessionVars,
                 coinVars, userVars, repairVars>>
OnlySessions ==
  /\ walk = "sessions"
  /\ UNCHANGED <<blockVars, chainVars, txVars, ledgerVars,
                 coinVars, userVars, repairVars>>
OnlyCoins ==
  /\ walk = "coins"
  /\ UNCHANGED <<blockVars, chainVars, txVars, ledgerVars,
                 sessionVars, userVars, repairVars>>
OnlyUsers ==
  /\ walk = "users"
  /\ UNCHANGED <<blockVars, chainVars, txVars, ledgerVars,
                 sessionVars, coinVars, repairVars>>
OnlyRepairs ==
  /\ walk = "repairs"
  /\ UNCHANGED <<blockVars, chainVars, txVars, ledgerVars,
                 sessionVars, coinVars, userVars>>

WalksNext ==
  /\ UNCHANGED walk
  /\ \/ OnlyBlocks /\ BlockNext
     \/ OnlyReset /\ ChainNext
     \/ OnlyTx /\ TxNext
     \/ OnlyLedger /\ LedgerNext
     \/ OnlySessions /\ SessionNext
     \/ OnlyCoins /\ CoinNextStep
     \/ OnlyUsers /\ UserNext
     \/ OnlyRepairs /\ RepairNext

WalksFairness ==
  /\ WF_blockVars(walk = "blocks" /\ BlockPass) /\ WF_blockVars(walk = "blocks" /\ BlockCatchUp)
  /\ WF_chainVars(walk = "reset" /\ ChainPass) /\ WF_chainVars(walk = "reset" /\ ChainCatchUp)
  /\ WF_txVars(walk = "transactions" /\ TxPass) /\ WF_txVars(walk = "transactions" /\ TxCatchUp)
  /\ WF_ledgerVars(walk = "tokens" /\ LedgerPass) /\ WF_ledgerVars(walk = "tokens" /\ LedgerCatchUp)
  /\ WF_sessionVars(walk = "sessions" /\ SweepPass) /\ WF_sessionVars(walk = "sessions" /\ SweepCatchUp)
  /\ WF_coinVars(walk = "coins" /\ CoinPass) /\ WF_coinVars(walk = "coins" /\ CoinCatchUp)
  /\ WF_userVars(walk = "users" /\ UserPass) /\ WF_userVars(walk = "users" /\ UserCatchUp)
  /\ WF_repairVars(walk = "repairs" /\ RepairPass) /\ WF_repairVars(walk = "repairs" /\ RepairCatchUp)

WalksSpec == WalksInit /\ [][WalksNext]_walksVars /\ WalksFairness

-----------------------------------------------------------------------------
\* The types of the six walks that BlockTypeOK and ChainTypeOK leave.
WalksTypeOK ==
  TxTypeOK /\ LedgerTypeOK /\ SessionTypeOK /\ CoinTypeOK /\ UserTypeOK /\ RepairTypeOK

\* The four walks over old history keep one promise, though two go up and two
\* down, and each breaks off and resumes in a way of its own: rows stay, cursors
\* never go back, and what a cursor has passed is recorded or excused.
BackfillsKeepPromise ==
  LedgerKeepsPromise /\ SweepKeepsPromise /\ CoinsKeepPromise /\ ArgsKeepPromise

\* When the failures end, whichever walk of SyncAll is taken gets through its
\* work and stays there: nothing is asked for again every 30 seconds, and no
\* failure halfway leaves a batch that is never taken up. The registry alone is
\* replayed again in every pass, and comes to what the chain says each time.
WalksSettle ==
  /\ <>[](/\ walk = "transactions" => TxSettled
          /\ walk = "tokens" => WalkEnded
          /\ walk = "sessions" => SweepEnded
          /\ walk = "coins" => CoinsEnded
          /\ walk = "repairs" => RepairsClosed)
  /\ []<>(walk = "users" => UsersCaughtUp)
=============================================================================
