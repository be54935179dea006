------------------------------ MODULE Genesis ------------------------------
(***************************************************************************)
(* x/schedule across a restart of the chain from an exported genesis: the  *)
(* node is stopped after a commit, its state exported at that height       *)
(* (app/export.go), and a new chain initialized from the file              *)
(* (app.InitChainer).  The other modules, which export what they hold, are *)
(* outside: the contracts keep their balances and owners.                  *)
(***************************************************************************)
EXTENDS Schedule

\* The genesis state of x/schedule that ExportGenesis fills: DefaultGenesis()
\* with the parameters replaced.
ExportGenesis == [Params |-> params, ScheduledCalls |-> {}]

\* GenesisState.Validate: a scheduled call of the file is a MsgAddSchedule.
Validate(genState) ==
    /\ genState.Params \in ValidParams
    /\ \A call \in genState.ScheduledCalls : ValidateBasic(call.CallBody)

\* InitGenesis on the empty store of a new chain.
InitGenesis(genState) ==
    /\ params' = genState.Params
    /\ store' = EmptyStore

\* app.InitChainer: a new chain, whose first block follows the last block of
\* the old one.
InitChainer(genState) ==
    /\ InitGenesis(genState)
    /\ height' = height + 1
    /\ phase' = "deliver"
    /\ fee' = 0
    /\ used' = 0
    /\ UNCHANGED <<todo, bal, owners>>

\* ExportAppStateAndValidators, not for zero height, after the block is
\* committed; the operator validates the file and starts the new chain.
Restart ==
    /\ phase = "end" /\ todo = {}
    /\ height < MaxHeight
    /\ Validate(ExportGenesis)
    /\ InitChainer(ExportGenesis)

RestartNext == Next \/ Restart

RestartSpec == Init /\ [][RestartNext]_vars

----------------------------------------------------------------------------
(* Properties.                                                             *)

\* From one block to the next no call is lost, whether the chain goes on or is
\* restarted: a genesis state holds the scheduled calls (genesis.proto), and
\* InitGenesis initializes the module's state from it.
CallsSurvive ==
    [][height' > height => DOMAIN store.byHeight \subseteq DOMAIN store'.byHeight]_vars

=============================================================================
