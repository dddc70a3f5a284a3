---------------------------- MODULE AgentRuntime ----------------------------
(***************************************************************************)
(* The agents' side of one server process: its wallets, which a restart    *)
(* finds on disk, and the yield agent, which starts anew with every        *)
(* process while the capital it has sent stays where it went.              *)
(***************************************************************************)
EXTENDS WalletService, YieldOptimizer

runtimeVars == <<walletVars, yieldVars>>

RuntimeInit == WalletInit /\ YieldInit

\* A start that fails, and a crash, end the process.
Stops == Crash \/ (server = "starting" /\ \E r \in Requests : CreationFails(r))

\* createServices and what the wallets do while it runs.
WalletsStep ==
    /\ Restore \/ Listen \/ \E r \in Requests : CreationStep(r)
    /\ server' # "down"
    /\ UNCHANGED yieldVars

YieldStep ==
    /\ server = "up"
    /\ YieldNext
    /\ UNCHANGED walletVars

RuntimeNext == WalletsStep \/ YieldStep \/ (Stops /\ ForgetYield)

RuntimeSpec == RuntimeInit /\ [][RuntimeNext]_runtimeVars

=============================================================================
