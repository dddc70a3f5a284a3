---------------------------- MODULE WalletService ----------------------------
(***************************************************************************)
(* The wallets of the agents (wdk-service/src/walletService.js) and how the*)
(* server starts with them (createServices of mcpServer.js).  A creation   *)
(* awaits the derivation of the address, the directory and the file;       *)
(* creations overlap, any of them may fail, and the process may stop       *)
(* between any two steps.  The file is written in place: it is cut to      *)
(* nothing first, and two writes that overlap each start at its beginning. *)
(*                                                                         *)
(* An address stands for the seed it is derived from.  The encryption of   *)
(* the seeds in the file, with a key of the environment, is left out; so   *)
(* are the transfers, which change nothing here but the hourly count of an *)
(* agent.                                                                  *)
(***************************************************************************)
EXTENDS Integers, FiniteSets

CONSTANTS
    AgentIds,       \* agent ids that wallets are asked for
    Defaults,       \* DEFAULT_AGENT_META: created by the server when it starts
    Seeds,          \* bound: the seeds that are drawn; none is drawn twice
    NoSeed,
    Requests        \* creations that may be under way

ASSUME WalletAssumption ==
    /\ Defaults \subseteq AgentIds
    /\ IsFiniteSet(AgentIds) /\ IsFiniteSet(Seeds)
    /\ NoSeed \notin Seeds

VARIABLES
    server,         \* "down", "starting" (createServices) or "up"
    agents,         \* #agents: the seed each agent's account is derived from
    seeds,          \* #seeds
    creation,       \* the creations under way
    file,           \* wallets.json
    told,           \* history: the addresses that callers were told
    drawn,          \* history: the seeds drawn
    mishap          \* history: creations of one agent or writes overlapped, or
                    \* the file could not be read

memory == <<agents, seeds, creation>>
history == <<told, drawn, mishap>>
walletVars == <<server, memory, file, history>>

Wallets == [AgentIds -> Seeds \cup {NoSeed}]
NoWallets == [id \in AgentIds |-> NoSeed]
Size(wallets) == Cardinality({id \in AgentIds : wallets[id] # NoSeed})

\* A file that is not whole is not JSON.
NoFile == [exists |-> FALSE, whole |-> FALSE, length |-> 0, wallets |-> NoWallets]
Cut == [exists |-> TRUE, whole |-> FALSE, length |-> 0, wallets |-> NoWallets]

Idle == [at |-> "idle"]

WalletInit ==
    /\ server = "down"
    /\ agents = NoWallets /\ seeds = NoWallets
    /\ creation = [r \in Requests |-> Idle]
    /\ file = NoFile
    /\ told = [id \in AgentIds |-> {}]
    /\ drawn = {} /\ mishap = FALSE

-----------------------------------------------------------------------------
(* The life of the server.                                                  *)

\* Variant: a file that is not JSON is taken for none.
RestoreAnyway ==
    /\ server = "down"
    /\ \/ /\ file.exists /\ file.whole
          /\ agents' = file.wallets /\ seeds' = file.wallets
       \/ /\ ~file.whole
          /\ UNCHANGED <<agents, seeds>>
    /\ server' = "starting"
    /\ UNCHANGED <<creation, file, history>>

\* restorePersistedWallets: the wallets of the file, or none when there is no
\* file or it cannot be read.  A file that is there and is not JSON stops the
\* start, and so does an entry that cannot be restored: the server stays down.
Restore ==
    /\ server = "down"
    /\ \/ /\ file.exists /\ file.whole
          /\ agents' = file.wallets /\ seeds' = file.wallets
          /\ UNCHANGED mishap
       \/ /\ ~file.exists
          /\ UNCHANGED <<agents, seeds, mishap>>
       \/ /\ file.exists
          /\ mishap' = TRUE
          /\ UNCHANGED <<agents, seeds>>
    /\ server' = "starting"
    /\ UNCHANGED <<creation, file, told, drawn>>

\* Every default agent has its wallet.
Listen ==
    /\ server = "starting"
    /\ \A r \in Requests : creation[r] = Idle
    /\ \A id \in Defaults : agents[id] # NoSeed
    /\ server' = "up"
    /\ UNCHANGED <<memory, file, history>>

Forget ==
    /\ agents' = NoWallets /\ seeds' = NoWallets
    /\ creation' = [r \in Requests |-> Idle]

\* The process stops, wherever it is; a write it was at stays as it is.
Crash ==
    /\ server # "down"
    /\ server' = "down"
    /\ Forget
    /\ UNCHANGED <<file, history>>

-----------------------------------------------------------------------------
(* createAgentWallet.                                                       *)

Creating(id) == \E r \in Requests : creation[r] # Idle /\ creation[r].id = id

\* Variant: an agent that has a wallet is given another.
CreateAgain(r, id) ==
    /\ creation[r] = Idle
    /\ \/ server = "up"
       \/ /\ server = "starting" /\ id \in Defaults
          /\ \A q \in Requests : creation[q] = Idle
    /\ \E seed \in Seeds \ drawn :
          /\ drawn' = drawn \cup {seed}
          /\ seeds' = [seeds EXCEPT ![id] = seed]
          /\ creation' = [creation EXCEPT ![r] = [at |-> "derive", id |-> id, seed |-> seed]]
    /\ mishap' = (mishap \/ Creating(id))
    /\ UNCHANGED <<server, agents, file, told>>

\* WALLET_EXISTS looks at the agents, the seed is kept at once: until the
\* address is derived the agent can be created again.  When the server starts
\* it creates the default agents that are missing, one after the other.
CreateAgentWallet(r, id) ==
    /\ creation[r] = Idle
    /\ agents[id] = NoSeed
    /\ \/ server = "up"
       \/ /\ server = "starting" /\ id \in Defaults
          /\ \A q \in Requests : creation[q] = Idle
    /\ \E seed \in Seeds \ drawn :
          /\ drawn' = drawn \cup {seed}
          /\ seeds' = [seeds EXCEPT ![id] = seed]
          /\ creation' = [creation EXCEPT ![r] = [at |-> "derive", id |-> id, seed |-> seed]]
    /\ mishap' = (mishap \/ Creating(id))
    /\ UNCHANGED <<server, agents, file, told>>

\* #instantiateWalletRecord answers.
Derived(r) ==
    /\ creation[r].at = "derive"
    /\ agents' = [agents EXCEPT ![creation[r].id] = creation[r].seed]
    /\ creation' = [creation EXCEPT ![r].at = "mkdir"]
    /\ UNCHANGED <<server, seeds, file, history>>

Persisting(r) == creation[r].at \in {"open", "write"}

\* #persistWallets, the directory being there: every seed of now, those of
\* creations that have failed included, and nothing that comes later.
TakeSeeds(r) ==
    /\ creation[r].at = "mkdir"
    /\ creation' = [creation EXCEPT ![r] =
          [at |-> "open", id |-> @.id, seed |-> @.seed, wallets |-> seeds]]
    /\ mishap' = (mishap \/ \E q \in Requests : Persisting(q))
    /\ UNCHANGED <<server, agents, seeds, file, told, drawn>>

\* writeFile opens the file and cuts it.
OpenFile(r) ==
    /\ creation[r].at = "open"
    /\ file' = Cut
    /\ creation' = [creation EXCEPT ![r].at = "write"]
    /\ UNCHANGED <<server, agents, seeds, history>>

\* The text goes over what another write has put there since: what is longer
\* sticks out behind it.
WriteFile(r) ==
    LET size == Size(creation[r].wallets)
    IN  /\ creation[r].at = "write"
        /\ file' = [exists |-> TRUE, whole |-> file.length <= size,
                    length |-> IF file.length > size THEN file.length ELSE size,
                    wallets |-> creation[r].wallets]
        /\ told' = [told EXCEPT ![creation[r].id] = @ \cup {creation[r].seed}]
        /\ creation' = [creation EXCEPT ![r] = Idle]
        /\ UNCHANGED <<server, agents, seeds, drawn, mishap>>

\* The RPC, the directory or the file fails: the caller is told of an error, and
\* a server that was starting stops.  What the creation has put into the maps
\* stays there.
CreationFails(r) ==
    /\ creation[r] # Idle
    /\ IF server = "starting" THEN server' = "down" /\ Forget
       ELSE /\ creation' = [creation EXCEPT ![r] = Idle]
            /\ UNCHANGED <<server, agents, seeds>>
    /\ UNCHANGED <<file, history>>

CreationStep(r) ==
    \/ \E id \in AgentIds : CreateAgentWallet(r, id)
    \/ Derived(r) \/ TakeSeeds(r) \/ OpenFile(r) \/ WriteFile(r)
    \/ CreationFails(r)

WalletNext == Restore \/ Listen \/ Crash \/ \E r \in Requests : CreationStep(r)

WalletSpec == WalletInit /\ [][WalletNext]_walletVars

-----------------------------------------------------------------------------
(* Properties.                                                              *)

\* README.md:106 promises persistent agent wallets.  A server that starts has,
\* for every agent whose address was ever told, the wallet of that address: a
\* write that was cut stops the start, it never replaces a wallet.  Unless
\* creations of one agent or two writes overlapped, or the file could not be
\* read (walletService.js:430-455, 511-524).
RestartKeepsWallets ==
    [][server = "down" /\ server' = "starting" /\ ~mishap' =>
          \A id \in AgentIds : told[id] \subseteq {agents'[id]}]_walletVars

\* While the server runs, an address that was told is the one the agent signs
\* with, and its seed is among those that the next write saves, whatever
\* creations have failed or been refused in between (walletService.js:98-123).
SignsAsTold ==
    server # "down" /\ ~mishap =>
       \A id \in AgentIds : told[id] \subseteq {agents[id]} /\ told[id] \subseteq {seeds[id]}

=============================================================================
