------------------------- MODULE AgentRuntimeProofs -------------------------
(***************************************************************************)
(* Theorems about AgentRuntime, for every number of agents, of overlapping *)
(* creations and evaluations, of crashes and of restarts; and, in the last *)
(* part, about AuthManager, which runs in the same process, for every      *)
(* limit, lock-out and number of addresses.                                *)
(*                                                                         *)
(* As long as no two creations of one agent and no two writes have         *)
(* overlapped and the file could be read, an address that was told is in   *)
(* three places at once: the maps of the running server, the text that the *)
(* write under way has taken, and the file, if that is whole.  The         *)
(* properties of the wallets are what is left of this invariant in one of  *)
(* them.                                                                   *)
(***************************************************************************)
EXTENDS AgentRuntime, AuthManager, SetSums, TLAPS

-----------------------------------------------------------------------------
(* The wallets.                                                             *)

Deriving == [at : {"derive", "mkdir"}, id : AgentIds, seed : Seeds]
Saving == [at : {"open", "write"}, id : AgentIds, seed : Seeds, wallets : Wallets]

WalletTypeOK ==
    /\ server \in {"down", "starting", "up"}
    /\ agents \in Wallets /\ seeds \in Wallets
    /\ creation \in [Requests -> {Idle} \cup Deriving \cup Saving]
    /\ file.wallets \in Wallets
    /\ told \in [AgentIds -> SUBSET Seeds]

Active(r) == creation[r] # Idle

\* A process that is not there knows nothing.
DownKnowsNothing ==
    server = "down" => /\ agents = NoWallets /\ seeds = NoWallets
                       /\ \A r \in Requests : ~Active(r)

\* What was told is a wallet of each agent.
ToldIn(wallets) == \A id \in AgentIds : told[id] \subseteq {wallets[id]}

ToldInMemory == server # "down" => ToldIn(agents) /\ ToldIn(seeds)

ToldInFile ==
    /\ file.whole => file.exists /\ ToldIn(file.wallets)
    /\ ~file.exists => \A id \in AgentIds : told[id] = {}

\* What a creation has put into the maps so far, and into the text it writes.
CreationKeeps(r) ==
    /\ seeds[creation[r].id] = creation[r].seed
    /\ agents[creation[r].id] =
          IF creation[r].at = "derive" THEN NoSeed ELSE creation[r].seed
    /\ Persisting(r) => /\ ToldIn(creation[r].wallets)
                        /\ creation[r].wallets[creation[r].id] = creation[r].seed

Apart(r, q) ==
    /\ creation[r].id # creation[q].id
    /\ ~(Persisting(r) /\ Persisting(q))

Keeps ==
    /\ WalletTypeOK /\ DownKnowsNothing /\ ToldInMemory /\ ToldInFile
    /\ \A r \in Requests : Active(r) => CreationKeeps(r)
    /\ \A r, q \in Requests : r # q /\ Active(r) /\ Active(q) => Apart(r, q)

LEMMA MishapStays == mishap /\ [WalletNext]_walletVars => mishap'
  <1> SUFFICES ASSUME mishap, [WalletNext]_walletVars PROVE mishap'
    OBVIOUS
  <1>1. CASE Restore
    BY <1>1, Zenon DEF Restore
  <1>2. CASE Listen \/ Crash \/ UNCHANGED walletVars
    BY <1>2 DEF Listen, Crash, walletVars, history
  <1>3. ASSUME NEW r \in Requests, CreationStep(r) PROVE mishap'
    <2>1. ASSUME NEW id \in AgentIds, CreateAgentWallet(r, id) PROVE mishap'
      BY <2>1, Zenon DEF CreateAgentWallet
    <2>2. CASE TakeSeeds(r)
      BY <2>2, Zenon DEF TakeSeeds
    <2>3. CASE Derived(r) \/ OpenFile(r) \/ WriteFile(r) \/ CreationFails(r)
      BY <2>3 DEF Derived, OpenFile, WriteFile, CreationFails, history
    <2>4. QED
      BY <1>3, <2>1, <2>2, <2>3 DEF CreationStep
  <1>4. QED
    BY <1>1, <1>2, <1>3 DEF WalletNext

\* An agent whose address was told has a wallet.
LEMMA ToldHasWallet ==
    ASSUME Keeps, NEW id \in AgentIds, server # "down", agents[id] = NoSeed
    PROVE  told[id] = {}
  BY WalletAssumption DEF Keeps, WalletTypeOK, ToldInMemory, ToldIn

\* Nothing changes for the other creations.
LEMMA OthersKeep ==
    ASSUME Keeps, NEW r \in Requests, NEW c \in {Idle} \cup Deriving \cup Saving,
           creation' = [creation EXCEPT ![r] = c],
           \A q \in Requests \ {r} : Active(q) => CreationKeeps(q)',
           c # Idle => CreationKeeps(r)',
           c # Idle => \A q \in Requests \ {r} : Active(q) => c.id # creation[q].id,
           c # Idle /\ c.at \in {"open", "write"} =>
              \A q \in Requests \ {r} : Active(q) => ~Persisting(q)
    PROVE  /\ creation' \in [Requests -> {Idle} \cup Deriving \cup Saving]
           /\ \A q \in Requests : Active(q)' => CreationKeeps(q)'
           /\ \A p, q \in Requests : p # q /\ Active(p)' /\ Active(q)' => Apart(p, q)'
  <1>1. /\ creation \in [Requests -> {Idle} \cup Deriving \cup Saving]
        /\ \A p, q \in Requests : p # q /\ Active(p) /\ Active(q) => Apart(p, q)
    BY DEF Keeps, WalletTypeOK
  <1>2. /\ creation' \in [Requests -> {Idle} \cup Deriving \cup Saving]
        /\ creation'[r] = c /\ \A q \in Requests \ {r} : creation'[q] = creation[q]
    BY <1>1
  <1>3. \A q \in Requests : Active(q)' => CreationKeeps(q)'
    BY <1>2 DEF Active
  <1>4. ASSUME NEW p \in Requests, NEW q \in Requests, p # q, Active(p)', Active(q)'
        PROVE  Apart(p, q)'
    <2>1. CASE p # r /\ q # r
      BY <1>1, <1>2, <1>4, <2>1 DEF Active, Apart, Persisting
    <2>2. CASE p = r
      BY <1>2, <1>4, <2>2 DEF Active, Apart, Persisting
    <2>3. CASE q = r
      BY <1>2, <1>4, <2>3 DEF Active, Apart, Persisting
    <2>4. QED
      BY <2>1, <2>2, <2>3
  <1>5. QED
    BY <1>2, <1>3, <1>4

\* The start and the end of the process.
LEMMA LifeKeeps ==
    ASSUME Keeps, ~mishap', Restore \/ Listen \/ Crash \/ UNCHANGED walletVars
    PROVE  Keeps'
  <1> USE DEF Keeps
  <1>1. NoWallets \in Wallets
    BY DEF NoWallets, Wallets
  <1>2. CASE Restore
    <2>1. /\ server = "down" /\ server' = "starting"
          /\ UNCHANGED <<creation, file, told>>
          /\ \A r \in Requests : ~Active(r)'
      BY <1>2 DEF Restore, DownKnowsNothing, Active
    <2>2. agents' \in Wallets /\ seeds' \in Wallets /\ ToldIn(agents)' /\ ToldIn(seeds)'
      <3>1. CASE file.exists /\ file.whole /\ agents' = file.wallets /\ seeds' = file.wallets
        BY <2>1, <3>1 DEF WalletTypeOK, ToldInFile, ToldIn
      <3>2. CASE ~file.exists /\ UNCHANGED <<agents, seeds>>
        BY <2>1, <3>2 DEF WalletTypeOK, ToldInFile, ToldIn
      <3>3. QED
        BY <1>2, <3>1, <3>2, Zenon DEF Restore
    <2>3. WalletTypeOK' /\ ToldInFile'
      BY <2>1, <2>2 DEF WalletTypeOK, ToldInFile, ToldIn
    <2>4. QED
      BY <2>1, <2>2, <2>3 DEF DownKnowsNothing, ToldInMemory
  <1>3. CASE Crash
    <2>1. /\ server' = "down" /\ agents' = NoWallets /\ seeds' = NoWallets
          /\ creation' = [r \in Requests |-> Idle] /\ UNCHANGED <<file, told>>
      BY <1>3 DEF Crash, Forget, history
    <2>2. WalletTypeOK' /\ \A r \in Requests : ~Active(r)'
      BY <1>1, <2>1 DEF WalletTypeOK, Active
    <2>3. QED
      BY <2>1, <2>2 DEF DownKnowsNothing, ToldInMemory, ToldInFile, ToldIn
  <1>4. CASE Listen \/ UNCHANGED walletVars
    <2>1. UNCHANGED <<agents, seeds, creation, file, told>>
      BY <1>4 DEF Listen, walletVars, memory, history
    <2>2. /\ server' = server \/ (server = "starting" /\ server' = "up")
      BY <1>4 DEF Listen, walletVars
    <2>3. \A r \in Requests : /\ Active(r)' <=> Active(r)
                              /\ CreationKeeps(r)' <=> CreationKeeps(r)
                              /\ \A q \in Requests : Apart(r, q)' <=> Apart(r, q)
      BY <2>1 DEF Active, CreationKeeps, Apart, Persisting, ToldIn
    <2>4. QED
      BY <2>1, <2>2, <2>3 DEF WalletTypeOK, DownKnowsNothing, ToldInMemory, ToldInFile, ToldIn
  <1>5. QED
    BY <1>2, <1>3, <1>4

LEMMA CreateKeeps ==
    ASSUME Keeps, ~mishap', NEW r \in Requests, NEW id \in AgentIds, CreateAgentWallet(r, id)
    PROVE  Keeps'
  <1> PICK seed \in Seeds :
         /\ seeds' = [seeds EXCEPT ![id] = seed]
         /\ creation' = [creation EXCEPT ![r] = [at |-> "derive", id |-> id, seed |-> seed]]
    BY DEF CreateAgentWallet
  <1> DEFINE c == [at |-> "derive", id |-> id, seed |-> seed]
  <1>1. /\ agents[id] = NoSeed /\ ~Active(r)
        /\ server # "down" /\ UNCHANGED <<server, agents, file, told>>
    BY DEF CreateAgentWallet, Active
  <1>2. \A q \in Requests : Active(q) => creation[q].id # id
    BY Zenon DEF CreateAgentWallet, Creating, Active
  <1>3. /\ agents \in Wallets /\ seeds \in Wallets /\ seeds' \in Wallets
        /\ creation \in [Requests -> {Idle} \cup Deriving \cup Saving]
    BY DEF Keeps, WalletTypeOK, Wallets
  <1>4. c \in Deriving /\ c # Idle
    BY DEF Deriving, Idle
  <1>5. CreationKeeps(r)'
    BY <1>1, <1>3 DEF CreationKeeps, Persisting, Wallets
  <1>6. ASSUME NEW q \in Requests \ {r}, Active(q) PROVE CreationKeeps(q)'
    <2>1. creation'[q] = creation[q] /\ seeds'[creation[q].id] = seeds[creation[q].id]
      BY <1>2, <1>3, <1>6 DEF Wallets
    <2>2. QED
      BY <1>1, <1>6, <2>1 DEF Keeps, CreationKeeps, Persisting, ToldIn
  <1>7. /\ creation' \in [Requests -> {Idle} \cup Deriving \cup Saving]
        /\ \A q \in Requests : Active(q)' => CreationKeeps(q)'
        /\ \A p, q \in Requests : p # q /\ Active(p)' /\ Active(q)' => Apart(p, q)'
    <2> HIDE DEF c
    <2>1. c.id = id /\ c.at = "derive"
      BY DEF c
    <2>2. QED
      BY <1>2, <1>4, <1>5, <1>6, <2>1, OthersKeep DEF c
  <1>8. ToldIn(agents)' /\ ToldIn(seeds)'
    <2>1. told[id] = {}
      BY <1>1, ToldHasWallet
    <2>2. ToldIn(agents) /\ ToldIn(seeds)
      BY <1>1 DEF Keeps, ToldInMemory
    <2>3. QED
      BY <1>1, <1>3, <2>1, <2>2 DEF ToldIn, Wallets
  <1>9. QED
    BY <1>1, <1>3, <1>7, <1>8
       DEF Keeps, WalletTypeOK, DownKnowsNothing, ToldInMemory, ToldInFile, ToldIn

LEMMA DerivedKeeps ==
    ASSUME Keeps, ~mishap', NEW r \in Requests, Derived(r)
    PROVE  Keeps'
  <1> DEFINE id == creation[r].id
             seed == creation[r].seed
             c == [creation[r] EXCEPT !.at = "mkdir"]
  <1>1. /\ creation[r] \in Deriving /\ creation[r].at = "derive" /\ Active(r)
        /\ c \in Deriving /\ c.id = id /\ c.seed = seed /\ c.at = "mkdir"
        /\ id \in AgentIds /\ seed \in Seeds /\ c # Idle
    BY DEF Derived, Keeps, WalletTypeOK, Deriving, Saving, Idle, Active
  <1>2. /\ agents' = [agents EXCEPT ![id] = seed] /\ creation' = [creation EXCEPT ![r] = c]
        /\ UNCHANGED <<server, seeds, file, told>> /\ server # "down"
    BY <1>1 DEF Derived, history, Keeps, DownKnowsNothing
  <1>3. /\ agents \in Wallets /\ seeds \in Wallets /\ agents' \in Wallets
        /\ creation \in [Requests -> {Idle} \cup Deriving \cup Saving]
    BY <1>1, <1>2 DEF Keeps, WalletTypeOK, Wallets
  <1>4. agents[id] = NoSeed /\ seeds[id] = seed
    BY <1>1 DEF Keeps, CreationKeeps
  <1> HIDE DEF id, seed, c
  <1>5. creation'[r] = c /\ \A q \in Requests \ {r} : creation'[q] = creation[q]
    BY <1>2, <1>3
  <1>6. agents'[id] = seed /\ \A a \in AgentIds \ {id} : agents'[a] = agents[a]
    BY <1>1, <1>2, <1>3 DEF Wallets
  <1>7. CreationKeeps(r)'
    BY <1>1, <1>2, <1>4, <1>5, <1>6 DEF CreationKeeps, Persisting
  <1>8. \A q \in Requests \ {r} : Active(q) => id # creation[q].id
    BY <1>1 DEF Keeps, Apart, id
  <1>9. ASSUME NEW q \in Requests \ {r}, Active(q) PROVE CreationKeeps(q)'
    <2>1. creation[q].id \in AgentIds
      BY <1>3, <1>9 DEF Active, Deriving, Saving
    <2>2. agents'[creation[q].id] = agents[creation[q].id]
      BY <1>6, <1>8, <1>9, <2>1
    <2>3. QED
      BY <1>2, <1>5, <1>9, <2>2 DEF Keeps, CreationKeeps, Persisting, ToldIn
  <1>10. /\ creation' \in [Requests -> {Idle} \cup Deriving \cup Saving]
         /\ \A q \in Requests : Active(q)' => CreationKeeps(q)'
         /\ \A p, q \in Requests : p # q /\ Active(p)' /\ Active(q)' => Apart(p, q)'
    BY <1>1, <1>2, <1>7, <1>8, <1>9, OthersKeep
  <1>11. ToldIn(agents)' /\ ToldIn(seeds)'
    <2>1. told[id] = {}
      BY <1>1, <1>2, <1>4, ToldHasWallet
    <2>2. ToldIn(agents) /\ ToldIn(seeds)
      BY <1>2 DEF Keeps, ToldInMemory
    <2>3. QED
      BY <1>2, <1>6, <2>1, <2>2 DEF ToldIn
  <1>12. QED
    BY <1>2, <1>3, <1>10, <1>11
       DEF Keeps, WalletTypeOK, DownKnowsNothing, ToldInMemory, ToldInFile, ToldIn

LEMMA TakeSeedsKeeps ==
    ASSUME Keeps, ~mishap', NEW r \in Requests, TakeSeeds(r)
    PROVE  Keeps'
  <1> DEFINE c == [at |-> "open", id |-> creation[r].id, seed |-> creation[r].seed,
                   wallets |-> seeds]
  <1>1. /\ creation[r] \in Deriving /\ creation[r].at = "mkdir" /\ Active(r)
        /\ seeds \in Wallets
        /\ creation \in [Requests -> {Idle} \cup Deriving \cup Saving]
    BY DEF TakeSeeds, Keeps, WalletTypeOK, Deriving, Saving, Idle, Active
  <1>2. c \in Saving /\ c # Idle /\ c.id = creation[r].id /\ c.seed = creation[r].seed
        /\ c.at = "open" /\ c.wallets = seeds
    BY <1>1 DEF Deriving, Saving, Idle
  <1>3. /\ creation' = [creation EXCEPT ![r] = c]
        /\ UNCHANGED <<server, agents, seeds, file, told>> /\ server # "down"
    BY <1>1 DEF TakeSeeds, Keeps, DownKnowsNothing
  <1>4. \A q \in Requests : ~Persisting(q)
    BY Zenon DEF TakeSeeds
  <1> HIDE DEF c
  <1>5. creation'[r] = c /\ \A q \in Requests \ {r} : creation'[q] = creation[q]
    BY <1>1, <1>3
  <1>6. CreationKeeps(r)'
    <2>1. ToldIn(seeds)
      BY <1>3 DEF Keeps, ToldInMemory
    <2>2. CreationKeeps(r)
      BY <1>1 DEF Keeps
    <2>3. QED
      BY <1>1, <1>2, <1>3, <1>5, <2>1, <2>2 DEF CreationKeeps, Persisting, ToldIn
  <1>7. \A q \in Requests \ {r} : Active(q) => c.id # creation[q].id
    BY <1>1, <1>2 DEF Keeps, Apart
  <1>8. \A q \in Requests \ {r} : Active(q) => CreationKeeps(q)'
    BY <1>3, <1>5 DEF Keeps, CreationKeeps, Persisting, ToldIn
  <1>9. /\ creation' \in [Requests -> {Idle} \cup Deriving \cup Saving]
        /\ \A q \in Requests : Active(q)' => CreationKeeps(q)'
        /\ \A p, q \in Requests : p # q /\ Active(p)' /\ Active(q)' => Apart(p, q)'
    BY <1>2, <1>3, <1>4, <1>6, <1>7, <1>8, OthersKeep
  <1>10. QED
    BY <1>3, <1>9
       DEF Keeps, WalletTypeOK, DownKnowsNothing, ToldInMemory, ToldInFile, ToldIn

LEMMA OpenKeeps ==
    ASSUME Keeps, ~mishap', NEW r \in Requests, OpenFile(r)
    PROVE  Keeps'
  <1> DEFINE c == [creation[r] EXCEPT !.at = "write"]
  <1>1. /\ creation[r] \in Saving /\ creation[r].at = "open" /\ Active(r)
        /\ creation \in [Requests -> {Idle} \cup Deriving \cup Saving]
    BY DEF OpenFile, Keeps, WalletTypeOK, Deriving, Saving, Idle, Active
  <1>2. /\ c \in Saving /\ c # Idle /\ c.id = creation[r].id /\ c.seed = creation[r].seed
        /\ c.at = "write" /\ c.wallets = creation[r].wallets
    BY <1>1 DEF Saving, Idle
  <1>3. /\ creation' = [creation EXCEPT ![r] = c] /\ file' = Cut
        /\ UNCHANGED <<server, agents, seeds, told>> /\ server # "down"
    BY <1>1 DEF OpenFile, history, Keeps, DownKnowsNothing
  <1> HIDE DEF c
  <1>4. creation'[r] = c /\ \A q \in Requests \ {r} : creation'[q] = creation[q]
    BY <1>1, <1>3
  <1>5. CreationKeeps(r)'
    BY <1>1, <1>2, <1>3, <1>4 DEF Keeps, CreationKeeps, Persisting, ToldIn
  <1>6. \A q \in Requests \ {r} : Active(q) => c.id # creation[q].id /\ ~Persisting(q)
    BY <1>1, <1>2 DEF Keeps, Apart, Persisting
  <1>7. \A q \in Requests \ {r} : Active(q) => CreationKeeps(q)'
    BY <1>3, <1>4 DEF Keeps, CreationKeeps, Persisting, ToldIn
  <1>8. /\ creation' \in [Requests -> {Idle} \cup Deriving \cup Saving]
        /\ \A q \in Requests : Active(q)' => CreationKeeps(q)'
        /\ \A p, q \in Requests : p # q /\ Active(p)' /\ Active(q)' => Apart(p, q)'
    BY <1>2, <1>3, <1>5, <1>6, <1>7, OthersKeep
  <1>9. Cut.wallets \in Wallets /\ ~Cut.whole /\ Cut.exists
    BY DEF Cut, NoWallets, Wallets
  <1>10. QED
    BY <1>3, <1>8, <1>9
       DEF Keeps, WalletTypeOK, DownKnowsNothing, ToldInMemory, ToldInFile, ToldIn

LEMMA WriteKeeps ==
    ASSUME Keeps, ~mishap', NEW r \in Requests, WriteFile(r)
    PROVE  Keeps'
  <1> DEFINE id == creation[r].id
             seed == creation[r].seed
             text == creation[r].wallets
  <1>1. /\ creation[r] \in Saving /\ creation[r].at = "write" /\ Active(r) /\ Persisting(r)
        /\ creation \in [Requests -> {Idle} \cup Deriving \cup Saving]
        /\ told \in [AgentIds -> SUBSET Seeds]
    BY DEF WriteFile, Keeps, WalletTypeOK, Deriving, Saving, Idle, Active, Persisting
  <1>2. id \in AgentIds /\ seed \in Seeds /\ text \in Wallets
    BY <1>1 DEF Saving
  <1>3. /\ creation' = [creation EXCEPT ![r] = Idle]
        /\ told' = [told EXCEPT ![id] = @ \cup {seed}]
        /\ file'.exists /\ file'.wallets = text
        /\ UNCHANGED <<server, agents, seeds>> /\ server # "down"
    BY <1>1 DEF WriteFile, Keeps, DownKnowsNothing
  <1>4. CreationKeeps(r)
    BY <1>1 DEF Keeps
  <1> HIDE DEF id, seed, text
  <1>5. /\ told'[id] = told[id] \cup {seed} /\ \A a \in AgentIds \ {id} : told'[a] = told[a]
        /\ told' \in [AgentIds -> SUBSET Seeds]
    BY <1>1, <1>2, <1>3
  <1>6. ASSUME NEW w, ToldIn(w), w[id] = seed
        PROVE  \A a \in AgentIds : told'[a] \subseteq {w[a]}
    BY <1>2, <1>5, <1>6 DEF ToldIn
  <1>7. /\ agents[id] = seed /\ seeds[id] = seed /\ text[id] = seed
        /\ ToldIn(text) /\ ToldIn(agents) /\ ToldIn(seeds)
    BY <1>1, <1>3, <1>4 DEF CreationKeeps, Keeps, ToldInMemory, id, seed, text
  <1>8. ToldIn(agents)' /\ ToldIn(seeds)' /\ ToldIn(file.wallets)'
    BY <1>3, <1>6, <1>7 DEF ToldIn
  <1>9. ASSUME NEW q \in Requests \ {r}, Active(q) PROVE CreationKeeps(q)'
    <2>1. ~Persisting(q) /\ creation'[q] = creation[q]
      BY <1>1, <1>3, <1>9 DEF Keeps, Apart
    <2>2. QED
      BY <1>3, <1>9, <2>1 DEF Keeps, CreationKeeps, Persisting
  <1>10. /\ creation' \in [Requests -> {Idle} \cup Deriving \cup Saving]
         /\ \A q \in Requests : Active(q)' => CreationKeeps(q)'
         /\ \A p, q \in Requests : p # q /\ Active(p)' /\ Active(q)' => Apart(p, q)'
    BY <1>3, <1>9, OthersKeep
  <1>11. QED
    BY <1>2, <1>3, <1>5, <1>8, <1>10
       DEF Keeps, WalletTypeOK, DownKnowsNothing, ToldInMemory, ToldInFile

LEMMA FailKeeps ==
    ASSUME Keeps, ~mishap', NEW r \in Requests, CreationFails(r)
    PROVE  Keeps'
  <1>1. CASE server = "starting"
    <2>1. /\ server' = "down" /\ agents' = NoWallets /\ seeds' = NoWallets
          /\ creation' = [q \in Requests |-> Idle] /\ UNCHANGED <<file, told>>
      BY <1>1 DEF CreationFails, Forget, history
    <2>2. WalletTypeOK' /\ \A q \in Requests : ~Active(q)'
      BY <2>1 DEF Keeps, WalletTypeOK, Active, NoWallets, Wallets
    <2>3. QED
      BY <2>1, <2>2 DEF Keeps, DownKnowsNothing, ToldInMemory, ToldInFile, ToldIn
  <1>2. CASE server # "starting"
    <2>1. /\ creation' = [creation EXCEPT ![r] = Idle]
          /\ UNCHANGED <<server, agents, seeds, file, told>> /\ server # "down"
      BY <1>2 DEF CreationFails, history, Keeps, DownKnowsNothing, Active
    <2>2. \A q \in Requests \ {r} : creation'[q] = creation[q]
      BY <2>1 DEF Keeps, WalletTypeOK
    <2>3. \A q \in Requests \ {r} : Active(q) => CreationKeeps(q)'
      BY <2>1, <2>2 DEF Keeps, CreationKeeps, Persisting, ToldIn
    <2>4. /\ creation' \in [Requests -> {Idle} \cup Deriving \cup Saving]
          /\ \A q \in Requests : Active(q)' => CreationKeeps(q)'
          /\ \A p, q \in Requests : p # q /\ Active(p)' /\ Active(q)' => Apart(p, q)'
      BY <2>1, <2>3, OthersKeep
    <2>5. QED
      BY <2>1, <2>4
         DEF Keeps, WalletTypeOK, DownKnowsNothing, ToldInMemory, ToldInFile, ToldIn
  <1>3. QED
    BY <1>1, <1>2

LEMMA NextKeeps == (mishap \/ Keeps) /\ [WalletNext]_walletVars => (mishap \/ Keeps)'
  <1> SUFFICES ASSUME Keeps, ~mishap', [WalletNext]_walletVars PROVE Keeps'
    BY MishapStays
  <1>1. CASE Restore \/ Listen \/ Crash \/ UNCHANGED walletVars
    BY <1>1, LifeKeeps
  <1>2. ASSUME NEW r \in Requests, CreationStep(r) PROVE Keeps'
    BY <1>2, CreateKeeps, DerivedKeeps, TakeSeedsKeeps, OpenKeeps, WriteKeeps, FailKeeps
       DEF CreationStep
  <1>3. QED
    BY <1>1, <1>2 DEF WalletNext

LEMMA InitKeeps == WalletInit => Keeps
  BY DEF WalletInit, Keeps, WalletTypeOK, DownKnowsNothing, ToldInMemory, ToldInFile,
         ToldIn, Active, NoWallets, Wallets, NoFile

-----------------------------------------------------------------------------

\* The server with its yield agent runs the wallets: what they do together is
\* what the wallets may do alone (mcpServer.js, createServices).
THEOREM RuntimeRunsWallets == RuntimeSpec => WalletSpec
  <1>1. RuntimeInit => WalletInit
    BY DEF RuntimeInit
  <1>2. [RuntimeNext]_runtimeVars => [WalletNext]_walletVars
    BY DEF RuntimeNext, WalletsStep, YieldStep, Stops, WalletNext, CreationStep, runtimeVars
  <1>3. QED
    BY <1>1, <1>2, PTL DEF RuntimeSpec, WalletSpec

\* An address that was told is the one its agent signs with, and its seed is
\* saved by the next write (walletService.js:98-123).
THEOREM AgentsSignAsTold == RuntimeSpec => []SignsAsTold
  <1>1. Keeps => SignsAsTold
    BY DEF Keeps, ToldInMemory, ToldIn, SignsAsTold
  <1>2. mishap => SignsAsTold
    BY DEF SignsAsTold
  <1>3. QED
    BY <1>1, <1>2, RuntimeRunsWallets, InitKeeps, NextKeeps, PTL DEF WalletSpec

\* A server that starts has the wallet of every address that was told, wherever
\* the one before was stopped (walletService.js:430-455, 511-524).
THEOREM WalletsSurviveRestarts == RuntimeSpec => RestartKeepsWallets
  <1>1. (mishap \/ Keeps) /\ [WalletNext]_walletVars =>
           [server = "down" /\ server' = "starting" /\ ~mishap' =>
               \A id \in AgentIds : told[id] \subseteq {agents'[id]}]_walletVars
    <2> SUFFICES ASSUME mishap \/ Keeps, [WalletNext]_walletVars, server = "down",
                        server' = "starting", ~mishap'
                 PROVE  \A id \in AgentIds : told[id] \subseteq {agents'[id]}
      OBVIOUS
    <2>1. Keeps
      BY MishapStays
    <2>2. Keeps'
      BY <2>1, NextKeeps
    <2>3. \A id \in AgentIds : told'[id] \subseteq {agents'[id]}
      BY <2>2 DEF Keeps, ToldInMemory, ToldIn
    <2>4. told' = told
      <3>1. Restore \/ UNCHANGED walletVars \/ Listen \/ Crash
            \/ \E r \in Requests : CreationStep(r)
        BY DEF WalletNext
      <3>2. ASSUME NEW r \in Requests, CreationStep(r) PROVE FALSE
        <4>1. creation[r] = Idle
          BY <2>1 DEF Keeps, DownKnowsNothing, Active
        <4>2. QED
          BY <3>2, <4>1 DEF CreationStep, CreateAgentWallet, Derived, TakeSeeds, OpenFile,
                            WriteFile, CreationFails, Idle
      <3>3. QED
        BY <3>1, <3>2 DEF Restore, Listen, Crash, walletVars, history
    <2>5. QED
      BY <2>3, <2>4
  <1>2. QED
    BY <1>1, RuntimeRunsWallets, InitKeeps, NextKeeps, PTL DEF WalletSpec, RestartKeepsWallets

-----------------------------------------------------------------------------
(* The capital that was bridged.                                            *)

YieldInv ==
    /\ bridging \in [Evaluations -> Waiting \cup {NotBridging}]
    /\ bridgedCapital \in [Chains -> Nat] /\ sent \in [Chains -> Nat]
    /\ BridgedWasSent

LEMMA BridgeAmountType == \A p \in PoolStates : BridgeAmount(p) \in Nat
  BY YieldAssumption DEF BridgeAmount

\* What a transfer adds to one chain is at most what is there afterwards.
LEMMA TransferKeeps ==
    ASSUME YieldInv, NEW e \in Evaluations, Transfer(e)
    PROVE  /\ bridging' \in [Evaluations -> Waiting \cup {NotBridging}]
           /\ bridging[e].chain \in Chains /\ bridging[e].amount \in Nat
           /\ sent' \in [Chains -> Nat]
           /\ \A chain \in Chains : sent[chain] <= sent'[chain]
           /\ bridging[e].amount <= sent'[bridging[e].chain]
  <1>1. bridging[e] \in Waiting
    BY DEF YieldInv, Transfer
  <1>2. bridging[e].chain \in Chains /\ bridging[e].amount \in Nat
    BY <1>1 DEF Waiting
  <1>3. bridging' \in [Evaluations -> Waiting \cup {NotBridging}]
    BY DEF YieldInv, Transfer
  <1>4. QED
    BY <1>2, <1>3 DEF YieldInv, Transfer

LEMMA YieldNextKeeps == YieldInv /\ YieldNext => YieldInv'
  <1> SUFFICES ASSUME YieldInv, YieldNext PROVE YieldInv'
    OBVIOUS
  <1>1. ASSUME UNCHANGED <<bridging, bridgedCapital, sent>> PROVE YieldInv'
    BY <1>1 DEF YieldInv, BridgedWasSent
  <1>2. CASE HourPasses \/ Initialize \/ \E p \in PoolStates : EvaluateAndAdjust(p)
    BY <1>1, <1>2 DEF HourPasses, Initialize, EvaluateAndAdjust
  <1>3. ASSUME NEW p \in PoolStates, EvaluateRecall(p) PROVE YieldInv'
    <2>1. bridgedCapital' = [chain \in Chains |-> 0] /\ UNCHANGED <<bridging, sent>>
      BY <1>3 DEF EvaluateRecall, Fresh
    <2>2. QED
      BY <2>1 DEF YieldInv, BridgedWasSent
  <1>4. ASSUME NEW e \in Evaluations, NEW p \in PoolStates, NEW chain \in Chains,
               EvaluateAndBridge(e, p, chain)
        PROVE  YieldInv'
    <2>1. [chain |-> chain, amount |-> BridgeAmount(p)] \in Waiting
      BY BridgeAmountType DEF Waiting
    <2>2. /\ bridging' \in [Evaluations -> Waiting \cup {NotBridging}]
          /\ UNCHANGED <<bridgedCapital, sent>>
      BY <1>4, <2>1 DEF EvaluateAndBridge, YieldInv
    <2>3. QED
      BY <2>2 DEF YieldInv, BridgedWasSent
  <1>5. ASSUME NEW e \in Evaluations, Bridged(e) PROVE YieldInv'
    <2>1. Transfer(e)
          /\ bridgedCapital' = [bridgedCapital EXCEPT ![bridging[e].chain] = bridging[e].amount]
      BY <1>5 DEF Bridged
    <2>2. bridgedCapital' \in [Chains -> Nat]
      BY <2>1, TransferKeeps DEF YieldInv
    <2>3. ASSUME NEW chain \in Chains PROVE bridgedCapital'[chain] <= sent'[chain]
      BY <2>1, TransferKeeps DEF YieldInv, BridgedWasSent
    <2>4. QED
      BY <2>1, <2>2, <2>3, TransferKeeps DEF YieldInv, BridgedWasSent
  <1>6. ASSUME NEW e \in Evaluations, BridgeFails(e) PROVE YieldInv'
    <2>1. bridgedCapital' = bridgedCapital
      BY <1>6 DEF BridgeFails
    <2>2. CASE bridging' = [bridging EXCEPT ![e] = NotBridging] /\ sent' = sent
      BY <2>1, <2>2 DEF YieldInv, BridgedWasSent
    <2>3. CASE Transfer(e)
      <3>1. ASSUME NEW chain \in Chains PROVE bridgedCapital'[chain] <= sent'[chain]
        BY <2>1, <2>3, TransferKeeps DEF YieldInv, BridgedWasSent
      <3>2. QED
        BY <2>1, <2>3, <3>1, TransferKeeps DEF YieldInv, BridgedWasSent
    <2>4. QED
      BY <1>6, <2>2, <2>3 DEF BridgeFails
  <1>7. QED
    BY <1>2, <1>3, <1>4, <1>5, <1>6 DEF YieldNext

\* No entry of the yield agent is above what lies on its chain, over overlapping
\* evaluations, lost answers and restarts (yieldAgent.js:146-180).
THEOREM BridgedCapitalWasSent == RuntimeSpec => []BridgedWasSent
  <1>1. RuntimeInit => YieldInv
    BY DEF RuntimeInit, YieldInit, Fresh, YieldInv, BridgedWasSent
  <1>2. YieldInv /\ [RuntimeNext]_runtimeVars => YieldInv'
    <2> SUFFICES ASSUME YieldInv, [RuntimeNext]_runtimeVars PROVE YieldInv'
      OBVIOUS
    <2>1. CASE YieldStep
      BY <2>1, YieldNextKeeps DEF YieldStep
    <2>2. CASE ForgetYield
      <3>1. /\ bridging' = [e \in Evaluations |-> NotBridging]
            /\ bridgedCapital' = [chain \in Chains |-> 0] /\ sent' = sent
        BY <2>2 DEF ForgetYield, Fresh
      <3>2. QED
        BY <3>1 DEF YieldInv, BridgedWasSent
    <2>3. CASE WalletsStep \/ UNCHANGED runtimeVars
      <3>1. UNCHANGED <<bridging, bridgedCapital, sent>>
        BY <2>3 DEF WalletsStep, runtimeVars, yieldVars, yieldMemory
      <3>2. QED
        BY <3>1 DEF YieldInv, BridgedWasSent
    <2>4. QED
      BY <2>1, <2>2, <2>3 DEF RuntimeNext
  <1>3. YieldInv => BridgedWasSent
    BY DEF YieldInv
  <1>4. QED
    BY <1>1, <1>2, <1>3, PTL DEF RuntimeSpec

-----------------------------------------------------------------------------
(* Authentication, in the same process.  Of the attempts of an address the *)
(* record counts the last ones; those it has forgotten are fewer than the  *)
(* limit, or so old that a lock-out has passed since.  Hence any run of    *)
(* twice the limit of attempts spans a lock-out.                           *)

\* In what follows ts are the times at which an address failed since it last
\* succeeded, rec is its record and t the clock.
InOrder(ts, t) ==
    /\ \A i, j \in 1..Len(ts) : i <= j => ts[i] <= ts[j]
    /\ \A i \in 1..Len(ts) : ts[i] <= t

\* The record counts the last attempts; the lock-out runs from the last of all.
Counts(rec, ts) ==
    /\ rec.count <= Len(ts)
    /\ rec.count > 0 => rec.firstAttempt = ts[Len(ts) - rec.count + 1]
    /\ rec.lockedUntil # Never =>
          rec.count > 0 /\ rec.lockedUntil = ts[Len(ts)] + LOCKOUT_DURATION
    /\ rec.count = MAX_FAILED_ATTEMPTS => rec.lockedUntil # Never

\* Of the attempts that the record no longer counts, fewer than the limit are
\* within the length of a lock-out from now.
FewForgotten(rec, ts, t) ==
    Len(ts) - rec.count >= MAX_FAILED_ATTEMPTS =>
       ts[Len(ts) - rec.count - MAX_FAILED_ATTEMPTS + 1] <= t - LOCKOUT_DURATION

\* Of twice the limit of attempts, the first and the last are a lock-out apart.
Spread(ts) ==
    \A i, j \in 1..Len(ts) : j = i + 2 * MAX_FAILED_ATTEMPTS - 1 =>
       ts[j] >= ts[i] + LOCKOUT_DURATION

\* The invariant of one address.
Kept(rec, ts, t) == InOrder(ts, t) /\ Counts(rec, ts) /\ FewForgotten(rec, ts, t) /\ Spread(ts)

\* It holds of an address that has not failed, stays true as time passes, and
\* when the record is forgotten after a lock-out or a long silence.
LEMMA KeptEmpty == ASSUME NEW t \in Nat PROVE Kept(NoRecord, <<>>, t)
  BY AuthAssumption DEF Kept, InOrder, Counts, FewForgotten, Spread, NoRecord, Never

LEMMA KeptLater ==
    ASSUME NEW rec \in Attempts, NEW ts \in Seq(Nat), NEW t \in Nat,
           NEW u \in Nat, t <= u, Kept(rec, ts, t)
    PROVE  Kept(rec, ts, u)
  <1> DEFINE n == Len(ts)
             k == n - rec.count - MAX_FAILED_ATTEMPTS + 1
  <1>1. \A i \in 1..n : ts[i] \in Nat
    OBVIOUS
  <1>2. InOrder(ts, u)
    BY <1>1 DEF Kept, InOrder
  <1>3. n \in Nat /\ rec.count \in Nat
    BY DEF Attempts
  <1>4. FewForgotten(rec, ts, u)
    <2> SUFFICES ASSUME n - rec.count >= MAX_FAILED_ATTEMPTS
                 PROVE  ts[k] <= u - LOCKOUT_DURATION
      BY DEF FewForgotten
    <2>1. k \in 1..n
      BY <1>3, AuthAssumption
    <2>2. ts[k] <= t - LOCKOUT_DURATION
      BY DEF Kept, FewForgotten
    <2> HIDE DEF k
    <2>3. QED
      BY <1>1, <2>1, <2>2, AuthAssumption
  <1>5. QED
    BY <1>2, <1>4 DEF Kept

LEMMA KeptForgotten ==
    ASSUME NEW rec \in Attempts, NEW ts \in Seq(Nat), NEW t \in Nat,
           Kept(rec, ts, t),
           \/ rec.lockedUntil # Never /\ t >= rec.lockedUntil
           \/ t - rec.firstAttempt > 2 * LOCKOUT_DURATION
    PROVE  Kept(NoRecord, ts, t)
  <1> DEFINE n == Len(ts)
             k == n - MAX_FAILED_ATTEMPTS + 1
             m == n - rec.count + 1
  <1>1. \A i \in 1..n : ts[i] \in Nat
    OBVIOUS
  <1>2. n \in Nat /\ rec.count \in 0..MAX_FAILED_ATTEMPTS /\ rec.firstAttempt \in Nat
    BY DEF Attempts
  <1>3. Counts(NoRecord, ts)
    BY <1>2, AuthAssumption DEF Counts, NoRecord, Never
  <1>4. FewForgotten(NoRecord, ts, t)
    <2>1. SUFFICES ASSUME n >= MAX_FAILED_ATTEMPTS
                   PROVE  ts[k] <= t - LOCKOUT_DURATION
      BY <1>2, AuthAssumption DEF FewForgotten, NoRecord
    <2>2. k \in 1..n /\ n \in 1..n
      BY <1>2, <2>1, AuthAssumption
    <2>3. CASE rec.count = 0
      <3>1. rec.lockedUntil = Never
        BY <1>2, <2>3 DEF Kept, Counts
      <3>2. n - rec.count = n /\ n - rec.count - MAX_FAILED_ATTEMPTS + 1 = k
        BY <1>2, <2>3, AuthAssumption
      <3>3. QED
        BY <2>1, <3>2 DEF Kept, FewForgotten
    <2>4. CASE rec.count # 0 /\ rec.lockedUntil # Never /\ t >= rec.lockedUntil
      <3>1. rec.lockedUntil = ts[n] + LOCKOUT_DURATION
        BY <2>4 DEF Kept, Counts
      <3>2. ts[k] <= ts[n]
        BY <1>2, <2>1, <2>2, AuthAssumption DEF Kept, InOrder
      <3> HIDE DEF k, n
      <3>3. QED
        BY <1>1, <2>2, <2>4, <3>1, <3>2, AuthAssumption
    <2>5. CASE rec.count # 0 /\ t - rec.firstAttempt > 2 * LOCKOUT_DURATION
      <3>1. m \in 1..n /\ k <= m
        <4>1. rec.count <= n
          BY DEF Kept, Counts
        <4>2. rec.count \in Nat /\ rec.count # 0 /\ rec.count <= MAX_FAILED_ATTEMPTS
          BY <1>2, <2>5, AuthAssumption
        <4>3. n \in Nat /\ MAX_FAILED_ATTEMPTS \in Nat
          BY <1>2, AuthAssumption
        <4> HIDE DEF n
        <4>4. QED
          BY <4>1, <4>2, <4>3
      <3>2. rec.firstAttempt = ts[m]
        BY <1>2, <2>5 DEF Kept, Counts
      <3>3. ts[k] <= ts[m]
        BY <2>2, <3>1 DEF Kept, InOrder
      <3> HIDE DEF k, m, n
      <3>4. QED
        BY <1>1, <2>2, <2>5, <3>1, <3>2, <3>3, AuthAssumption
    <2>6. QED
      BY <2>3, <2>4, <2>5
  <1>5. QED
    BY <1>3, <1>4 DEF Kept

\* It stays true when the address, not locked out, fails once more.
LEMMA KeptFailure ==
    ASSUME NEW rec \in Attempts, NEW ts \in Seq(Nat), NEW t \in Nat,
           Kept(rec, ts, t), rec.count < MAX_FAILED_ATTEMPTS,
           NEW new \in Attempts,
           new.count = rec.count + 1,
           new.firstAttempt = (IF rec.count = 0 THEN t ELSE rec.firstAttempt),
           new.lockedUntil = (IF new.count >= MAX_FAILED_ATTEMPTS
                              THEN t + LOCKOUT_DURATION ELSE Never)
    PROVE  Kept(new, Append(ts, t), t)
  <1> DEFINE n == Len(ts)
             us == Append(ts, t)
             m == Len(us)
  <1>m. m = n + 1 /\ n \in Nat
    OBVIOUS
  <1>1. us[n + 1] = t /\ \A i \in 1..n : us[i] = ts[i] /\ ts[i] \in Nat
    OBVIOUS
  <1>2. rec.count \in Nat /\ new.count \in Nat
    BY DEF Attempts
  <1>a. \A i, j \in 1..n : (i <= j => ts[i] <= ts[j]) /\ ts[i] <= t
    BY DEF Kept, InOrder
  <1>b. rec.count <= n /\ (rec.count > 0 => rec.firstAttempt = ts[n - rec.count + 1])
    BY DEF Kept, Counts
  <1>c. n - rec.count >= MAX_FAILED_ATTEMPTS =>
           ts[n - rec.count - MAX_FAILED_ATTEMPTS + 1] <= t - LOCKOUT_DURATION
    BY DEF Kept, FewForgotten
  <1>d. \A i, j \in 1..n : j = i + 2 * MAX_FAILED_ATTEMPTS - 1 =>
                             ts[j] >= ts[i] + LOCKOUT_DURATION
    BY DEF Kept, Spread
  <1>e. MAX_FAILED_ATTEMPTS \in Nat \ {0} /\ LOCKOUT_DURATION \in Nat
    BY AuthAssumption
  <1> HIDE DEF us, n, m
  <1>3. InOrder(us, t)
    <2>1. \A i \in 1..n + 1 : us[i] <= t
      <3> SUFFICES ASSUME NEW i \in 1..n + 1 PROVE us[i] <= t
        OBVIOUS
      <3>1. CASE i = n + 1
        BY <1>1, <3>1
      <3>2. CASE i # n + 1
        <4>1. i \in 1..n
          BY <1>m, <3>2
        <4>2. us[i] = ts[i] /\ ts[i] <= t
          BY <1>1, <1>a, <4>1
        <4>3. QED
          BY <4>2
      <3>3. QED
        BY <3>1, <3>2
    <2>2. \A i, j \in 1..n + 1 : i <= j => us[i] <= us[j]
      <3> SUFFICES ASSUME NEW i \in 1..n + 1, NEW j \in 1..n + 1, i <= j
                   PROVE us[i] <= us[j]
        OBVIOUS
      <3>1. CASE j = n + 1
        BY <1>1, <2>1, <3>1
      <3>2. CASE j # n + 1
        <4>1. i \in 1..n /\ j \in 1..n
          BY <1>m, <3>2
        <4>2. us[i] = ts[i] /\ us[j] = ts[j] /\ ts[i] <= ts[j]
          BY <1>1, <1>a, <4>1
        <4>3. QED
          BY <4>2
      <3>3. QED
        BY <3>1, <3>2
    <2>3. QED
      BY <1>m, <2>1, <2>2 DEF InOrder, m
  <1>4. Counts(new, us)
    <2>1. new.count <= m
      BY <1>m, <1>2, <1>b
    <2>2. new.firstAttempt = us[m - new.count + 1]
      <3>1. m - new.count + 1 = n - rec.count + 1
        BY <1>m, <1>2
      <3>2. CASE rec.count = 0
        BY <1>m, <1>1, <1>2, <3>1, <3>2
      <3>3. CASE rec.count # 0
        <4>1. n - rec.count + 1 \in 1..n
          BY <1>m, <1>2, <1>b, <3>3
        <4>2. QED
          BY <1>1, <1>2, <1>b, <3>1, <3>3, <4>1
      <3>4. QED
        BY <3>2, <3>3
    <2>3. /\ new.lockedUntil # Never =>
                new.count > 0 /\ new.lockedUntil = us[m] + LOCKOUT_DURATION
          /\ new.count = MAX_FAILED_ATTEMPTS => new.lockedUntil # Never
      BY <1>m, <1>1, <1>2, <1>e DEF Never
    <2>4. QED
      BY <2>1, <2>2, <2>3 DEF Counts, m
  <1>5. m - new.count = n - rec.count
    BY <1>m, <1>2
  <1> DEFINE k == n - rec.count - MAX_FAILED_ATTEMPTS + 1
  <1>k. n - rec.count >= MAX_FAILED_ATTEMPTS => k \in 1..n
    BY <1>m, <1>2, <1>e
  <1>6. FewForgotten(new, us, t)
    BY <1>1, <1>5, <1>c, <1>k DEF FewForgotten, m
  <1>7. Spread(us)
    <2> SUFFICES ASSUME NEW i \in 1..n + 1, NEW j \in 1..n + 1,
                        j = i + 2 * MAX_FAILED_ATTEMPTS - 1
                 PROVE  us[j] >= us[i] + LOCKOUT_DURATION
      BY <1>m DEF Spread, m
    <2>1. CASE j \in 1..n
      <3>1. i \in 1..n
        BY <1>m, <1>e, <2>1
      <3>2. ts[j] >= ts[i] + LOCKOUT_DURATION
        BY <1>d, <2>1, <3>1
      <3>3. QED
        BY <1>1, <2>1, <3>1, <3>2
    <2>2. CASE j = n + 1
      <3>1. i \in 1..n /\ i <= k /\ n - rec.count >= MAX_FAILED_ATTEMPTS
        BY <1>m, <1>2, <1>e, <2>2
      <3>2. ts[k] <= t - LOCKOUT_DURATION /\ k \in 1..n
        BY <1>c, <1>k, <3>1
      <3> HIDE DEF k
      <3>3. ts[i] <= ts[k]
        BY <1>a, <3>1, <3>2
      <3>4. us[i] = ts[i] /\ us[j] = t /\ ts[i] \in Nat /\ ts[k] \in Nat
        BY <1>1, <2>2, <3>1, <3>2
      <3>5. QED
        BY <1>e, <3>2, <3>3, <3>4
    <2>3. QED
      BY <1>m, <2>1, <2>2
  <1>8. QED
    BY <1>3, <1>4, <1>6, <1>7 DEF Kept, us

\* What the run checks follows: fewer than twice the limit fall into one lock-out.
LEMMA SpreadBounds ==
    ASSUME NEW ts \in Seq(Nat), NEW t \in Nat, InOrder(ts, t), Spread(ts),
           NEW i \in 1..Len(ts)
    PROVE  Cardinality({j \in DOMAIN ts : ts[j] \in ts[i]..(ts[i] + LOCKOUT_DURATION - 1)})
              < 2 * MAX_FAILED_ATTEMPTS
  <1> DEFINE n == Len(ts)
             W == {j \in DOMAIN ts : ts[j] \in ts[i]..(ts[i] + LOCKOUT_DURATION - 1)}
  <1>1. /\ \A j \in 1..n : ts[j] \in Nat
        /\ n \in Nat /\ i \in 1..n /\ W = {j \in 1..n : ts[j] \in ts[i]..(ts[i] + LOCKOUT_DURATION - 1)}
    OBVIOUS
  <1>e. MAX_FAILED_ATTEMPTS \in Nat \ {0} /\ LOCKOUT_DURATION \in Nat \ {0}
    BY AuthAssumption
  <1>a. \A j, l \in 1..n : j <= l => ts[j] <= ts[l]
    BY DEF InOrder
  <1>d. \A j, l \in 1..n : l = j + 2 * MAX_FAILED_ATTEMPTS - 1 =>
                             ts[l] >= ts[j] + LOCKOUT_DURATION
    BY DEF Spread
  <1> HIDE DEF n, W
  <1>2. /\ i \in W /\ W \subseteq 1..n /\ ts[i] \in Nat
        /\ \A j \in W : ts[j] >= ts[i] /\ ts[j] < ts[i] + LOCKOUT_DURATION
    BY <1>1, <1>e
  <1>3. IsFiniteSet(W)
    <2>1. IsFiniteSet(1..n)
      BY <1>1, FS_Interval
    <2>2. QED
      BY <1>2, <2>1, FS_Subset
  <1>i. W \subseteq Int /\ W # {}
    BY <1>1, <1>2
  <1>4. PICK f \in W : \A j \in W : f <= j
    BY <1>3, <1>i, LeastElement
  <1> DEFINE l == f + 2 * MAX_FAILED_ATTEMPTS - 1
             top == f + 2 * MAX_FAILED_ATTEMPTS - 2
  <1>f. f \in 1..n /\ f \in Int
    BY <1>1, <1>2
  <1>5. \A j \in W : j <= top
    <2> SUFFICES ASSUME NEW j \in W, j > top PROVE FALSE
      BY <1>1, <1>2, <1>e, <1>f
    <2>1. j \in 1..n /\ l \in 1..n /\ l <= j
      BY <1>1, <1>2, <1>e, <1>f
    <2>2. ts[l] >= ts[f] + LOCKOUT_DURATION /\ ts[l] <= ts[j]
      BY <1>a, <1>d, <1>f, <2>1
    <2>3. ts[f] >= ts[i] /\ ts[j] < ts[i] + LOCKOUT_DURATION
      BY <1>2
    <2>4. ts[f] \in Nat /\ ts[j] \in Nat /\ ts[l] \in Nat /\ ts[i] \in Nat
      BY <1>1, <1>f, <2>1
    <2> HIDE DEF l, top
    <2>5. LOCKOUT_DURATION \in Nat
      BY AuthAssumption
    <2>6. ts[f] + LOCKOUT_DURATION <= ts[j]
      BY <2>2, <2>4, <2>5
    <2>7. ts[j] < ts[f] + LOCKOUT_DURATION
      BY <2>3, <2>4, <2>5
    <2>8. QED
      BY <2>4, <2>5, <2>6, <2>7
  <1>6. top \in Int /\ top - f + 1 = 2 * MAX_FAILED_ATTEMPTS - 1 /\ f <= top
    <2>1. f \in Int /\ MAX_FAILED_ATTEMPTS \in Nat \ {0}
      BY <1>f, AuthAssumption
    <2>2. QED
      BY <2>1
  <1> HIDE DEF top
  <1>7. IsFiniteSet(f..top) /\ Cardinality(f..top) = top - f + 1
    <2>1. /\ IsFiniteSet(f..top)
          /\ Cardinality(f..top) = IF f > top THEN 0 ELSE top - f + 1
      BY <1>6, <1>f, FS_Interval, Zenon
    <2>2. QED
      BY <1>6, <1>f, <2>1
  <1>8. W \subseteq f..top
    BY <1>i, <1>4, <1>5, <1>6, <1>f
  <1>9. Cardinality(W) <= Cardinality(f..top) /\ Cardinality(W) \in Nat
    BY <1>3, <1>7, <1>8, FS_Subset, FS_CardinalityType
  <1>10. Cardinality(W) < 2 * MAX_FAILED_ATTEMPTS
    BY <1>6, <1>7, <1>9, <1>e, <1>f
  <1>11. QED
    BY <1>10 DEF W

\* The inductive invariant: the types, and every address kept.
AttemptsInv == \A ip \in Ips : Kept(failedAttempts[ip], tries[ip], now)
AuthInv == TypeOK /\ AttemptsInv

\* The types of one address's attempts.
LEMMA AttemptsTyped ==
    ASSUME TypeOK, NEW ip \in Ips
    PROVE  /\ failedAttempts[ip] \in Attempts /\ tries[ip] \in Seq(Nat) /\ now \in Nat
           /\ tries[ip] \in Seq(0..MaxTime)
           /\ AttemptsOf(ip) \in Attempts /\ NoRecord \in Attempts
  <1>1. \A ts \in Seq(0..MaxTime) : ts \in Seq(Nat)
    BY AuthAssumption
  <1>2. NoRecord \in Attempts
    BY AuthAssumption DEF NoRecord, Attempts
  <1>3. QED
    BY <1>1, <1>2, AuthAssumption DEF TypeOK, AttemptsOf

\* The record that an attempt meets when the address is not locked out.
LEMMA RecordMet ==
    ASSUME AuthInv, NEW ip \in Ips, ~IsLockedOut(ip)
    PROVE  /\ Kept(AttemptsOf(ip), tries[ip], now)
           /\ AttemptsOf(ip).count < MAX_FAILED_ATTEMPTS
  <1> DEFINE rec == failedAttempts[ip]
             ts == tries[ip]
  <1>1. rec \in Attempts /\ ts \in Seq(Nat) /\ now \in Nat /\ Kept(rec, ts, now)
    BY AttemptsTyped DEF AuthInv, AttemptsInv
  <1>2. CASE rec.lockedUntil # Never
    <2>1. now >= rec.lockedUntil
      BY <1>1, <1>2 DEF IsLockedOut, Attempts, Never
    <2>2. AttemptsOf(ip) = NoRecord
      BY <1>2 DEF AttemptsOf
    <2> HIDE DEF rec, ts
    <2>3. Kept(NoRecord, ts, now)
      BY <1>1, <1>2, <2>1, KeptForgotten
    <2>4. NoRecord.count < MAX_FAILED_ATTEMPTS
      BY AuthAssumption DEF NoRecord
    <2>5. QED
      BY <2>2, <2>3, <2>4 DEF ts
  <1>3. CASE rec.lockedUntil = Never
    <2>1. AttemptsOf(ip) = rec
      BY <1>3 DEF AttemptsOf
    <2>2. rec.count < MAX_FAILED_ATTEMPTS
      BY <1>1, <1>3, AuthAssumption DEF Kept, Counts, Attempts
    <2>3. QED
      BY <1>1, <2>1, <2>2
  <1>4. QED
    BY <1>2, <1>3

\* What happens to the attempts of one address: nothing, a failure, a success,
\* or its record is dropped when it no longer counts.
Untouched(ip) == failedAttempts'[ip] = failedAttempts[ip] /\ tries'[ip] = tries[ip]
Succeeds(ip) == failedAttempts'[ip] = NoRecord /\ tries'[ip] = <<>>
Drops(ip) ==
    /\ \/ failedAttempts[ip].lockedUntil # Never /\ now >= failedAttempts[ip].lockedUntil
       \/ now - failedAttempts[ip].firstAttempt > 2 * LOCKOUT_DURATION
    /\ failedAttempts'[ip] = NoRecord /\ tries'[ip] = tries[ip]
FailsNow(ip) ==
    LET old == AttemptsOf(ip)
        new == failedAttempts'[ip]
    IN /\ ~IsLockedOut(ip)
       /\ new = [count |-> old.count + 1,
                 firstAttempt |-> IF old.count = 0 THEN now ELSE old.firstAttempt,
                 lockedUntil |-> IF old.count + 1 >= MAX_FAILED_ATTEMPTS
                                 THEN now + LOCKOUT_DURATION ELSE Never]
       /\ tries'[ip] = Append(tries[ip], now)

\* After a step the address is still kept.
AddressKept(ip) ==
    /\ failedAttempts'[ip] \in Attempts /\ tries'[ip] \in Seq(0..MaxTime)
    /\ Kept(failedAttempts'[ip], tries'[ip], now)

\* Each of the four keeps the address.
LEMMA AddressStep ==
    ASSUME AuthInv, NEW ip \in Ips,
           Untouched(ip) \/ Succeeds(ip) \/ Drops(ip) \/ FailsNow(ip)
    PROVE  AddressKept(ip)
  <1> DEFINE rec == failedAttempts[ip]
             ts == tries[ip]
  <1>1. /\ rec \in Attempts /\ ts \in Seq(Nat) /\ ts \in Seq(0..MaxTime)
        /\ now \in Nat /\ now \in 0..MaxTime /\ NoRecord \in Attempts
        /\ Kept(rec, ts, now)
    BY AttemptsTyped DEF AuthInv, AttemptsInv, TypeOK
  <1>2. CASE Untouched(ip)
    BY <1>1, <1>2 DEF Untouched, AddressKept
  <1>3. CASE Succeeds(ip)
    <2>1. <<>> \in Seq(0..MaxTime) /\ Kept(NoRecord, <<>>, now)
      BY <1>1, KeptEmpty
    <2>2. QED
      BY <1>1, <1>3, <2>1 DEF Succeeds, AddressKept
  <1>4. CASE Drops(ip)
    <2> HIDE DEF rec, ts
    <2>1. \/ rec.lockedUntil # Never /\ now >= rec.lockedUntil
          \/ now - rec.firstAttempt > 2 * LOCKOUT_DURATION
      BY <1>4 DEF Drops, rec
    <2>2. Kept(NoRecord, ts, now)
      BY <1>1, <2>1, KeptForgotten
    <2>3. QED
      BY <1>1, <1>4, <2>2 DEF Drops, AddressKept, ts
  <1>5. CASE FailsNow(ip)
    <2> DEFINE old == AttemptsOf(ip)
               new == failedAttempts'[ip]
    <2>1. /\ old \in Attempts /\ Kept(old, ts, now) /\ old.count < MAX_FAILED_ATTEMPTS
      BY <1>5, AttemptsTyped, RecordMet DEF FailsNow, AuthInv
    <2>2. /\ new.count = old.count + 1
          /\ new.firstAttempt = (IF old.count = 0 THEN now ELSE old.firstAttempt)
          /\ new.lockedUntil = (IF new.count >= MAX_FAILED_ATTEMPTS
                               THEN now + LOCKOUT_DURATION ELSE Never)
      BY <1>5 DEF FailsNow
    <2>3. new \in Attempts
      <3>1. old.count + 1 \in 0..MAX_FAILED_ATTEMPTS /\ old.firstAttempt \in Nat
        BY <2>1, AuthAssumption DEF Attempts
      <3>2. now + LOCKOUT_DURATION \in Nat /\ now \in Nat
        BY <1>1, AuthAssumption
      <3> HIDE DEF old
      <3>3. QED
        BY <1>5, <3>1, <3>2 DEF FailsNow, Attempts, old
    <2>4. tries'[ip] = Append(ts, now) /\ Append(ts, now) \in Seq(0..MaxTime)
      BY <1>1, <1>5 DEF FailsNow
    <2> HIDE DEF old, new, ts
    <2>5. Kept(new, Append(ts, now), now)
      BY <1>1, <2>1, <2>2, <2>3, KeptFailure
    <2>6. QED
      BY <2>3, <2>4, <2>5 DEF AddressKept, new
  <1>6. QED
    BY <1>2, <1>3, <1>4, <1>5

\* Every step is one of the four for every address, or the passing of time.
LEMMA AttemptsStep ==
    ASSUME AuthInv, [Next]_vars
    PROVE  /\ now' \in 0..MaxTime
           /\ failedAttempts' \in [Ips -> Attempts] /\ tries' \in [Ips -> Seq(0..MaxTime)]
           /\ AttemptsInv'
  <1>t. /\ now \in 0..MaxTime /\ now \in Nat
        /\ failedAttempts \in [Ips -> Attempts] /\ tries \in [Ips -> Seq(0..MaxTime)]
    BY AuthAssumption DEF AuthInv, TypeOK
  <1>1. CASE Tick
    <2>1. now' \in 0..MaxTime /\ now' \in Nat /\ now <= now'
      BY <1>1, <1>t, AuthAssumption DEF Tick
    <2>2. failedAttempts' = failedAttempts /\ tries' = tries
      BY <1>1 DEF Tick
    <2>3. \A ip \in Ips : Kept(failedAttempts[ip], tries[ip], now')
      <3> SUFFICES ASSUME NEW ip \in Ips PROVE Kept(failedAttempts[ip], tries[ip], now')
        OBVIOUS
      <3>1. /\ failedAttempts[ip] \in Attempts /\ tries[ip] \in Seq(Nat)
            /\ Kept(failedAttempts[ip], tries[ip], now)
        BY AttemptsTyped DEF AuthInv, AttemptsInv
      <3>2. QED
        BY <1>t, <2>1, <3>1, KeptLater
    <2>4. QED
      BY <1>t, <2>1, <2>2, <2>3 DEF AttemptsInv
  <1>2. CASE ~Tick
    <2>1. now' = now
      BY <1>2 DEF Next, Cleanup, BadToken, Request, ExpiredToken,
                  CreateSession, RevokeRequest,
                  RevokeNothing, RevokeSession, vars
    <2>2. \A ip \in Ips : Untouched(ip) \/ Succeeds(ip) \/ Drops(ip) \/ FailsNow(ip)
      <3> SUFFICES ASSUME NEW ip \in Ips
                   PROVE  Untouched(ip) \/ Succeeds(ip) \/ Drops(ip) \/ FailsNow(ip)
        OBVIOUS
      <3>a. failedAttempts[ip] \in Attempts /\ now \in Nat
        BY <1>t
      <3>1. CASE Cleanup
        BY <3>1, <3>a DEF Cleanup, Stale, Drops, Untouched, Attempts, Never
      <3>2. ASSUME NEW jp \in Ips, BadToken(jp)
            PROVE  Untouched(ip) \/ FailsNow(ip)
        <4>1. CASE ip = jp
          BY <1>t, <3>2, <4>1 DEF BadToken, RecordFailure, FailsNow
        <4>2. CASE ip # jp
          BY <1>t, <3>2, <4>2 DEF BadToken, RecordFailure, Untouched
        <4>3. QED
          BY <4>1, <4>2
      <3>3. ASSUME NEW jp \in Ips, Authenticated(jp)
            PROVE  Untouched(ip) \/ Succeeds(ip)
        BY <1>t, <3>3 DEF Authenticated, ForgetFailures, Untouched, Succeeds
      <3>4. ASSUME NEW jp \in Ips, NEW s, ExpiredToken(jp, s)
            PROVE  Untouched(ip) \/ Drops(ip)
        BY <1>t, <3>4, <3>a DEF ExpiredToken, IsLockedOut, AttemptsOf, Untouched,
                          Drops, Attempts,
                          Never
      <3>5. CASE UNCHANGED <<failedAttempts, tries>>
        BY <3>5 DEF Untouched
      <3>6. QED
        BY <1>2, <3>1, <3>2, <3>3, <3>4, <3>5
           DEF Next, Request, CreateSession, RevokeRequest,
               RevokeNothing, RevokeSession, vars
    <2>3. \A ip \in Ips : AddressKept(ip)
      BY <2>2, AddressStep
    <2>4. /\ DOMAIN failedAttempts' = Ips /\ DOMAIN tries' = Ips
          /\ failedAttempts' = [ip \in Ips |-> failedAttempts'[ip]]
          /\ tries' = [ip \in Ips |-> tries'[ip]]
      BY <1>2, <1>t DEF Next, Cleanup, BadToken, RecordFailure, Request,
                  Authenticated,
                  ForgetFailures, ExpiredToken, CreateSession, RevokeRequest,
                  RevokeNothing, RevokeSession, vars
    <2>5. QED
      BY <1>t, <2>1, <2>3, <2>4 DEF AddressKept, AttemptsInv
  <1>3. QED
    BY <1>1, <1>2

\* Sessions are added, dropped and expired within their types.
LEMMA SessionsStep ==
    ASSUME TypeOK, [Next]_vars
    PROVE  /\ session' \in Seq(Sessions) /\ Len(session') <= MaxSessions
           /\ revoking' \subseteq RevokeRequests
  <1>t. /\ session \in Seq(Sessions) /\ Len(session) <= MaxSessions
        /\ revoking \subseteq RevokeRequests /\ now \in Nat
    BY AuthAssumption DEF TypeOK
  <1>1. \A x \in Sessions : [x EXCEPT !.present = FALSE] \in Sessions
    BY DEF Sessions
  <1>2. ASSUME NEW s \in DOMAIN session, session' = [session EXCEPT ![s].present = FALSE]
        PROVE  session' \in Seq(Sessions) /\ Len(session') <= MaxSessions
    BY <1>t, <1>1, <1>2
  <1>3. CASE Cleanup
    <2> DEFINE n == Len(session)
               f == [s \in 1..n |->
                       IF Expired(s) THEN [session[s] EXCEPT !.present = FALSE]
                       ELSE session[s]]
    <2>1. n \in Nat /\ f \in [1..n -> Sessions]
      BY <1>t, <1>1
    <2>2. session' = f
      BY <1>3, <1>t DEF Cleanup
    <2> HIDE DEF f
    <2>3. f \in Seq(Sessions) /\ Len(f) = n
      BY <2>1
    <2>4. QED
      BY <1>3, <1>t, <2>2, <2>3 DEF Cleanup
  <1>4. ASSUME NEW ip \in Ips, NEW client \in Keys, CreateSession(ip, client)
        PROVE  /\ session' \in Seq(Sessions) /\ Len(session') <= MaxSessions
               /\ revoking' = revoking
    <2> DEFINE x == [client |-> client, expiresAt |-> now + SESSION_TTL, present |-> TRUE]
    <2>1. x \in Sessions
      BY <1>t, AuthAssumption DEF Sessions
    <2>2. session' = Append(session, x) /\ Len(session) < MaxSessions /\ revoking' = revoking
      BY <1>4 DEF CreateSession
    <2> HIDE DEF x
    <2>3. QED
      BY <1>t, <2>1, <2>2, AuthAssumption
  <1>5. CASE UNCHANGED <<session, revoking>>
    BY <1>5, <1>t
  <1>6. CASE \E ip \in Ips : \E r \in RevokeRequests : RevokeRequest(ip, r)
    BY <1>6, <1>t DEF RevokeRequest
  <1>7. CASE \E r \in RevokeRequests :
                \/ RevokeNothing(r)
                \/ \E s \in DOMAIN session : RevokeSession(r, s)
    BY <1>7, <1>2, <1>t DEF RevokeNothing, RevokeSession
  <1>8. CASE \E ip \in Ips : \E s \in DOMAIN session : ExpiredToken(ip, s)
    BY <1>8, <1>2, <1>t DEF ExpiredToken
  <1>9. QED
    BY <1>t, <1>3, <1>4, <1>5, <1>6, <1>7, <1>8
       DEF Next, Tick, BadToken, Request, vars

\* The inductive invariant: whatever requests, successes, the timer and the end of
\* lock-outs do to a record, it counts the last failures of its address, locks when
\* they reach the limit, and forgets only what no longer matters (auth.js:182-216).
THEOREM AttemptsCounted == Spec => []AuthInv
  <1>1. Init => AuthInv
    <2> SUFFICES ASSUME Init PROVE AuthInv
      OBVIOUS
    <2>1. NoRecord \in Attempts /\ 0 \in Nat /\ 0 \in 0..MaxTime
      BY AuthAssumption DEF NoRecord, Attempts
    <2>2. TypeOK
      BY <2>1, AuthAssumption DEF Init, TypeOK
    <2>3. Kept(NoRecord, <<>>, 0)
      BY <2>1, KeptEmpty
    <2>4. AttemptsInv
      BY <2>3 DEF Init, AttemptsInv
    <2>5. QED
      BY <2>2, <2>4 DEF AuthInv
  <1>2. AuthInv /\ [Next]_vars => AuthInv'
    BY AttemptsStep, SessionsStep DEF AuthInv, TypeOK
  <1>3. QED
    BY <1>1, <1>2, PTL DEF Spec

\* The records of the attempts, the sessions and the revocations under way keep
\* their types, through every route and the timer (auth.js:45-216).
THEOREM AuthTypeCorrect == Spec => []TypeOK
  BY AttemptsCounted, PTL DEF AuthInv

\* Between two successes an address tries a wrong token, within the length of one
\* lock-out, fewer than twice MAX_FAILED_ATTEMPTS times, whatever the limit and the
\* length are: the records that isLockedOut and the timer forget let no more through.
THEOREM TriesAlwaysBounded == Spec => []TriesBounded
  <1>1. AuthInv => TriesBounded
    <2> SUFFICES ASSUME AuthInv PROVE TriesBounded
      OBVIOUS
    <2>1. ASSUME NEW ip \in Ips, NEW i \in DOMAIN tries[ip]
          PROVE  Cardinality({j \in DOMAIN tries[ip] :
                    tries[ip][j] \in tries[ip][i]..(tries[ip][i] + LOCKOUT_DURATION - 1)})
                       < 2 * MAX_FAILED_ATTEMPTS
      <3>1. /\ tries[ip] \in Seq(Nat) /\ now \in Nat /\ i \in 1..Len(tries[ip])
            /\ InOrder(tries[ip], now) /\ Spread(tries[ip])
        BY AttemptsTyped DEF AuthInv, AttemptsInv, Kept
      <3>2. QED
        BY <3>1, SpreadBounds
    <2>2. \A S : Cardinality(S) = Cardinality(S)
      BY Zenon DEF Cardinality, Cardinality
    <2>3. QED
      BY <2>1, <2>2 DEF TriesBounded
  <1>2. QED
    BY <1>1, AttemptsCounted, PTL

=============================================================================
