------------------------------ MODULE MCGateway ------------------------------
(***************************************************************************)
(* An instance of Gateway for TLC: the lending and the collection agent    *)
(* with their tiers, an unrestricted client and one of tier Operate for    *)
(* the collection agent alone.                                             *)
(***************************************************************************)
EXTENDS Gateway

MCAgentTier == [lending |-> 2, collection |-> 1]

MCDailyLimit == [lending |-> 2, collection |-> 1]

MCClients ==
    {[tier |-> 3, allowedAgents |-> {"lending", "collection"}],
     [tier |-> 1, allowedAgents |-> {"collection"}]}

=============================================================================
