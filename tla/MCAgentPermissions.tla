------------------------ MODULE MCAgentPermissions ------------------------
(***************************************************************************)
(* An instance of AgentPermissions for TLC: a day is two units of time and *)
(* the rotation delay two days, as in the program; the breaker's threshold *)
(* is 1/10 and a u16 holds 65 tenths, as 65536 bps are 6.5 times a whole.  *)
(* Either admin may be the first one, so that the two are interchangeable. *)
(***************************************************************************)
EXTENDS AgentPermissions, TLC

CONSTANTS w1, a1, a2, nokey

AdminSymmetry == Permutations(Admins)

=============================================================================
