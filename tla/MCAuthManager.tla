---------------------------- MODULE MCAuthManager ----------------------------
(***************************************************************************)
(* An instance of AuthManager for TLC: one address, whose lock-out is short*)
(* enough for a second one, and for the timer to lift the first.           *)
(***************************************************************************)
EXTENDS AuthManager

=============================================================================
