---------------------------- MODULE MCRateLimit ----------------------------
(***************************************************************************)
(* A small instance of RateLimit for TLC: the counter in the database, and *)
(* a client that waits.                                                    *)
(***************************************************************************)
EXTENDS RateLimit
=============================================================================
