------------------------------- MODULE MCOutbox -------------------------------
(* Small instances of Outbox for TLC. *)
EXTENDS OutboxRefinement

CONSTANTS s1, s2

\* Every session is claimed on its own.
MCGroupOf(s) == s
===============================================================================
