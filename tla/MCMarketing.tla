---------------------------- MODULE MCMarketing ----------------------------
(* One execution of two jobs in two replicas; two of everything else. *)
EXTENDS Marketing
=============================================================================
