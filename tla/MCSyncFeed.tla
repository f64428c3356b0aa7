----------------------------- MODULE MCSyncFeed -----------------------------
(* Three captures in two milliseconds. *)
EXTENDS SyncFeed
=============================================================================
