--------------------------- MODULE MCDirectStream ---------------------------
(* Three chats, one of them on a Profile that comes and goes.                *)
EXTENDS DirectStream, TLC

MCEvent ==
  "p1" :> [id |-> "a", key |-> "k", profile |-> "work"] @@
  "p2" :> [id |-> "b", key |-> "l", profile |-> "home"] @@
  "p3" :> [id |-> "c", key |-> "m", profile |-> "work"]

MCPublishers == DOMAIN MCEvent
=============================================================================
