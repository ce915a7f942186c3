--------------------------- MODULE MCDirectEvents ---------------------------
(* Publishers that repeat ids and keys, against a window of two events.      *)
EXTENDS DirectEvents, TLC

\* p1 and p2 are one event sent twice, p3 shares only p1's dedupe key, p4 and
\* p5 are other events of other chats.
MCEvent ==
  "p1" :> [id |-> "a", key |-> "k", profile |-> "work"] @@
  "p2" :> [id |-> "a", key |-> "k", profile |-> "work"] @@
  "p3" :> [id |-> "b", key |-> "k", profile |-> "work"] @@
  "p4" :> [id |-> "c", key |-> "l", profile |-> "home"] @@
  "p5" :> [id |-> "d", key |-> "m", profile |-> "home"]

MCPublishers == DOMAIN MCEvent
=============================================================================
