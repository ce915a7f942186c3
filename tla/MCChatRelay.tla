----------------------------- MODULE MCChatRelay -----------------------------
(* One chat, relayed from an Agent that may fail in every way.               *)
EXTENDS ChatRelay

=============================================================================
