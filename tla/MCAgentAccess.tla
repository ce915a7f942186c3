---------------------------- MODULE MCAgentAccess ----------------------------
(* One chat and, in its place, a request of each other kind.                 *)
EXTENDS AgentAccess

CONSTANTS default, work

MCProfiles == {default, work}
MCScopes == {{}, {default}}

Ask(method, profile, path, bearer, body) ==
  [method |-> method, profile |-> profile, path |-> path, bearer |-> bearer,
   body |-> body, asked |-> default]

MCRequests ==
  {Ask("POST", work, "chat/completions", "device", "fits"),
   Ask("POST", Unprefixed, "chat/completions", "device", "bad attachment"),
   Ask("GET", Unprefixed, "jobs", "legacy", "fits"),
   Ask("GET", work, "sessions", "device", "fits"),
   Ask("PUT", Unprefixed, "models/config", "device", "fits"),
   Ask("GET", work, "models/config", "device", "fits"),
   Ask("GET", Malformed, "models/config", "device", "fits"),
   Ask("POST", Unprefixed, "models/config", "legacy", "fits"),
   Ask("GET", Unprefixed, "model-config", "legacy", "fits"),
   Ask("GET", Unprefixed, "health", "device", "fits"),
   Ask("GET", Unprefixed, "notifications/direct", "device", "fits"),
   Ask("POST", Unprefixed, "cloud/configure", "legacy", "fits"),
   Ask("GET", Malformed, "sessions", "device", "fits"),
   Ask("PATCH", Unprefixed, "jobs", "device", "too long"),
   Ask("DELETE", Unprefixed, "pairing/device", "device", "fits"),
   Ask("DELETE", Unprefixed, "pairing/device", "legacy", "fits")}

\* A device that may read one Profile asks for another one's configuration.
MCQuery ==
  {[Ask("GET", Unprefixed, "model-config", "device", "fits") EXCEPT !.asked = profile] :
     profile \in {default, work, Malformed}}
=============================================================================
