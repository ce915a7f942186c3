----------------------------- MODULE AgentAccess -----------------------------
(***************************************************************************)
(* The way of a request to the Agent: what the bridge serves itself and    *)
(* what it forwards, how a device's token becomes the Agent's key, and how  *)
(* that key is created and rotated under running requests.                 *)
(*                                                                         *)
(* Composes ChatRelay: what happens to a chat that the Agent accepted is    *)
(* told there.  A credential is known by its number: the file holds the    *)
(* last one written; the Agent and the server's container each hold the    *)
(* one that was in the file when they were started or created.             *)
(***************************************************************************)
EXTENDS ChatRelay

CONSTANTS
  Profiles,      \* names of Profiles, which all match PROFILE_ID_PATTERN
  Default,       \* the Profile of a path that names none
  Unprefixed,    \* the path names no Profile
  Malformed,     \* what stands in the Profile's place matches no name
  Requests,      \* the requests that occur
  Scopes,        \* the scopes of the App's device that occur
  MaxDeploys     \* bound: how often a deployment script is run

Methods == {"GET", "POST", "PUT", "PATCH", "DELETE"}

\* The part of a path behind /hermes-link/v1/, with or without a Profile.
ExactPaths ==
  {"models", "models/config", "models/options", "chat/completions", "chat/cancel",
   "pairing", "pairing/device", "cloud/identity", "cloud/configure", "cloud/binding"}

PrefixPaths == {"jobs", "sessions", "notifications/devices"}

\* What the bridge serves itself, under a path without a Profile: to anybody,
\* and to who may control the Cloud and the notifications.
OpenPaths ==
  {"GET"} \X {"server-info", "health", "tasks", "logs"} \cup {<<"POST", "pairing">>}

ControlPaths ==
  {"GET"} \X {"notifications/direct", "cloud/identity"}
  \cup {"POST"} \X {"cloud/attestation", "cloud/configure"}
  \cup {<<"DELETE", "cloud/configure">>}

Paths ==
  ExactPaths \cup PrefixPaths
  \cup {"server-info", "health", "tasks", "logs", "notifications/direct",
        "cloud/attestation", "model-config", "unknown"}

\* "device": the App's hmd_ token; "legacy": the first credential itself.
\* asked: the Profile in the query, Default when there is none.
Request ==
  [method : Methods, profile : Profiles \cup {Unprefixed, Malformed}, path : Paths,
   bearer : {"device", "legacy"}, body : {"fits", "too long", "bad attachment"},
   asked : Profiles \cup {Malformed}]

ASSUME AgentAccessAssumption ==
  /\ Default \in Profiles
  /\ Unprefixed \notin Profiles /\ Malformed \notin Profiles
  /\ Requests \subseteq Request
  /\ Scopes \subseteq SUBSET Profiles
  /\ MaxDeploys \in Nat

VARIABLES
  request,     \* what each chat's App asks for
  gate,        \* how far the request came before a chat is relayed
  key,         \* the credential the bridge puts into it
  scope,       \* the Profiles of the App's device, {} for all
  revoked,     \* is the device revoked?
  late,        \* history: did the request arrive after that?
  kind,        \* how the server runs: a Docker container or a systemd unit
  credential,  \* the number of the credential in the file, 0 for no file
  agentKey,    \* the one the Agent runs with
  serverKey,   \* the one the server's environment holds
  deploy,      \* the next step of the deployment script
  outcome,     \* how the last run of it ended
  deploys      \* how often it was run

accessVars == <<request, gate, key, scope, revoked, late>>
keyVars == <<kind, credential, agentKey, serverKey, deploy, outcome, deploys>>
allVars == <<vars, accessVars, keyVars>>

Gate == {"new", "authorised", "answered", "not found", "bad request", "denied",
         "no key", "unsupported", "unavailable", "rejected", "accepted", "lost"}

-----------------------------------------------------------------------------
(* Paths. *)

At(r) == <<r.method, r.path>>

\* Model configurations have two paths, only one of which can name a Profile.
AsksConfig(r) ==
  /\ r.method \in {"GET", "POST"}
  /\ r.path = "models/config" \/ (r.path = "model-config" /\ r.profile = Unprefixed)

RevokesItself(r) ==
  At(r) = <<"DELETE", "pairing/device">> /\ r.profile = Unprefixed /\ r.bearer = "device"

\* do_GET, do_POST and do_DELETE look at their own paths first.
ServedHere(r) ==
  \/ r.profile = Unprefixed /\ At(r) \in OpenPaths \cup ControlPaths
  \/ AsksConfig(r)
  \/ RevokesItself(r)

\* protocol_to_agent_path is not None.
Translated(r) == r.profile # Malformed /\ r.path \in ExactPaths \cup PrefixPaths

\* What it is then: the Profile, if one is named, becomes a /p/ prefix.
AgentPath(r) ==
  IF r.profile = Unprefixed THEN <<r.path>> ELSE <<"p", r.profile, r.path>>

\* The Profile whose data the Agent serves under such a path.
AgentReads(path) == IF path[1] = "p" THEN path[2] ELSE Default

\* Mutated form: the prefix is cut off before the Profile is looked up.
CheckedDefault(r) == IF r.profile = Malformed THEN Malformed ELSE Default

\* _profile_id_for_protocol_path, which decides what a device is checked for.
CheckedProfile(r) == IF r.profile = Unprefixed THEN Default ELSE r.profile

\* The Profile whose model configuration the bridge tells: the one asked for in
\* the query, or that of the path (_model_config_profile_id).
ConfigProfile(r) ==
  IF r.path = "model-config" THEN r.asked
  ELSE IF r.profile = Unprefixed THEN Default ELSE r.profile

IsChat(r) == r.path = "chat/completions"

InScope(profile) == profile \in Profiles /\ (scope = {} \/ profile \in scope)

-----------------------------------------------------------------------------
AccessInit ==
  /\ Init
  /\ request \in [Chats -> Requests]
  /\ gate = [c \in Chats |-> "new"]
  /\ key = [c \in Chats |-> 0]
  /\ scope \in Scopes
  /\ revoked = FALSE
  /\ late = [c \in Chats |-> FALSE]
  /\ kind \in {"docker", "native"}
  /\ credential \in IF kind = "docker" THEN {1} ELSE {0, 1}
  /\ agentKey = credential
  /\ serverKey = credential
  /\ deploy = "idle"
  /\ outcome = "none"
  /\ deploys = 0

Pass(c, next) == gate' = [gate EXCEPT ![c] = next]

\* The chat never starts, or its request is none.
Leave(c, next) == gate[c] \in {"new", "authorised"} /\ Pass(c, next) /\ OpenOther(c)

-----------------------------------------------------------------------------
(* Requests. *)

\* The device's row is looked up, for the Profile of the path.
DeviceAllowed(r) == ~revoked /\ InScope(CheckedProfile(r))

Arrives(c) ==
  /\ gate[c] = "new"
  /\ pc[c] = "idle"
  /\ late' = [late EXCEPT ![c] = revoked]

\* _authorize_model_config: a device, for the Profile of the path whatever the
\* query asks for, or the holder of the server's own key; then the list of the
\* Profiles and the exporter's file decide.
ConfigAnswers(r) ==
  IF ConfigProfile(r) = Malformed THEN {"bad request"}
  ELSE IF r.bearer = "device" /\ ~DeviceAllowed(r) THEN {"denied"}
  ELSE IF r.bearer = "device" /\ serverKey = 0 THEN {"no key"}
  ELSE IF r.bearer = "legacy" /\ serverKey # 1 THEN {"denied"}
  ELSE IF r.method = "POST" THEN {"unsupported"}
  ELSE {"answered", "not found", "unavailable"}

\* _cloud_control_profiles: a device for any of its Profiles, or the holder of
\* the server's own key; no notifications without a Profile that is there.
ControlAnswers(r) ==
  IF (r.bearer = "device" /\ revoked) \/ (r.bearer = "legacy" /\ serverKey # 1)
  THEN {"denied"}
  ELSE {"answered"} \cup IF r.path = "notifications/direct" THEN {"denied"} ELSE {}

\* "answered" stands for all that an endpoint does once it lets a request in.
LocalAnswers(r) ==
  IF AsksConfig(r) THEN ConfigAnswers(r)
  ELSE IF RevokesItself(r) THEN {IF revoked THEN "denied" ELSE "answered"}
  ELSE IF At(r) \in ControlPaths THEN ControlAnswers(r)
  ELSE {"answered"}

ServeLocally(c) ==
  LET r == request[c] IN
  /\ Arrives(c)
  /\ ServedHere(r)
  /\ \E answer \in LocalAnswers(r) : Leave(c, answer)
  /\ revoked' = (revoked \/ RevokesItself(r))
  /\ UNCHANGED <<request, key, scope, keyVars>>

\* prepare_agent_headers: a device's token is replaced by the server's key.
UpstreamKey(r) == IF r.bearer = "device" THEN serverKey ELSE 1

\* The first half of _proxy_agent: path, length, token, attachments, in this
\* order.
Authorise(c) ==
  LET r == request[c]
      refusal == IF ~Translated(r) THEN "not found"
                 ELSE IF r.body = "too long" THEN "bad request"
                 ELSE IF r.bearer = "device" /\ ~DeviceAllowed(r) THEN "denied"
                 ELSE IF r.bearer = "device" /\ serverKey = 0 THEN "no key"
                 ELSE IF IsChat(r) /\ r.body = "bad attachment" THEN "bad request"
                 ELSE "none" IN
  /\ Arrives(c)
  /\ ~ServedHere(r)
  /\ \/ /\ refusal = "none"
        /\ Pass(c, "authorised")
        /\ key' = [key EXCEPT ![c] = UpstreamKey(r)]
        /\ UNCHANGED vars
     \/ refusal # "none" /\ Leave(c, refusal) /\ UNCHANGED key
  /\ UNCHANGED <<request, scope, revoked, keyVars>>

\* urlopen: the Agent is not there, or has no key and so no API; it knows the
\* key or refuses the request with a status that the App gets; it accepts, and
\* a chat's answer is a stream or something else.
Forward(c) ==
  /\ gate[c] = "authorised"
  /\ \/ Leave(c, "unavailable")
     \/ agentKey # 0 /\ key[c] # agentKey /\ Leave(c, "rejected")
     \/ agentKey # 0 /\ key[c] = agentKey /\ Leave(c, "accepted")
     \/ /\ agentKey # 0 /\ key[c] = agentKey
        /\ IsChat(request[c])
        /\ Pass(c, "accepted")
        /\ Open(c)
  /\ UNCHANGED <<request, key, scope, revoked, late, keyVars>>

\* What ChatRelay does with an accepted chat.
RelayStep ==
  /\ \E c \in Chats : AgentStep(c) \/ Thread(c) \/ PublishCloud(c)
  /\ UNCHANGED <<accessVars, keyVars>>

RevokeDevice ==
  /\ ~revoked
  /\ revoked' = TRUE
  /\ UNCHANGED <<vars, request, gate, key, scope, late, keyVars>>

-----------------------------------------------------------------------------
(* The processes. *)

\* The server's process ends with every request it works on.
ServerEnds ==
  /\ Die
  /\ gate' = [c \in Chats |-> IF gate[c] = "authorised" THEN "lost" ELSE gate[c]]
  /\ UNCHANGED <<request, key, scope, revoked, late>>

\* It is started again: a unit reads its environment file anew, a container
\* keeps the environment it was created with.
KeyAfterRestart == IF kind = "native" THEN credential ELSE serverKey

CrashServer ==
  /\ crashes < MaxCrashes
  /\ crashes' = crashes + 1
  /\ ServerEnds
  /\ serverKey' = KeyAfterRestart
  /\ UNCHANGED <<kind, credential, agentKey, deploy, outcome, deploys>>

\* The Agent starts anew: it reads the file, and its open streams end.
AgentStarts ==
  /\ agentKey' = credential
  /\ \E end \in {"closed", "broken"} :
       agent' = [c \in Chats |-> IF pc[c] = "relaying" /\ agent[c] \in {"answering", "finished"}
                                 THEN end ELSE agent[c]]
  /\ UNCHANGED <<named, emitted, pc, read, terminal, connected, sent, notice, cloud>>
  /\ UNCHANGED accessVars

CrashAgent ==
  /\ crashes < MaxCrashes
  /\ crashes' = crashes + 1
  /\ AgentStarts
  /\ UNCHANGED <<kind, credential, serverKey, deploy, outcome, deploys>>

\* The host goes down: every process, and a script that was running.
Reboot ==
  /\ crashes < MaxCrashes
  /\ crashes' = crashes + 1
  /\ ServerEnds
  /\ agentKey' = credential
  /\ serverKey' = KeyAfterRestart
  /\ deploy' = "idle"
  /\ outcome' = IF deploy = "idle" THEN outcome ELSE "failed"
  /\ UNCHANGED <<kind, credential, deploys>>

-----------------------------------------------------------------------------
(* bootstrap-hermes-agent-access.sh for a unit, docker-deploy.sh around it   *)
(* for a container.                                                        *)

\* manage-internal-credential.py: an existing credential is replaced only on
\* request; the new file replaces the old one in one step.
WriteCredential ==
  /\ deploy = "idle"
  /\ deploys < MaxDeploys
  /\ deploys' = deploys + 1
  /\ \E rotate \in BOOLEAN :
       \/ /\ credential # 0 /\ ~rotate
          /\ UNCHANGED <<credential, deploy, outcome>>
       \/ /\ credential = 0 \/ rotate
          /\ credential' = credential + 1
          /\ deploy' = "agent"
          /\ outcome' = "running"
  /\ UNCHANGED <<vars, accessVars, kind, agentKey, serverKey>>

RestartAgent ==
  /\ deploy = "agent"
  /\ deploy' = "server"
  /\ AgentStarts
  /\ UNCHANGED <<crashes, kind, credential, serverKey, outcome, deploys>>

ReplaceServerBy(newKey) ==
  /\ deploy = "server"
  /\ deploy' = "idle"
  /\ outcome' = "ready"
  /\ serverKey' = newKey
  /\ ServerEnds
  /\ UNCHANGED <<crashes, kind, credential, agentKey, deploys>>

\* Mutated form: a container is restarted instead of recreated.
RestartServer == ReplaceServerBy(KeyAfterRestart)

\* compose up --force-recreate, or systemctl restart.
ReplaceServer == ReplaceServerBy(credential)

\* A step fails or the script is interrupted: nothing is undone.
FailDeploy ==
  /\ deploy # "idle"
  /\ deploy' = "idle"
  /\ outcome' = "failed"
  /\ UNCHANGED <<vars, accessVars, kind, credential, agentKey, serverKey, deploys>>

-----------------------------------------------------------------------------
Deployment == WriteCredential \/ RestartAgent \/ ReplaceServer \/ FailDeploy

AccessNext ==
  \/ \E c \in Chats : ServeLocally(c) \/ Authorise(c) \/ Forward(c)
  \/ RelayStep
  \/ RevokeDevice
  \/ CrashServer \/ CrashAgent \/ Reboot
  \/ Deployment

AccessSpec == AccessInit /\ [][AccessNext]_allVars

\* As in ChatRelay.  Nobody owes a request, a deployment or its next step.
AccessFairSpec ==
  AccessSpec /\ \A c \in Chats : WF_vars(ThreadAlone(c)) /\ WF_vars(PublishCloud(c))

-----------------------------------------------------------------------------
(* Properties. *)

\* Types of the requests and the credentials, and of the chats.
AccessTypeOK ==
  /\ TypeOK
  /\ request \in [Chats -> Requests]
  /\ gate \in [Chats -> Gate]
  /\ key \in [Chats -> 0..credential \cup {1}]
  /\ scope \in Scopes
  /\ revoked \in BOOLEAN
  /\ late \in [Chats -> BOOLEAN]
  /\ kind \in {"docker", "native"}
  /\ credential \in Nat
  /\ agentKey \in 0..credential
  /\ serverKey \in 0..credential
  /\ deploy \in {"idle", "agent", "server"}
  /\ outcome \in {"none", "running", "ready", "failed"}
  /\ deploys \in Nat

Permitted == IF scope = {} THEN Profiles ELSE scope

\* The Profile that was checked is the one that is served: what the Agent is
\* asked in the name of a device is of a Profile in the device's scope, as the
\* Agent reads the path, and so is a model configuration that is told under
\* models/config.  And a request that arrives after the revocation gets nothing
\* of the Agent, nor of the bridge where it asks who is there.
ForwardedIsAuthorised ==
  \A c \in Chats :
    LET r == request[c]
        forwarded == gate[c] \in {"rejected", "accepted"}
        answered == gate[c] = "answered" IN
    r.bearer = "device" =>
      /\ forwarded => AgentReads(AgentPath(r)) \in Permitted
      /\ answered /\ AsksConfig(r) /\ r.path = "models/config"
           => ConfigProfile(r) \in Permitted
      /\ late[c] => ~forwarded /\ (answered => At(r) \in OpenPaths)

\* Every Profile-scoped operation is authorized against the authenticated device
\* token: each model configuration a device is told is of its scope.
ToldIsAuthorised ==
  \A c \in Chats :
    request[c].bearer = "device" /\ gate[c] = "answered" /\ AsksConfig(request[c])
      => ConfigProfile(request[c]) \in Permitted

\* A rotation takes effect: a device whose request is in order is refused by the
\* Agent only while one is under way or after one that did not come to its end,
\* never once a deployment reported success, whatever restarted since; and from
\* then on the first credential, when it was replaced, opens nothing any more,
\* neither the Agent nor the bridge's own guarded paths.
RotationTakesEffect ==
  [][\A c \in Chats :
       LET r == request[c]
           opened == \/ gate'[c] = "accepted"
                     \/ gate'[c] = "answered" /\ At(r) \notin OpenPaths IN
       /\ r.bearer = "device" /\ gate[c] = "authorised" /\ gate'[c] = "rejected"
            => outcome \in {"running", "failed"}
       /\ r.bearer = "legacy" /\ gate'[c] # gate[c] /\ opened
            => outcome # "ready" \/ credential = 1]_allVars
=============================================================================
