----------------------------- MODULE ModelConfig -----------------------------
(***************************************************************************)
(* The model configuration an App sees of each Profile.                    *)
(*                                                                         *)
(* A Profile's config.yaml belongs to the Agent.  The exporter, a container *)
(* without network, copies its public part to one snapshot per Profile,    *)
(* every 30 seconds; the bridge, in a container that may not read the      *)
(* file, answers Apps from the snapshots.  Which Profiles are exported and *)
(* served is HERMES_LINK_PROFILE_IDS in .env, which each container captured *)
(* when it was created: `hermes-link sync' looks for Profiles, writes .env  *)
(* and recreates the containers, `hermes-link restart' only restarts them. *)
(***************************************************************************)
EXTENDS Integers

CONSTANTS
  Profiles,     \* names of Profiles, which all match PROFILE_ID_PATTERN
  Default,      \* the Profile that needs no directory
  Text,         \* texts of model names, providers and levels; "" is one
  NotInteger,   \* a max_tokens that is no integer
  Configs,      \* the valid contents of config.yaml that occur
  Invalid,      \* no config.yaml, or one that is unreadable, no YAML or no mapping
  NoDirectory,  \* no directory
  NULL,
  MaxEdits,     \* bound: changes of the Agent's files
  MaxSyncs,     \* bound: how often the operator runs `sync'
  MaxFaults     \* bound: crashes, failing writes and failing steps of `sync'

\* The parts of a config.yaml that the exporter looks at.  `model' is a mapping
\* or a text, which then is its `default'.
ModelEntry ==
  [shape : {"mapping", "text"}, default : Text, name : Text, provider : Text,
   max_tokens : Int \cup {NotInteger}]

AgentEntry == [reasoning_effort : Text, service_tier : Text]

Config == [model : ModelEntry, agent : AgentEntry]

\* What the Server may tell Apps of a Profile.
PublicConfig ==
  [profile : Profiles, model : Text, provider : Text, max_tokens : Int,
   reasoning_effort : Text, service_tier : Text]

ASSUME ModelConfigAssumption ==
  /\ Default \in Profiles
  /\ "" \in Text
  /\ NotInteger \notin Int
  /\ Configs \subseteq Config
  /\ {Invalid, NoDirectory} \cap Configs = {}
  /\ NULL \notin Profiles /\ NULL \notin PublicConfig
  /\ MaxEdits \in Nat /\ MaxSyncs \in Nat /\ MaxFaults \in Nat

VARIABLES
  home,       \* each Profile's config.yaml
  listed,     \* HERMES_LINK_PROFILE_IDS in .env
  exported,   \* the same as the exporter's container was created with
  served,     \* the same as the server's container was created with
  up,         \* the containers that run
  todo,       \* the exporter: Profiles of this pass still to be visited
  at,         \* the exporter: the Profile it is visiting
  read,       \* the exporter: what it read of it
  snapshots,  \* the file of each Profile in the exporter's directory
  sync,       \* the next step of `sync', "idle" when it is not running
  found,      \* its local variable profiles
  result,     \* how the last `sync' ended
  during,     \* history: what each file held since this pass began
  since,      \* history: what it held since the last complete pass over it began
  edits, syncs, faults

exporterVars == <<todo, at, read, snapshots>>
containers == <<exported, served, up>>
syncVars == <<listed, sync, found, result, syncs>>
vars == <<home, listed, exported, served, up, todo, at, read, snapshots, sync,
          found, result, during, since, edits, syncs, faults>>

Source == Configs \cup {Invalid, NoDirectory}

SyncStep == {"idle", "env", "replace exporter", "start exporter",
             "replace server", "start server", "health"}

-----------------------------------------------------------------------------
\* _public_model_config: the allowlist.  Cutting texts to their limits is left
\* out.
Public(p, config) ==
  LET model == config.model
      mapping == model.shape = "mapping" IN
  [profile |-> p,
   model |-> IF mapping /\ model.default = "" THEN model.name ELSE model.default,
   provider |-> IF mapping THEN model.provider ELSE "",
   max_tokens |-> IF mapping /\ model.max_tokens # NotInteger
                  THEN model.max_tokens ELSE 0,
   reasoning_effort |-> config.agent.reasoning_effort,
   service_tier |-> config.agent.service_tier]

\* discover_profile_ids of the deployment helper: the directories that exist.
Discovered == {Default} \cup {p \in Profiles : home[p] # NoDirectory}

Init ==
  /\ home \in {h \in [Profiles -> Source] : h[Default] # NoDirectory}
  /\ listed = Discovered
  /\ exported = listed
  /\ served = listed
  /\ up = {"exporter", "server"}
  /\ todo = {}
  /\ at = NULL
  /\ read = NoDirectory
  /\ snapshots = [p \in Profiles |-> NULL]
  /\ sync = "idle"
  /\ found = {}
  /\ result = "none"
  /\ during = [p \in Profiles |-> {home[p]}]
  /\ since = [p \in Profiles |-> {home[p]}]
  /\ edits = 0
  /\ syncs = 0
  /\ faults = 0

\* Nothing is being visited.
Drop == at' = NULL /\ read' = NoDirectory

Fault == faults < MaxFaults /\ faults' = faults + 1

-----------------------------------------------------------------------------
(* The Agent and its operator: files are written, broken and removed,      *)
(* Profiles come and go.                                                   *)

Edit(p) ==
  /\ edits < MaxEdits
  /\ edits' = edits + 1
  /\ \E content \in Source \ {home[p]} :
       /\ p = Default => content # NoDirectory
       /\ home' = [home EXCEPT ![p] = content]
       /\ during' = [during EXCEPT ![p] = @ \cup {content}]
       /\ since' = [since EXCEPT ![p] = @ \cup {content}]
  /\ UNCHANGED <<exporterVars, containers, syncVars, faults>>

-----------------------------------------------------------------------------
(* The exporter: sync_model_config_snapshots, for ever.                    *)

\* A pass visits the Profiles in the order of the list, which does not matter.
BeginPass ==
  /\ "exporter" \in up
  /\ todo = {} /\ at = NULL
  /\ todo' = exported
  /\ during' = [p \in Profiles |-> {home[p]}]
  /\ UNCHANGED <<home, containers, at, read, snapshots, syncVars, since, edits, faults>>

ReadConfig(p) ==
  /\ "exporter" \in up
  /\ at = NULL
  /\ p \in todo
  /\ at' = p
  /\ read' = home[p]
  /\ UNCHANGED <<home, containers, todo, snapshots, syncVars, during, since, edits, faults>>

\* The snapshot is replaced in one step by a whole new file, or removed: when
\* there is nothing valid to publish and also when writing fails.  The last
\* Profile of the list ends the pass.
Store(p, otherwise) ==
  /\ "exporter" \in up
  /\ at = p
  /\ Drop
  /\ todo' = todo \ {p}
  /\ \/ /\ read \in Configs
        /\ snapshots' = [snapshots EXCEPT ![p] = Public(p, read)]
        /\ UNCHANGED faults
     \/ /\ read \notin Configs
        /\ snapshots' = [snapshots EXCEPT ![p] = otherwise]
        /\ UNCHANGED faults
     \/ /\ Fault
        /\ snapshots' = [snapshots EXCEPT ![p] = otherwise]
  /\ since' = IF todo' = {}
              THEN [q \in Profiles |-> IF q \in exported THEN during[q] ELSE since[q]]
              ELSE since
  /\ UNCHANGED <<home, containers, syncVars, during, edits>>

\* Mutated forms: what could not be refreshed is kept; the whole file is copied.
StoreOrKeep(p) == Store(p, snapshots[p])
StoreWhole(p) ==
  /\ at = p
  /\ Drop
  /\ todo' = todo \ {p}
  /\ snapshots' = [snapshots EXCEPT ![p] = IF read \in Configs THEN read ELSE NULL]
  /\ UNCHANGED <<home, containers, syncVars, during, since, edits, faults>>

StoreSnapshot(p) == Store(p, NULL)

\* The process ends in the middle of what it does; Docker starts it again, in
\* the same container.
CrashExporter ==
  /\ "exporter" \in up
  /\ Fault
  /\ todo' = {}
  /\ Drop
  /\ UNCHANGED <<home, containers, snapshots, syncVars, during, since, edits>>

-----------------------------------------------------------------------------
(* `hermes-link sync' and `hermes-link restart'. *)

BeginSync ==
  /\ sync = "idle"
  /\ syncs < MaxSyncs
  /\ syncs' = syncs + 1
  /\ found' = Discovered
  /\ sync' = "env"
  /\ result' = "running"
  /\ UNCHANGED <<home, listed, exporterVars, containers, during, since, edits, faults>>

SetEnv ==
  /\ sync = "env"
  /\ listed' = found
  /\ sync' = "replace exporter"
  /\ UNCHANGED <<home, exporterVars, containers, found, result, during, since,
                 edits, syncs, faults>>

\* compose up --force-recreate: of each service the old container is removed
\* and a new one is created from .env, then started.
ReplaceExporterBy(profiles) ==
  /\ sync = "replace exporter"
  /\ exported' = profiles
  /\ up' = up \ {"exporter"}
  /\ todo' = {}
  /\ Drop
  /\ sync' = "start exporter"
  /\ UNCHANGED <<home, listed, served, snapshots, found, result, during, since,
                 edits, syncs, faults>>

\* Mutated form: the container is restarted, not recreated.
RestartInstead == ReplaceExporterBy(exported)

ReplaceExporter == ReplaceExporterBy(listed)

StartExporter ==
  /\ sync = "start exporter"
  /\ up' = up \cup {"exporter"}
  /\ sync' = "replace server"
  /\ UNCHANGED <<home, listed, exported, served, exporterVars, found, result, during,
                 since, edits, syncs, faults>>

ReplaceServer ==
  /\ sync = "replace server"
  /\ served' = listed
  /\ up' = up \ {"server"}
  /\ sync' = "start server"
  /\ UNCHANGED <<home, listed, exported, exporterVars, found, result, during, since,
                 edits, syncs, faults>>

StartServer ==
  /\ sync = "start server"
  /\ up' = up \cup {"server"}
  /\ sync' = "health"
  /\ UNCHANGED <<home, listed, exported, served, exporterVars, found, result, during,
                 since, edits, syncs, faults>>

EndSync ==
  /\ sync = "health"
  /\ sync' = "idle"
  /\ result' = "synced"
  /\ UNCHANGED <<home, listed, exporterVars, containers, found, during, since, edits,
                 syncs, faults>>

\* A step fails, the Server does not become healthy, or the operator
\* interrupts: nothing is undone.
FailSync ==
  /\ sync # "idle"
  /\ Fault
  /\ sync' = "idle"
  /\ result' = "failed"
  /\ UNCHANGED <<home, listed, exporterVars, containers, found, during, since, edits,
                 syncs>>

\* compose restart: every container starts again as it was created.
Restart ==
  /\ sync = "idle"
  /\ Fault
  /\ up' = {"exporter", "server"}
  /\ todo' = {}
  /\ Drop
  /\ UNCHANGED <<home, exported, served, snapshots, syncVars, during, since,
                 edits>>

-----------------------------------------------------------------------------
(* The bridge. *)

\* _read_model_config: of the file it takes the fields it knows, and the name of
\* the Profile from the request.
ReadSnapshot(p) ==
  LET payload == snapshots[p] IN
  IF payload = NULL THEN NULL
  ELSE [profile |-> p, model |-> payload.model, provider |-> payload.provider,
        max_tokens |-> payload.max_tokens,
        reasoning_effort |-> payload.reasoning_effort,
        service_tier |-> payload.service_tier]

\* _send_model_config for a request that is authorised: the Profile must be
\* served and have a snapshot.
Answer(p) == IF p \in served THEN ReadSnapshot(p) ELSE NULL

-----------------------------------------------------------------------------
ExporterStep == BeginPass \/ \E p \in Profiles : ReadConfig(p) \/ StoreSnapshot(p)

Sync ==
  \/ BeginSync \/ SetEnv \/ ReplaceExporter \/ StartExporter \/ ReplaceServer
  \/ StartServer \/ EndSync \/ FailSync

Next ==
  \/ \E p \in Profiles : Edit(p)
  \/ ExporterStep
  \/ CrashExporter
  \/ Sync
  \/ Restart

Spec == Init /\ [][Next]_vars

\* The exporter's loop goes on.  Nobody owes an edit, a `sync' or its next step.
FairSpec == Spec /\ WF_vars(ExporterStep)

-----------------------------------------------------------------------------
(* Properties. *)

\* Types; the snapshots hold public configurations only, of their Profile.
TypeOK ==
  /\ home \in [Profiles -> Source]
  /\ {listed, exported, served, todo, found} \subseteq SUBSET Profiles
  /\ up \subseteq {"exporter", "server"}
  /\ at \in Profiles \cup {NULL}
  /\ read \in Source
  /\ snapshots \in [Profiles -> PublicConfig \cup {NULL}]
  /\ sync \in SyncStep
  /\ result \in {"none", "running", "synced", "failed"}
  /\ during \in [Profiles -> SUBSET Source]
  /\ since \in [Profiles -> SUBSET Source]
  /\ edits \in Nat /\ syncs \in Nat /\ faults \in Nat

\* A snapshot tells what the Profile's file held at some time since the last
\* complete pass over the Profile began, however often the exporter crashed, a
\* write failed or the list changed meanwhile: what became invalid or could not
\* be written is withdrawn, not kept.
SnapshotIsRecent ==
  \A p \in Profiles :
    snapshots[p] # NULL =>
      \E content \in since[p] \cap Configs : snapshots[p] = Public(p, content)

\* After a `sync' that reported success and when the files rest, every Profile
\* that .env lists is answered with its present configuration, or refused when
\* it has none, and every other is refused.
CatchesUp ==
  <>[](sync = "idle" /\ result = "synced" =>
         \A p \in Profiles :
           Answer(p) = IF p \in listed /\ home[p] \in Configs
                       THEN Public(p, home[p]) ELSE NULL)
=============================================================================
