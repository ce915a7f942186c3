---------------------------- MODULE IdentityCloud ----------------------------
(***************************************************************************)
(* The identity of a Server and its optional Cloud configuration: two      *)
(* files, replaced atomically, read and written by every thread of the     *)
(* HTTP server without a lock.                                             *)
(*                                                                         *)
(* get_or_create_identity looks for the identity file, and generates and   *)
(* writes one when there is none.  Two first requests can both find none;  *)
(* the second write then replaces an identity that was already given away. *)
(* The properties say how far that reaches: a call that arrives when there *)
(* is an identity and nobody is about to write one is never affected.      *)
(*                                                                         *)
(* A generated identity is named by the call that draws it.                *)
(***************************************************************************)
EXTENDS Naturals

CONSTANTS
  Asks,         \* public_identity and create_cloud_binding_attestation calls
  Configures,   \* configure_cloud calls
  Clears,       \* clear_cloud_config calls
  Deliveries,   \* _publish_cloud_event threads
  Installed,    \* the identity an earlier process left on disk
  Foreign,      \* the identity of another Server
  MaxCrashes,   \* bound: how many times the server process dies
  NULL          \* no file, no value

Calls == Asks \cup Configures \cup Clears \cup Deliveries

\* Calls that need the identity.
Creators == Asks \cup Configures \cup Deliveries

Identities == Creators \cup {Installed}

ASSUME IdentityCloudAssumption ==
  /\ Asks \cap (Configures \cup Clears \cup Deliveries) = {}
  /\ Configures \cap (Clears \cup Deliveries) = {}
  /\ Clears \cap Deliveries = {}
  /\ Installed \notin Calls
  /\ Foreign \notin Calls \cup {Installed}
  /\ NULL \notin Calls \cup {Installed, Foreign}
  /\ MaxCrashes \in Nat

VARIABLES
  identity,   \* the identity file
  config,     \* the Cloud configuration file
  pc,         \* where each call is
  wants,      \* the server_id a configure_cloud call names, or NULL
  got,        \* the identity each call holds
  loaded,     \* the configuration each delivery has read
  onFile,     \* history: identities that were ever on disk
  late,       \* history: calls that arrived when the identity was settled
  cleared,    \* history: cleared, and no configure_cloud running since
  muted,      \* history: deliveries that started while cleared
  crashes     \* how often the process has died

vars == <<identity, config, pc, wants, got, loaded, onFile, late, cleared,
          muted, crashes>>

\* A configuration: who wrote it (standing for its URL and installation id)
\* and for which Server.
Config == [by : Configures \cup {Installed}, server : Identities \cup {Foreign}]

Phase == {"idle", "look", "create", "have", "unlink",
          "done", "rejected", "mismatch", "failed", "lost"}

Running(k) == pc[k] \in {"look", "create", "have", "unlink"}

\* There is an identity, and no call is about to replace it.
Settled == identity # NULL /\ \A k \in Calls : pc[k] # "create"

-----------------------------------------------------------------------------
\* A fresh state directory, or one an earlier process has left.
Init ==
  /\ identity \in {NULL, Installed}
  /\ config \in {NULL} \cup [by : {Installed}, server : {identity} \ {NULL}]
  /\ pc = [k \in Calls |-> "idle"]
  /\ wants = [k \in Configures |-> NULL]
  /\ got = [k \in Creators |-> NULL]
  /\ loaded = [d \in Deliveries |-> NULL]
  /\ onFile = {identity} \ {NULL}
  /\ late = {}
  /\ cleared = FALSE
  /\ muted = {}
  /\ crashes = 0

Goto(k, phase) == pc' = [pc EXCEPT ![k] = phase]

Arrive(k, phase) ==
  /\ pc[k] = "idle"
  /\ Goto(k, phase)
  /\ late' = IF Settled THEN late \cup {k} ELSE late

\* Server ids that an App may have heard of.
Heard == {Foreign} \cup {got[a] : a \in {b \in Asks : pc[b] = "done"}}

StartAsk(a) ==
  /\ Arrive(a, "look")
  /\ UNCHANGED <<identity, config, wants, got, loaded, onFile, cleared, muted, crashes>>

\* URL and installation id are valid; the server id is optional.
StartConfigure(k) ==
  /\ Arrive(k, "look")
  /\ \E id \in Heard \cup {NULL} : wants' = [wants EXCEPT ![k] = id]
  /\ cleared' = FALSE
  /\ UNCHANGED <<identity, config, got, loaded, onFile, muted, crashes>>

StartClear(k) ==
  /\ Arrive(k, "unlink")
  /\ UNCHANGED <<identity, config, wants, got, loaded, onFile, cleared, muted, crashes>>

\* A thread that finds no configuration is done; load_cloud_config takes a file
\* that it cannot read for none.
StartDelivery(d) ==
  /\ \E found \in {config, NULL} :
       /\ Arrive(d, IF found = NULL THEN "done" ELSE "look")
       /\ loaded' = [loaded EXCEPT ![d] = found]
  /\ muted' = IF cleared THEN muted \cup {d} ELSE muted
  /\ UNCHANGED <<identity, config, wants, got, onFile, cleared, crashes>>

-----------------------------------------------------------------------------
(* get_or_create_identity. *)

Look(k, found) ==
  /\ pc[k] = "look"
  /\ IF found THEN Goto(k, "have") /\ got' = [got EXCEPT ![k] = identity]
              ELSE Goto(k, "create") /\ UNCHANGED got
  /\ UNCHANGED <<identity, config, wants, loaded, onFile, late, cleared, muted, crashes>>

\* Mutated form: an identity that cannot be read is generated anew.
LookOrReplace(k) ==
  \E readable \in BOOLEAN : Look(k, identity # NULL /\ readable)

LookForIdentity(k) == Look(k, identity # NULL)

Holding(k, id) ==
  /\ pc[k] = "create"
  /\ got' = [got EXCEPT ![k] = id]
  /\ Goto(k, "have")

\* Mutated form: the identity is answered and never written.
CreateInMemory(k) ==
  /\ Holding(k, k)
  /\ UNCHANGED <<identity, config, wants, loaded, onFile, late, cleared, muted, crashes>>

\* A key pair and an id are drawn and put in place by os.replace.
CreateIdentity(k) ==
  /\ Holding(k, k)
  /\ identity' = k
  /\ onFile' = onFile \cup {k}
  /\ UNCHANGED <<config, wants, loaded, late, cleared, muted, crashes>>

-----------------------------------------------------------------------------
(* What each call does with the identity. *)

Ended(k, phase) ==
  /\ pc[k] = "have"
  /\ Goto(k, phase)

\* The public identity, or an attestation signed with its key, is answered.
AnswerAsk(a) ==
  /\ Ended(a, "done")
  /\ UNCHANGED <<identity, config, wants, got, loaded, onFile, late, cleared, muted, crashes>>

SaveFor(k, server) ==
  /\ Ended(k, "done")
  /\ config' = [by |-> k, server |-> server]
  /\ UNCHANGED <<identity, wants, got, loaded, onFile, late, cleared, muted, crashes>>

\* Mutated forms: the server id of the request is taken as it is, also when
\* there is none.
SaveWanted(k) == SaveFor(k, wants[k])
SaveAsTold(k) == SaveFor(k, IF wants[k] = NULL THEN got[k] ELSE wants[k])

SaveConfig(k) == wants[k] \in {NULL, got[k]} /\ SaveFor(k, got[k])

\* The App means another Server.
RejectConfig(k) ==
  /\ wants[k] \notin {NULL, got[k]}
  /\ Ended(k, "rejected")
  /\ UNCHANGED <<identity, config, wants, got, loaded, onFile, late, cleared, muted, crashes>>

\* One signed request; whether the Cloud takes it concerns nothing here.
SendEvent(d) ==
  /\ Ended(d, "done")
  /\ loaded[d].server = got[d]
  /\ UNCHANGED <<identity, config, wants, got, loaded, onFile, late, cleared, muted, crashes>>

\* The configuration names another Server: the event is dropped silently.
DropEvent(d) ==
  /\ Ended(d, "mismatch")
  /\ loaded[d].server # got[d]
  /\ UNCHANGED <<identity, config, wants, got, loaded, onFile, late, cleared, muted, crashes>>

-----------------------------------------------------------------------------
(* clear_cloud_config, failures and crashes. *)

Unlink(k, left) ==
  /\ pc[k] = "unlink"
  /\ Goto(k, "done")
  /\ config' = left
  /\ cleared' = \A c \in Configures : ~Running(c)
  /\ UNCHANGED <<identity, wants, got, loaded, onFile, late, muted, crashes>>

\* Mutated form: every OSError is taken for a file that is not there.
UnlinkQuietly(k) == \E left \in {NULL, config} : Unlink(k, left)

ClearConfig(k) == Unlink(k, NULL)

\* A file cannot be read, written or removed; the call answers an error and
\* the files are as they were.
Fail(k) ==
  /\ Running(k)
  /\ Goto(k, "failed")
  /\ UNCHANGED <<identity, config, wants, got, loaded, onFile, late, cleared, muted, crashes>>

\* The process dies; at worst a temporary file stays.
Crash ==
  /\ crashes < MaxCrashes
  /\ crashes' = crashes + 1
  /\ pc' = [k \in Calls |-> IF Running(k) THEN "lost" ELSE pc[k]]
  /\ UNCHANGED <<identity, config, wants, got, loaded, onFile, late, cleared, muted>>

-----------------------------------------------------------------------------
GetOrCreate(k) == LookForIdentity(k) \/ CreateIdentity(k)

Next ==
  \/ \E a \in Asks : StartAsk(a) \/ GetOrCreate(a) \/ AnswerAsk(a)
  \/ \E k \in Configures :
       StartConfigure(k) \/ GetOrCreate(k) \/ SaveConfig(k) \/ RejectConfig(k)
  \/ \E d \in Deliveries :
       StartDelivery(d) \/ GetOrCreate(d) \/ SendEvent(d) \/ DropEvent(d)
  \/ \E k \in Clears : StartClear(k) \/ ClearConfig(k)
  \/ \E k \in Calls : Fail(k)
  \/ Crash

Spec == Init /\ [][Next]_vars

-----------------------------------------------------------------------------
(* Properties. *)

\* Types of the two files and of the calls.
TypeOK ==
  /\ identity \in Identities \cup {NULL}
  /\ config \in Config \cup {NULL}
  /\ pc \in [Calls -> Phase]
  /\ wants \in [Configures -> Identities \cup {Foreign, NULL}]
  /\ got \in [Creators -> Identities \cup {NULL}]
  /\ loaded \in [Deliveries -> Config \cup {NULL}]
  /\ onFile \subseteq Identities
  /\ late \subseteq Calls
  /\ cleared \in BOOLEAN
  /\ muted \subseteq Deliveries
  /\ crashes \in Nat

\* The server id is immutable once it exists and no first request is still
\* about to write another: restarts, failures, configurations and later
\* requests never change it.
SettledForGood == [][Settled => Settled' /\ identity' = identity]_vars

\* Every identity that left the process, in an answer, in a configuration or
\* as the key of an event, was on disk: a crash cannot make the Server forget
\* an identity it has just given away.
KeysAreDurable ==
  /\ \A k \in Creators : got[k] \in onFile \cup {NULL}
  /\ config # NULL => config.server \in onFile

\* An event is dropped for naming another Server only if its configuration was
\* made while the identity was still being chosen: a configuration made later
\* always names the Server that sends.
DropsOnlyAfterRace ==
  \A d \in Deliveries :
    pc[d] = "mismatch" => loaded[d].by \notin late \cup {Installed}

\* Nothing is sent by a delivery that starts after the configuration was
\* cleared, until somebody configures again.
ClearStopsDelivery ==
  \A d \in muted : pc[d] = "done" => loaded[d] = NULL

\* Whoever asks after the identity was settled hears the identity on file.
LateAnswersAgree == \A k \in late \cap Creators : got[k] \in {identity, NULL}
=============================================================================
