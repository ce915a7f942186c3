-------------------------- MODULE ModelConfigProofs --------------------------
(***************************************************************************)
(* Proofs about ModelConfig for any Profiles and configurations, any number *)
(* of edits, of runs of `sync' and of faults.                              *)
(*                                                                         *)
(* What a snapshot tells is recent because of two histories: a pass only   *)
(* stores what the file held since it began (`during'), and when it is     *)
(* complete, every Profile of the list was stored or withdrawn in it, so    *)
(* that `during' may take the place of `since'.                            *)
(***************************************************************************)
EXTENDS ModelConfig, TLAPS

\* What a snapshot tells of p is one of these contents.
Tells(p, contents) ==
  snapshots[p] # NULL =>
    \E content \in contents \cap Configs : snapshots[p] = Public(p, content)

\* The histories hold the present content, and no pass began earlier than the
\* last complete one.
Histories ==
  \A p \in Profiles : home[p] \in during[p] /\ during[p] \subseteq since[p]

\* The exporter visits Profiles of its list that are still to be done, and what
\* it read was in the file since the pass began.
Visit ==
  /\ todo \subseteq exported
  /\ at # NULL => at \in todo /\ read \in during[at]

\* What this pass is through with was stored or withdrawn in it.
PassIsFresh ==
  todo # {} => \A p \in exported \ todo : Tells(p, during[p])

Inv == TypeOK /\ Histories /\ Visit /\ PassIsFresh /\ SnapshotIsRecent

-----------------------------------------------------------------------------
(* Types. *)

LEMMA PublicType ==
  ASSUME NEW p \in Profiles, NEW config \in Configs
  PROVE  Public(p, config) \in PublicConfig
<1>1. config \in Config
  BY ModelConfigAssumption
<1>2. /\ config.model.default \in Text /\ config.model.name \in Text
      /\ config.model.provider \in Text
      /\ config.model.max_tokens \in Int \cup {NotInteger}
      /\ config.agent.reasoning_effort \in Text
      /\ config.agent.service_tier \in Text
  BY <1>1 DEF Config, ModelEntry, AgentEntry
<1>3. "" \in Text
  BY Zenon, ModelConfigAssumption
<1>4. /\ Public(p, config).model \in Text
      /\ Public(p, config).provider \in Text
      /\ Public(p, config).reasoning_effort \in Text
      /\ Public(p, config).service_tier \in Text
      /\ Public(p, config).profile = p
  BY <1>2, <1>3 DEF Public
<1>5. Public(p, config).max_tokens \in Int
  <2>1. 0 \in Int
    OBVIOUS
  <2> QED
    BY <1>2, <2>1, Zenon DEF Public
<1>6. Public(p, config) =
        [profile |-> p, model |-> Public(p, config).model,
         provider |-> Public(p, config).provider,
         max_tokens |-> Public(p, config).max_tokens,
         reasoning_effort |-> Public(p, config).reasoning_effort,
         service_tier |-> Public(p, config).service_tier]
  BY DEF Public
<1> QED
  BY <1>4, <1>5, <1>6 DEF PublicConfig

LEMMA DiscoveredType == Discovered \subseteq Profiles
  BY ModelConfigAssumption DEF Discovered

LEMMA InitInv == Init => Inv
<1> SUFFICES ASSUME Init PROVE Inv
  OBVIOUS
<1>1. TypeOK
  <2>1. Discovered \subseteq Profiles
    BY DiscoveredType
  <2>2. NoDirectory \in Source
    BY DEF Source
  <2> QED
    BY <2>1, <2>2 DEF Init, TypeOK, SyncStep
<1>2. Histories /\ Visit /\ PassIsFresh /\ SnapshotIsRecent
  BY DEF Init, Histories, Visit, PassIsFresh, SnapshotIsRecent
<1> QED
  BY <1>1, <1>2 DEF Inv

\* The types of the Agent's files and of the exporter.
LEMMA StoreTypes ==
  ASSUME TypeOK, NEW p \in Profiles, StoreSnapshot(p)
  PROVE  /\ todo' \subseteq Profiles
         /\ snapshots' \in [Profiles -> PublicConfig \cup {NULL}]
         /\ since' \in [Profiles -> SUBSET Source]
         /\ faults' \in Nat
<1>1. todo' \subseteq Profiles /\ faults' \in Nat
  BY DEF TypeOK, StoreSnapshot, Store, Fault
<1>2. snapshots' \in [Profiles -> PublicConfig \cup {NULL}]
  BY PublicType DEF TypeOK, StoreSnapshot, Store
<1>3. since' \in [Profiles -> SUBSET Source]
  BY DEF TypeOK, StoreSnapshot, Store
<1> QED
  BY <1>1, <1>2, <1>3

LEMMA NextTypes ==
  ASSUME TypeOK, [Next]_vars
  PROVE  TypeOK'
<1> USE DEF TypeOK, exporterVars, containers, syncVars, Drop, Fault
<1>0. NoDirectory \in Source /\ NULL \notin Profiles
  BY ModelConfigAssumption DEF Source
<1>1. ASSUME NEW p \in Profiles, Edit(p) PROVE TypeOK'
  <2>1. edits' \in Nat
    BY <1>1 DEF Edit
  <2>2. \E content \in Source :
          /\ home' = [home EXCEPT ![p] = content]
          /\ during' = [during EXCEPT ![p] = @ \cup {content}]
          /\ since' = [since EXCEPT ![p] = @ \cup {content}]
    BY <1>1 DEF Edit
  <2>3. /\ home' \in [Profiles -> Source]
        /\ during' \in [Profiles -> SUBSET Source]
        /\ since' \in [Profiles -> SUBSET Source]
    BY <2>2
  <2> QED
    BY <1>1, <2>1, <2>3 DEF Edit
<1>2. CASE BeginPass
  BY <1>2 DEF BeginPass
<1>3. ASSUME NEW p \in Profiles, ReadConfig(p) PROVE TypeOK'
  BY <1>3 DEF ReadConfig
<1>4. ASSUME NEW p \in Profiles, StoreSnapshot(p) PROVE TypeOK'
  <2>1. /\ todo' \subseteq Profiles
        /\ snapshots' \in [Profiles -> PublicConfig \cup {NULL}]
        /\ since' \in [Profiles -> SUBSET Source]
        /\ faults' \in Nat
    BY <1>4, StoreTypes
  <2>2. at' = NULL /\ read' = NoDirectory
        /\ UNCHANGED <<home, containers, syncVars, during, edits>>
    BY <1>4 DEF StoreSnapshot, Store
  <2> QED
    BY <1>0, <2>1, <2>2
<1>5. CASE CrashExporter
  <2>1. faults' \in Nat
    BY <1>5 DEF CrashExporter
  <2> QED
    BY <1>0, <1>5, <2>1 DEF CrashExporter
<1>6. CASE BeginSync
  BY <1>6, DiscoveredType DEF BeginSync, SyncStep
<1>7. CASE SetEnv
  BY <1>7 DEF SetEnv, SyncStep
<1>8. CASE ReplaceExporter
  BY <1>0, <1>8 DEF ReplaceExporter, ReplaceExporterBy, SyncStep
<1>9. CASE StartExporter
  BY <1>9 DEF StartExporter, SyncStep
<1>10. CASE ReplaceServer
  BY <1>10 DEF ReplaceServer, SyncStep
<1>11. CASE StartServer
  BY <1>11 DEF StartServer, SyncStep
<1>12. CASE EndSync
  BY <1>12 DEF EndSync, SyncStep
<1>13. CASE FailSync
  <2>1. faults' \in Nat
    BY <1>13 DEF FailSync
  <2> QED
    BY <1>0, <1>13, <2>1 DEF FailSync, SyncStep
<1>14. CASE Restart
  <2>1. faults' \in Nat
    BY <1>14 DEF Restart
  <2> QED
    BY <1>0, <1>14, <2>1 DEF Restart
<1>15. CASE UNCHANGED vars
  BY <1>15 DEF vars
<1> QED
  BY <1>1, <1>2, <1>3, <1>4, <1>5, <1>6, <1>7, <1>8, <1>9, <1>10, <1>11, <1>12,
     <1>13, <1>14, <1>15 DEF Next, ExporterStep, Sync

-----------------------------------------------------------------------------
(* The exporter's steps and the rest.                                      *)

LEMMA EditKeeps ==
  ASSUME Inv, NEW p \in Profiles, Edit(p)
  PROVE  Histories' /\ Visit' /\ PassIsFresh' /\ SnapshotIsRecent'
<1> USE DEF Inv, TypeOK, Edit, exporterVars, containers
<1>1. Histories'
  BY DEF Histories
<1>2. \A q \in Profiles : during[q] \subseteq during'[q] /\ since[q] \subseteq since'[q]
  OBVIOUS
<1>3. Visit'
  BY <1>2 DEF Visit
<1>4. PassIsFresh'
  BY <1>2 DEF PassIsFresh, Tells, Public
<1>5. SnapshotIsRecent'
  BY <1>2 DEF SnapshotIsRecent, Public
<1> QED
  BY <1>1, <1>3, <1>4, <1>5

LEMMA BeginKeeps ==
  ASSUME Inv, BeginPass
  PROVE  Histories' /\ Visit' /\ PassIsFresh' /\ SnapshotIsRecent'
<1> USE DEF Inv, TypeOK, BeginPass, containers
<1>1. Histories'
  BY DEF Histories
<1>2. Visit' /\ PassIsFresh'
  BY DEF Visit, PassIsFresh
<1>3. SnapshotIsRecent'
  BY DEF SnapshotIsRecent, Public
<1> QED
  BY <1>1, <1>2, <1>3

LEMMA ReadKeeps ==
  ASSUME Inv, NEW p \in Profiles, ReadConfig(p)
  PROVE  Histories' /\ Visit' /\ PassIsFresh' /\ SnapshotIsRecent'
<1> USE DEF Inv, TypeOK, ReadConfig, containers
<1>1. Histories'
  BY DEF Histories
<1>2. Visit'
  BY DEF Visit, Histories
<1>3. PassIsFresh'
  BY DEF PassIsFresh, Tells, Public
<1>4. SnapshotIsRecent'
  BY DEF SnapshotIsRecent, Public
<1> QED
  BY <1>1, <1>2, <1>3, <1>4

\* Of the Profile it visits the exporter stores what the file held since the
\* pass began, or nothing.
LEMMA StoresFresh ==
  ASSUME Inv, NEW p \in Profiles, StoreSnapshot(p)
  PROVE  /\ \A q \in Profiles \ {p} : snapshots'[q] = snapshots[q]
         /\ snapshots'[p] # NULL =>
              \E content \in during[p] \cap Configs : snapshots'[p] = Public(p, content)
<1>1. p \in todo /\ read \in during[p]
  BY ModelConfigAssumption DEF Inv, Visit, StoreSnapshot, Store
<1>2. \/ snapshots' = [snapshots EXCEPT ![p] = NULL]
      \/ read \in Configs /\ snapshots' = [snapshots EXCEPT ![p] = Public(p, read)]
  BY Zenon DEF StoreSnapshot, Store
<1> QED
  BY <1>1, <1>2 DEF Inv, TypeOK

LEMMA StoreKeeps ==
  ASSUME Inv, NEW p \in Profiles, StoreSnapshot(p)
  PROVE  Histories' /\ Visit' /\ PassIsFresh' /\ SnapshotIsRecent'
<1>1. /\ home' = home /\ exported' = exported /\ during' = during
      /\ todo' = todo \ {p} /\ at' = NULL /\ at = p
      /\ since' = IF todo' = {}
                  THEN [q \in Profiles |-> IF q \in exported THEN during[q] ELSE since[q]]
                  ELSE since
  BY DEF StoreSnapshot, Store, Drop, containers
<1>2. /\ \A q \in Profiles \ {p} : snapshots'[q] = snapshots[q]
      /\ snapshots'[p] # NULL =>
           \E content \in during[p] \cap Configs : snapshots'[p] = Public(p, content)
  BY StoresFresh
<1>3. p \in todo /\ todo \subseteq exported /\ exported \subseteq Profiles
  BY <1>1, ModelConfigAssumption DEF Inv, Visit, TypeOK
<1>4. \A q \in exported \ todo' :
        snapshots'[q] # NULL =>
          \E content \in during[q] \cap Configs : snapshots'[q] = Public(q, content)
  <2> TAKE q \in exported \ todo'
  <2>1. CASE q = p
    BY <2>1, <1>2
  <2>2. CASE q # p
    BY <2>2, <1>1, <1>2, <1>3 DEF Inv, PassIsFresh, Tells
  <2> QED
    BY <2>1, <2>2
<1>5. \A q \in Profiles : during[q] \subseteq since'[q]
  BY <1>1 DEF Inv, Histories, TypeOK
<1>6. Histories'
  BY <1>1, <1>5 DEF Inv, Histories
<1>7. Visit'
  BY <1>1, <1>3 DEF Visit
<1>8. PassIsFresh'
  BY <1>1, <1>4 DEF PassIsFresh, Tells, Public
<1>9. SnapshotIsRecent'
  <2> SUFFICES ASSUME NEW q \in Profiles, snapshots'[q] # NULL
               PROVE  \E content \in since'[q] \cap Configs :
                        snapshots'[q] = Public(q, content)
    BY DEF SnapshotIsRecent, Public
  <2>1. CASE q = p
    BY <2>1, <1>2, <1>5
  <2>2. CASE q # p /\ todo' = {} /\ q \in exported
    BY <2>2, <1>4, <1>5
  <2>3. CASE q # p /\ ~(todo' = {} /\ q \in exported)
    <3>1. since'[q] = since[q] /\ snapshots'[q] = snapshots[q]
      BY <2>3, <1>1, <1>2 DEF Inv, TypeOK
    <3> QED
      BY <3>1 DEF Inv, SnapshotIsRecent
  <2> QED
    BY <2>1, <2>2, <2>3
<1> QED
  BY <1>6, <1>7, <1>8, <1>9

\* What ends a pass leaves it incomplete.
LEMMA InterruptionKeeps ==
  ASSUME Inv, UNCHANGED <<home, snapshots, during, since>>, todo' = {}, Drop
  PROVE  Histories' /\ Visit' /\ PassIsFresh' /\ SnapshotIsRecent'
<1>1. Histories' /\ Visit' /\ PassIsFresh'
  BY DEF Inv, Histories, Visit, PassIsFresh, Drop
<1>2. SnapshotIsRecent'
  BY DEF Inv, SnapshotIsRecent, Public
<1> QED
  BY <1>1, <1>2

\* Steps that neither the exporter nor the files take part in.
LEMMA OthersKeep ==
  ASSUME Inv, UNCHANGED <<home, exported, exporterVars, during, since>>
  PROVE  Histories' /\ Visit' /\ PassIsFresh' /\ SnapshotIsRecent'
<1> USE DEF Inv, exporterVars
<1>1. Histories' /\ Visit'
  BY DEF Histories, Visit
<1>2. PassIsFresh'
  BY DEF PassIsFresh, Tells, Public
<1>3. SnapshotIsRecent'
  BY DEF SnapshotIsRecent, Public
<1> QED
  BY <1>1, <1>2, <1>3

LEMMA NextInv ==
  ASSUME Inv, [Next]_vars
  PROVE  Inv'
<1> SUFFICES Histories' /\ Visit' /\ PassIsFresh' /\ SnapshotIsRecent'
  BY NextTypes DEF Inv
<1>1. CASE \E p \in Profiles : Edit(p)
  BY <1>1, EditKeeps
<1>2. CASE BeginPass
  BY <1>2, BeginKeeps
<1>3. CASE \E p \in Profiles : ReadConfig(p)
  BY <1>3, ReadKeeps
<1>4. CASE \E p \in Profiles : StoreSnapshot(p)
  BY <1>4, StoreKeeps
<1>5. CASE CrashExporter \/ ReplaceExporter \/ Restart
  <2>1. UNCHANGED <<home, snapshots, during, since>> /\ todo' = {} /\ Drop
    BY <1>5 DEF CrashExporter, ReplaceExporter, ReplaceExporterBy, Restart
  <2> QED
    BY <2>1, InterruptionKeeps
<1>6. CASE \/ BeginSync \/ SetEnv \/ StartExporter \/ ReplaceServer \/ StartServer
           \/ EndSync \/ FailSync \/ UNCHANGED vars
  <2>1. UNCHANGED <<home, exported, exporterVars, during, since>>
    BY <1>6 DEF BeginSync, SetEnv, StartExporter, ReplaceServer, StartServer, EndSync,
                FailSync, vars, exporterVars, containers
  <2> QED
    BY <2>1, OthersKeep
<1> QED
  BY <1>1, <1>2, <1>3, <1>4, <1>5, <1>6 DEF Next, ExporterStep, Sync

LEMMA Invariance == Spec => []Inv
  BY InitInv, NextInv, PTL DEF Spec

-----------------------------------------------------------------------------
(* The theorems. *)

\* What the exporter leaves in its directory is, for every Profile, nothing or
\* a configuration with the allowed fields of the allowed types.
THEOREM SnapshotsArePublic == Spec => []TypeOK
<1>1. Inv => TypeOK
  BY DEF Inv
<1> QED
  BY <1>1, Invariance, PTL

\* A snapshot never tells something that was replaced before the last complete
\* pass over its Profile began, whatever crashed, failed or changed meanwhile.
THEOREM SnapshotsAreRecent == Spec => []SnapshotIsRecent
<1>1. Inv => SnapshotIsRecent
  BY DEF Inv
<1> QED
  BY <1>1, Invariance, PTL

-----------------------------------------------------------------------------
(* What Apps are told. *)

\* The bridge adds nothing to what a snapshot tells.
LEMMA BridgeTellsTheSnapshot ==
  ASSUME NEW p \in Profiles, NEW content \in Configs, snapshots[p] = Public(p, content)
  PROVE  ReadSnapshot(p) = Public(p, content)
<1> DEFINE public == Public(p, content)
<1>1. snapshots[p] # NULL
  BY PublicType, ModelConfigAssumption
<1>2. ReadSnapshot(p) =
        [profile |-> p, model |-> public.model, provider |-> public.provider,
         max_tokens |-> public.max_tokens,
         reasoning_effort |-> public.reasoning_effort,
         service_tier |-> public.service_tier]
  BY <1>1 DEF ReadSnapshot
<1>3. public =
        [profile |-> p, model |-> public.model, provider |-> public.provider,
         max_tokens |-> public.max_tokens,
         reasoning_effort |-> public.reasoning_effort,
         service_tier |-> public.service_tier]
  BY DEF Public
<1> QED
  BY <1>2, <1>3

\* An App that is told something is told the public part of what the file of a
\* Profile it may use held since the last complete pass over it began.
AnswerIsRecent ==
  \A p \in Profiles :
    Answer(p) # NULL =>
      /\ p \in served
      /\ \E content \in since[p] \cap Configs : Answer(p) = Public(p, content)

LEMMA RecentAnswer == SnapshotIsRecent => AnswerIsRecent
<1> SUFFICES ASSUME SnapshotIsRecent, NEW p \in Profiles, Answer(p) # NULL
             PROVE  /\ p \in served
                    /\ \E content \in since[p] \cap Configs : Answer(p) = Public(p, content)
  BY DEF AnswerIsRecent
<1>1. p \in served /\ Answer(p) = ReadSnapshot(p) /\ snapshots[p] # NULL
  BY DEF Answer, ReadSnapshot
<1>2. PICK content \in since[p] \cap Configs : snapshots[p] = Public(p, content)
  BY <1>1 DEF SnapshotIsRecent
<1> QED
  BY <1>1, <1>2, BridgeTellsTheSnapshot

\* While `sync' replaces the containers, those it has replaced have the list of
\* .env; when it has succeeded both have it, until the next one.
InStep ==
  /\ sync \in {"start exporter", "replace server", "start server", "health"}
       => exported = listed
  /\ sync \in {"start server", "health"} => served = listed
  /\ sync # "idle" => result = "running"
  /\ result = "synced" => exported = listed /\ served = listed

LEMMA NextInStep == InStep /\ [Next]_vars => InStep'
<1> SUFFICES ASSUME InStep, [Next]_vars PROVE InStep'
  OBVIOUS
<1> USE DEF InStep
<1>1. CASE \/ \E p \in Profiles : Edit(p) \/ ReadConfig(p) \/ StoreSnapshot(p)
           \/ BeginPass \/ CrashExporter \/ Restart \/ UNCHANGED vars
  <2>1. UNCHANGED <<sync, result, listed, exported, served>>
    BY <1>1 DEF Edit, ReadConfig, StoreSnapshot, Store, BeginPass, CrashExporter, Restart,
                vars, syncVars, containers
  <2> QED
    BY <2>1
<1>2. CASE \/ BeginSync \/ SetEnv \/ ReplaceExporter \/ StartExporter
           \/ ReplaceServer \/ StartServer \/ EndSync \/ FailSync
  BY <1>2 DEF BeginSync, SetEnv, ReplaceExporter, ReplaceExporterBy, StartExporter,
              ReplaceServer, StartServer, EndSync, FailSync, syncVars, containers
<1> QED
  BY <1>1, <1>2 DEF Next, ExporterStep, Sync

\* After a `sync' that reported success a Profile that .env does not list is
\* refused, and one whose file rested since the last complete pass over it
\* began is answered with its present configuration or refused.
SyncedIsCurrent ==
  result = "synced" =>
    \A p \in Profiles :
      /\ p \notin listed => Answer(p) = NULL
      /\ since[p] = {home[p]} =>
           \/ Answer(p) = NULL
           \/ home[p] \in Configs /\ Answer(p) = Public(p, home[p])

\* No answer is made up or older than the last complete pass: whatever crashed,
\* failed or changed meanwhile, what the App is told was in the file since then,
\* and a Profile that was broken or gone all the time is refused.
THEOREM AnswersAreRecent ==
  Spec => [](/\ AnswerIsRecent
             /\ \A p \in Profiles : since[p] \cap Configs = {} => Answer(p) = NULL)
<1>1. AnswerIsRecent => \A p \in Profiles : since[p] \cap Configs = {} => Answer(p) = NULL
  BY DEF AnswerIsRecent
<1> QED
  BY <1>1, RecentAnswer, SnapshotsAreRecent, PTL

\* The safety half of CatchesUp: `sync' reports success only when both containers
\* serve the list that it wrote, and the answers then are the present ones.
THEOREM SyncTakesEffect == Spec => []SyncedIsCurrent
<1>1. Init => InStep
  BY DEF Init, InStep
<1>2. Spec => []InStep
  BY <1>1, NextInStep, PTL DEF Spec
<1>3. AnswerIsRecent /\ InStep => SyncedIsCurrent
  <2> SUFFICES ASSUME AnswerIsRecent, InStep, result = "synced", NEW p \in Profiles
               PROVE  /\ p \notin listed => Answer(p) = NULL
                      /\ since[p] = {home[p]} =>
                           \/ Answer(p) = NULL
                           \/ home[p] \in Configs /\ Answer(p) = Public(p, home[p])
    BY DEF SyncedIsCurrent
  <2> QED
    BY DEF InStep, AnswerIsRecent
<1> QED
  BY <1>2, <1>3, AnswersAreRecent, PTL
=============================================================================
