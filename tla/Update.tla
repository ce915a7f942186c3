------------------------------- MODULE Update -------------------------------
(***************************************************************************)
(* `hermes-link update': one shell script that stages a release, stops the *)
(* runtime, backs up, installs, starts the new image, verifies it and      *)
(* rolls back.                                                             *)
(*                                                                         *)
(* The script runs under `set -e': a command that fails ends it there and  *)
(* then, except inside a condition (`if ! ...', `... || ...'), where bash  *)
(* ignores every failure but that of the last command.  Which failures are *)
(* ignored, which end the script and which start the rollback is what this *)
(* module is about.                                                        *)
(*                                                                         *)
(* The script's decisions are taken by the helper programs that lie beside *)
(* it: until the installation by the old ones, then by the ones that came   *)
(* with the release.  A helper whose digest does not match answers anything.*)
(***************************************************************************)
EXTENDS ReleaseManifest

CONSTANTS
  Faults,     \* the steps that may fail: names below, and "kill"
  Manifests,  \* the manifests that a release may have
  Versions,   \* versions of the release
  First,      \* the one that is installed at the start
  NoManifest, \* no release was downloaded
  Pulled,     \* the image came from the registry
  NoImage,    \* there is no new image on the host
  MaxRuns     \* bound: how often the operator runs the command

Steps == {"stage", "prepare", "stop", "backup", "copy", "env", "pull", "import",
          "up", "verify", "restore"}

\* A mismatching asset: one of the helpers in bin/lib, or another one.
Mismatching == {"bad", "bad helper"}

ASSUME UpdateAssumption ==
  /\ Faults \subseteq Steps \cup {"kill"}
  /\ Manifests \subseteq Manifest /\ NoManifest \notin Manifest
  /\ First \in Versions
  /\ Versions \cap (Mismatching \cup {"partly", "missing", "unset", "unknown", "stopped"}) = {}
  /\ Pulled \notin Archives /\ NoImage \notin Archives
  /\ MaxRuns \in Nat

VARIABLES
  pc,        \* the next step of the script, "idle" when it is not running
  result,    \* how the last run ended
  requested, \* the version it is about
  staged,    \* the downloaded deployment assets
  env,       \* HERMES_LINK_VERSION and HERMES_LINK_IMAGE in .env
  files,     \* compose.yaml, the command, its helpers and the manifest as installed
  runtime,   \* the version whose image runs
  data,      \* data/server: the Server state there, known by its identity
  expected,  \* old_server_id
  backup,    \* what this run's backup directory holds
  archived,  \* does some backup hold the original Server state?
  release,   \* the manifest that was downloaded and accepted
  image,     \* where the new image on the host came from
  before,    \* history: .env, files and state when the run began
  runs       \* how often the command was run

local == <<requested, staged, expected, release, image, before>>
vars == <<pc, result, env, files, runtime, data, backup, archived, runs, local>>

Phase == {"idle", "stage", "prepare", "stop", "backup", "install", "version",
          "image", "pull", "import", "up", "verify", "down", "copyback",
          "setaside", "untar", "upagain"}

Result == {"none", "already", "updated", "rolledback", "failed", "killed"}

\* "missing": an asset that cp names is not there; "incomplete": one in bin/.
Staged == {"none", "good", "missing", "incomplete"} \cup Mismatching

\* "unset": .env lost the line; "unknown": an image that no release names.
Env == [version : Versions \cup {"unset"}, image : Versions \cup {"unset", "unknown"}]

EnvOf(version) == [version |-> version, image |-> version]
TornEnv == EnvOf("unset")
NoEnv == EnvOf("missing")

\* "partly": some or none of them are of one version.
Files == Versions \cup Mismatching \cup {"partly"}

\* A Server state is known by its identity: the operator's, or the one that the
\* new release made when it was started by a run of the command.  One that was
\* not unpacked to the end is not whole.
Gone == 0
Own == 1
State == [id : Nat, whole : BOOLEAN]

NoState == [id |-> Gone, whole |-> FALSE]
OwnState == [id |-> Own, whole |-> TRUE]
MadeBy(run) == [id |-> run + 1, whole |-> TRUE]

Backup == [env : Env \cup {NoEnv}, files : Files, data : State]

NoBackup == [env |-> NoEnv, files |-> "partly", data |-> NoState]

MayFail(step) == step \in Faults

\* What a helper says of a fact, when it is the one of a release or another.
Reports(genuine, fact) == IF genuine THEN {fact} ELSE BOOLEAN

\* A mixture of what is installed and what is copied over it.
MixedWith(others) == {"partly"} \cup ({files, others} \cap Mismatching)

-----------------------------------------------------------------------------
Init ==
  /\ pc = "idle"
  /\ result = "none"
  /\ requested = First
  /\ staged = "none"
  /\ env = EnvOf(First)
  /\ files = First
  /\ runtime = First
  /\ data = OwnState
  /\ expected = Gone
  /\ backup = NoBackup
  /\ archived = FALSE
  /\ release = NoManifest
  /\ image = NoImage
  /\ before = [env |-> env, files |-> files, data |-> data]
  /\ runs = 0

Goto(phase) == pc' = phase /\ UNCHANGED result

Exit(how) == pc' = "idle" /\ result' = how

\* A failing command that nothing catches.
ExitOnFailure(step) == MayFail(step) /\ Exit("failed")

\* The script ends in the middle of a step, by a failure or killed.
EndsWithin(step) == ExitOnFailure(step) \/ (MayFail("kill") /\ Exit("killed"))

-----------------------------------------------------------------------------
\* A release is asked for by its version, or the latest one is; the version in
\* .env decides whether there is anything to do.  Each run has its own
\* directories.
Begin ==
  /\ pc = "idle"
  /\ runs < MaxRuns
  /\ runs' = runs + 1
  /\ requested' \in Versions
  /\ IF env.version = requested' THEN Exit("already") ELSE pc' = "stage" /\ result' = "none"
  /\ staged' = "none"
  /\ expected' = Gone
  /\ release' = NoManifest
  /\ backup' = NoBackup
  /\ image' = NoImage
  /\ before' = [env |-> env, files |-> files, data |-> data]
  /\ UNCHANGED <<env, files, runtime, data, archived>>

\* Downloads and their verification are a block inside `if !': only its last
\* command counts, the verification of the manifest by the downloaded helper.
StageRelease ==
  /\ pc = "stage"
  /\ \/ /\ staged' \in {"good"} \cup
                       IF MayFail("stage") THEN {"missing", "incomplete"} \cup Mismatching ELSE {}
        /\ \E manifest \in Manifests :
             \E valid \in Reports(staged' # "bad helper", ValidateManifest(manifest)) :
               IF valid THEN Goto("prepare") /\ release' = manifest
                        ELSE Exit("failed") /\ UNCHANGED release
     \/ ExitOnFailure("stage") /\ UNCHANGED <<staged, release>>
  /\ UNCHANGED <<env, files, runtime, data, backup, archived, runs,
                 requested, expected, image, before>>

\* The Server id as the installed helper reads it; Gone stands for a wrong one.
IdsRead == IF files = "bad helper" THEN {data.id, Gone} ELSE {data.id} \ {Gone}

\* Server id, Profiles and the image digest are read; without a Server id there
\* is nothing to update, and a torn state may have none.
Prepare ==
  /\ pc = "prepare"
  /\ \/ expected' \in IdsRead /\ Goto("stop")
     \/ /\ ~data.whole \/ MayFail("prepare") \/ "bad helper" \in {files, staged}
        /\ Exit("failed")
        /\ UNCHANGED expected
  /\ UNCHANGED <<env, files, runtime, data, backup, archived, runs,
                 requested, staged, release, image, before>>

\* `compose stop', which needs an image in .env.
StopRuntime ==
  /\ pc = "stop"
  /\ \/ env.image # "unset" /\ Goto("backup") /\ runtime' = "stopped"
     \/ env.image = "unset" /\ Exit("failed") /\ UNCHANGED runtime
     \/ ExitOnFailure("stop") /\ runtime' \in {runtime, "stopped"}
  /\ UNCHANGED <<env, files, data, backup, archived, runs, local>>

\* backup_current_installation runs inside `if !' too: of its copies only the
\* last command, the archive of the Server state, counts.  After a failure the
\* containers that there are are started again.
BackUp(onFailure) ==
  /\ pc = "backup"
  /\ \E savedEnv \in {env} \cup (IF MayFail("backup") THEN {NoEnv, TornEnv} ELSE {}),
        savedFiles \in {files} \cup (IF MayFail("backup") THEN {"partly"} ELSE {}) :
       \/ /\ data # NoState
          /\ backup' = [env |-> savedEnv, files |-> savedFiles, data |-> data]
          /\ archived' = (archived \/ data = OwnState)
          /\ Goto("install")
          /\ UNCHANGED runtime
       \/ /\ data = NoState \/ MayFail("backup")
          /\ backup' = [env |-> savedEnv, files |-> savedFiles, data |-> NoState]
          /\ IF onFailure = "idle"
               THEN Exit("failed") /\ runtime' \in Versions \cup {"unknown", "stopped"}
               ELSE Goto(onFailure) /\ UNCHANGED runtime
          /\ UNCHANGED archived
  /\ UNCHANGED <<env, files, data, runs, local>>

\* Mutated form: the status of the backup is not looked at.
BackUpUnchecked == BackUp("install")

BackUpInstallation == BackUp("idle")

\* Mutated form: the copies are not checked, and a missing asset stays missing.
InstallUnchecked ==
  /\ pc = "install"
  /\ files' = IF staged = "good" THEN requested ELSE staged
  /\ Goto("version")
  /\ UNCHANGED <<env, runtime, data, backup, archived, runs, local>>

\* The assets are copied over the installation.  Files that cp names must be
\* there; of bin/ it copies what there is.
InstallAssets ==
  /\ pc = "install"
  /\ \/ /\ staged \in {"good", "incomplete"} \cup Mismatching
        /\ files' \in IF staged = "good" THEN {requested}
                     ELSE IF staged = "incomplete" THEN MixedWith(files) ELSE {staged}
        /\ Goto("version")
     \/ /\ (staged = "missing" /\ Exit("failed")) \/ EndsWithin("copy")
        /\ files' \in MixedWith(staged)
  /\ UNCHANGED <<env, runtime, data, backup, archived, runs, local>>

\* Two separate edits of .env, each of them atomic.
SetVersion ==
  /\ pc = "version"
  /\ \/ Goto("image") /\ env' = [env EXCEPT !.version = requested]
     \/ ExitOnFailure("env") /\ UNCHANGED env
  /\ UNCHANGED <<files, runtime, data, backup, archived, runs, local>>

\* The image that the downloaded helper found in the manifest.
SetImage ==
  /\ pc = "image"
  /\ \/ /\ Goto("pull")
        /\ \E name \in {requested} \cup IF staged = "bad helper" THEN {"unknown"} ELSE {} :
             env' = [env EXCEPT !.image = name]
     \/ ExitOnFailure("env") /\ UNCHANGED env
  /\ UNCHANGED <<files, runtime, data, backup, archived, runs, local>>

\* `compose pull', whose failure is the reason to import the image.
PullImage ==
  /\ pc = "pull"
  /\ \/ Goto("up") /\ image' = Pulled
     \/ MayFail("pull") /\ Goto("import") /\ UNCHANGED image
  /\ UNCHANGED <<env, files, runtime, data, backup, archived, runs,
                 requested, staged, expected, release, before>>

\* import_release_image_archive: any archive may come, and Docker gets one that
\* the helper accepts, which is the one just installed.  Every failure, also to
\* verify, calls `fail', which exits: pull_or_import_image never returns a
\* failure, and the rollback that follows it is never taken.
ImportImage ==
  /\ pc = "import"
  /\ \/ \E archive \in Archives :
          \E accepted \in Reports(files # "bad helper", VerifyImageArchive(release, archive)) :
            IF accepted THEN Goto("up") /\ image' = archive
                        ELSE Exit("failed") /\ UNCHANGED image
     \/ ExitOnFailure("import") /\ UNCHANGED image
  /\ UNCHANGED <<env, files, runtime, data, backup, archived, runs,
                 requested, staged, expected, release, before>>

\* The new release starts; it may leave a Server state of another identity.
StartRuntime ==
  /\ pc = "up"
  /\ \/ Goto("verify") /\ runtime' = env.image
     \/ MayFail("up") /\ Goto("down") /\ runtime' \in {env.image, "stopped"}
  /\ data' \in {data} \cup IF runtime' = "stopped" THEN {} ELSE {MadeBy(runs)}
  /\ UNCHANGED <<env, files, backup, archived, runs, local>>

Verify(kept) ==
  /\ pc = "verify"
  /\ \/ kept /\ Exit("updated")
     \/ (~kept \/ MayFail("verify")) /\ Goto("down")
  /\ UNCHANGED <<env, files, runtime, data, backup, archived, runs, local>>

\* Mutated form: health alone decides.
VerifyHealth == Verify(TRUE)

\* The installed helper reads the identity that the Server tells and has on file.
VerifyRuntime ==
  \E kept \in Reports(files # "bad helper", data.id = expected) : Verify(kept)

-----------------------------------------------------------------------------
(* restore_backup: not in a condition, so each failure ends the script.    *)

\* A failure of `compose down' is ignored.
TakeDown ==
  /\ pc = "down"
  /\ Goto("copyback")
  /\ runtime' \in {"stopped"} \cup IF MayFail("restore") THEN {runtime} ELSE {}
  /\ UNCHANGED <<env, files, data, backup, archived, runs, local>>

\* What the backup directory has replaces what is installed.
CopyBack(saved) ==
  /\ pc = "copyback"
  /\ \/ /\ Goto("setaside")
        /\ env' = IF saved.env = NoEnv THEN env ELSE saved.env
        /\ files' \in IF saved.files = "partly" THEN MixedWith("partly") ELSE {saved.files}
     \/ /\ EndsWithin("restore")
        /\ env' \in {env, TornEnv, saved.env} \ {NoEnv}
        /\ files' \in {files} \cup MixedWith(saved.files)
  /\ UNCHANGED <<runtime, data, backup, archived, runs, local>>

\* Mutated form: .env is kept.
CopyBackFiles == CopyBack([backup EXCEPT !.env = NoEnv])

CopyBackConfig == CopyBack(backup)

\* The state the new release left is moved out of the way.
SetAsideState ==
  /\ pc = "setaside"
  /\ \/ Goto("untar") /\ data' = NoState
     \/ ExitOnFailure("restore") /\ UNCHANGED data
  /\ UNCHANGED <<env, files, runtime, backup, archived, runs, local>>

UnpackState ==
  /\ pc = "untar"
  /\ \/ Goto("upagain") /\ data' = backup.data
     \/ EndsWithin("restore") /\ data' \in {data, [backup.data EXCEPT !.whole = FALSE]}
  /\ UNCHANGED <<env, files, runtime, backup, archived, runs, local>>

\* The runtime that .env names is started, when it names one; an unhealthy one is
\* only reported.  A new release does to the state what it does in StartRuntime.
StartRestored ==
  /\ pc = "upagain"
  /\ \/ /\ env.image # "unset"
        /\ Exit("rolledback")
        /\ runtime' = env.image
        /\ data' \in {data} \cup IF env.image = before.env.image THEN {} ELSE {MadeBy(runs)}
     \/ /\ env.image = "unset" \/ MayFail("restore")
        /\ Exit("failed")
        /\ UNCHANGED <<runtime, data>>
  /\ UNCHANGED <<env, files, backup, archived, runs, local>>

\* The terminal closes, the operator interrupts, the host goes down.
Kill ==
  /\ MayFail("kill")
  /\ pc # "idle"
  /\ Exit("killed")
  /\ UNCHANGED <<env, files, runtime, data, backup, archived, runs, local>>

-----------------------------------------------------------------------------
Restore ==
  TakeDown \/ CopyBackConfig \/ SetAsideState \/ UnpackState \/ StartRestored

Next ==
  \/ Begin \/ StageRelease \/ Prepare \/ StopRuntime \/ BackUpInstallation
  \/ InstallAssets \/ SetVersion \/ SetImage \/ PullImage \/ ImportImage
  \/ StartRuntime \/ VerifyRuntime \/ Restore \/ Kill

Spec == Init /\ [][Next]_vars

-----------------------------------------------------------------------------
(* Properties. *)

\* Types of the installation.
TypeOK ==
  /\ pc \in Phase
  /\ result \in Result
  /\ requested \in Versions
  /\ staged \in Staged
  /\ env \in Env
  /\ files \in Files
  /\ runtime \in Versions \cup {"unset", "unknown", "stopped"}
  /\ data \in State
  /\ expected \in Nat
  /\ backup \in Backup
  /\ archived \in BOOLEAN
  /\ release \in Manifests \cup {NoManifest}
  /\ image \in Archives \cup {Pulled, NoImage}
  /\ before \in [env : Env, files : Files, data : State]
  /\ runs \in Nat

\* Whatever fails and wherever the script is killed, also in the middle of a
\* rollback: the Server state the operator had is in place, whole, or in a
\* backup, and the one that the last run found, which is another one when a
\* rollback was interrupted before, is in place or in the backup of that very
\* run.
StateSurvives ==
  /\ data = OwnState \/ archived
  /\ data = before.data \/ backup.data = before.data

\* An update that reports success runs the requested release on the identity of
\* the state that was there when it began, also over an installation that an
\* earlier run left half updated.  (Not when a helper does not match its digest:
\* what it reports decides.)
SuccessIsVerified ==
  result = "updated" /\ files # "bad helper" =>
    /\ env = EnvOf(requested)
    /\ runtime = requested
    /\ data.id = before.data.id

\* A new release that did not come from the registry is complete: the archive
\* that Docker was given holds, undamaged, everything that the image of the
\* release refers to, whatever was published, served or stored in its place and
\* whichever asset does not match but the helper that verifies it.
ImportedIsWhole ==
  image \in Archives /\ "bad helper" \notin {staged, before.files}
    => Whole(image, release.image)

\* A completed rollback gives back what the run found, piece by piece: what the
\* backup holds of the configuration is there again, and with .env the old
\* release and the Server state.  What nobody noticed to be missing in the backup
\* stays new: then the release that .env names, and runs, is the one that failed.
RollbackRestores ==
  result = "rolledback" =>
    /\ IF backup.env = NoEnv
         THEN env.version = requested
         ELSE env = before.env /\ data = before.data
    /\ backup.files = before.files /\ before.files # "partly" => files = before.files
    /\ runtime = env.image

\* An update that failed leaves the configuration that it found.
FailureRollsBack ==
  result = "failed" => env = before.env /\ files = before.files

\* No asset that its digest rejects is installed.
MismatchRejected == files \notin Mismatching
=============================================================================
