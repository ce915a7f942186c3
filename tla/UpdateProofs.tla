----------------------------- MODULE UpdateProofs -----------------------------
(***************************************************************************)
(* Proofs about ReleaseManifest and Update for any image, any archive, any *)
(* choice of failing steps and any number of runs.                         *)
(*                                                                         *)
(* The invariant says what each phase of the script has behind it: until    *)
(* the backup the installation is the one that the run found; from then on *)
(* the operator's Server state is archived and the one that the run found  *)
(* is in its own backup; from the edits of .env on the requested release is *)
(* named there, and a restore gives back piece by piece what the backup    *)
(* holds.  A mismatching helper that was downloaded is the one installed.  *)
(***************************************************************************)
EXTENDS Update, TLAPS

-----------------------------------------------------------------------------
(* The archive. *)

\* A verified manifest has its config and every layer in the archive.
LEMMA ManifestIsWhole ==
  ASSUME NEW archive, NEW digest, VerifyImageManifest(archive, digest)
  PROVE  /\ Content[digest].kind = "manifest"
         /\ \A d \in Filesystem(digest) : archive.blobs[d] = "intact"
  BY DEF VerifyImageManifest, VerifyDescriptorBlob, Filesystem

\* An image index has its one manifest for the platform there, and that is
\* whole.
LEMMA IndexIsWhole ==
  ASSUME NEW archive, NEW digest, VerifyImageIndex(archive, digest)
  PROVE  /\ Content[digest].kind = "index"
         /\ \A i \in PlatformDescriptors(digest) :
              LET child == Content[digest].manifests[i].digest IN
              /\ archive.blobs[child] = "intact"
              /\ \A d \in Filesystem(child) : archive.blobs[d] = "intact"
<1>1. PICK i \in DOMAIN Content[digest].manifests :
        /\ PlatformDescriptors(digest) = {i}
        /\ VerifyDescriptorBlob(archive, Content[digest].manifests[i])
        /\ VerifyImageManifest(archive, Content[digest].manifests[i].digest)
  BY DEF VerifyImageIndex
<1>2. \A d \in Filesystem(Content[digest].manifests[i].digest) : archive.blobs[d] = "intact"
  BY <1>1, ManifestIsWhole
<1> QED BY <1>1, <1>2 DEF VerifyImageIndex, VerifyDescriptorBlob

\* An archive that verify_oci_archive accepts for an image holds, undamaged,
\* everything that the image refers to for linux/amd64, whichever of the two
\* forms the image has.
THEOREM VerifiedIsWhole ==
  ASSUME NEW archive, NEW img, VerifyOciArchive(archive, img)
  PROVE  Whole(archive, img)
<1>1. PICK i \in DOMAIN archive.index :
        /\ RootDescriptors(archive, img) = {i}
        /\ VerifyDescriptorBlob(archive, archive.index[i])
        /\ VerifyImageIndex(archive, img) \/ VerifyImageManifest(archive, img)
  BY DEF VerifyOciArchive
<1>2. archive.blobs[img] = "intact"
  BY <1>1 DEF RootDescriptors, VerifyDescriptorBlob
<1>3. CASE VerifyImageIndex(archive, img)
  BY <1>2, <1>3, IndexIsWhole DEF Whole, Needed
<1>4. CASE VerifyImageManifest(archive, img)
  BY <1>2, <1>4, ManifestIsWhole DEF Whole, Needed
<1> QED BY <1>1, <1>3, <1>4

-----------------------------------------------------------------------------
(* The script. *)

\* Nothing is touched before there is a backup, and nothing is staged at first.
EarlyPhases == {"stage", "prepare", "stop", "backup"}

Untouched ==
  /\ pc \in EarlyPhases \cup {"install"} =>
       env = before.env /\ files = before.files /\ data = before.data
  /\ pc = "stage" => image = NoImage
  /\ pc # "idle" => result = "none"

\* From the backup on a state that is one is in this run's backup, with what the
\* copies of the configuration left there.
BackedUp ==
  pc \notin EarlyPhases \cup {"idle"} =>
    /\ archived
    /\ backup.data = before.data
    /\ backup.env \in {before.env, NoEnv, TornEnv}
    /\ ~MayFail("backup") => backup.env = before.env /\ backup.files = before.files

\* A state that is there has an identity.
Identified ==
  /\ data = NoState \/ data.id # Gone
  /\ before.data = NoState \/ before.data.id # Gone
  /\ pc \in {"install", "version", "image", "pull", "import", "up", "verify"} =>
       data.id # Gone
  /\ pc \notin EarlyPhases \cup {"idle"} => before.data.id # Gone
  /\ pc \notin {"idle", "stage", "prepare"} => expected \in {before.data.id, Gone}

\* From the edits of .env on the requested release is named there, as its helper
\* says, and what is verified runs.
Forward ==
  /\ pc \in {"image", "pull", "import", "up", "verify", "down", "copyback"} =>
       env.version = requested
  /\ pc \in {"pull", "import", "up", "verify"} /\ staged # "bad helper" =>
       env.image = requested
  /\ pc = "verify" => runtime = env.image

\* The helper that imports and verifies is the one that was downloaded.
Helpers ==
  pc \in {"version", "image", "pull", "import", "up", "verify"} =>
    /\ staged = "bad helper" => files = "bad helper"
    /\ "bad helper" \notin {staged, before.files} => files # "bad helper"

\* What a restore has put back so far.
Backward ==
  /\ pc \in {"setaside", "untar", "upagain"} =>
       /\ IF backup.env = NoEnv THEN env.version = requested ELSE env = backup.env
       /\ backup.files # "partly" => files = backup.files
  /\ pc = "upagain" => data = backup.data

Inv ==
  /\ TypeOK
  /\ Untouched
  /\ BackedUp
  /\ Identified
  /\ Forward
  /\ Helpers
  /\ Backward
  /\ StateSurvives
  /\ SuccessIsVerified
  /\ RollbackRestores
  /\ ImportedIsWhole

\* Names of versions are none of the words that stand for something else.
LEMMA Names ==
  \A v \in Versions : v \notin {"bad", "bad helper", "partly", "missing", "unset", "unknown"}
  BY UpdateAssumption DEF Mismatching

LEMMA NoEnvIsNone == NoEnv \notin Env /\ TornEnv \in Env /\ NoEnv # TornEnv
  BY Names DEF NoEnv, TornEnv, EnvOf, Env

LEMMA States ==
  /\ NoState \in State /\ NoState.id = Gone
  /\ \A run \in Nat : MadeBy(run) \in State /\ MadeBy(run).id = run + 1
  /\ \A state \in State : /\ state.id \in Nat
                          /\ [state EXCEPT !.whole = FALSE] \in State
                          /\ [state EXCEPT !.whole = FALSE].id = state.id
<1>1. NoState \in State /\ NoState.id = Gone
  BY DEF NoState, State, Gone
<1>2. ASSUME NEW run \in Nat PROVE MadeBy(run) \in State /\ MadeBy(run).id = run + 1
  BY DEF MadeBy, State
<1>3. ASSUME NEW state \in State
      PROVE  /\ state.id \in Nat
             /\ [state EXCEPT !.whole = FALSE] \in State
             /\ [state EXCEPT !.whole = FALSE].id = state.id
  BY DEF State
<1> QED BY <1>1, <1>2, <1>3

LEMMA InitInv == Init => Inv
<1> SUFFICES ASSUME Init PROVE Inv
  OBVIOUS
<1>1. env \in Env /\ data \in State /\ files \in Files /\ First \in Versions
  BY UpdateAssumption DEF Init, Env, EnvOf, State, OwnState, Own, Files
<1>2. backup \in Backup
  BY DEF Init, Backup, NoBackup, NoState, State, Gone, Files
<1>3. before \in [env : Env, files : Files, data : State]
  BY <1>1 DEF Init
<1>4. TypeOK
  BY <1>1, <1>2, <1>3 DEF Init, TypeOK, Phase, Result, Staged, Gone
<1>5. ImportedIsWhole
  BY UpdateAssumption DEF Init, ImportedIsWhole
<1>6. Untouched /\ BackedUp /\ Forward /\ Helpers /\ Backward
  BY DEF Init, Untouched, BackedUp, Forward, Helpers, Backward, EarlyPhases
<1>7. Identified
  BY DEF Init, Identified, OwnState, Own, Gone, EarlyPhases
<1>8. StateSurvives /\ SuccessIsVerified /\ RollbackRestores
  BY DEF Init, StateSurvives, SuccessIsVerified, RollbackRestores
<1> QED BY <1>4, <1>5, <1>6, <1>7, <1>8 DEF Inv

-----------------------------------------------------------------------------
(* Types. *)

LEMMA MixedIsFiles ==
  ASSUME NEW others, files \in Files
  PROVE  MixedWith(others) \subseteq Files
  BY DEF MixedWith, Files

LEMMA NextType == Inv /\ [Next]_vars => TypeOK'
<1> SUFFICES ASSUME Inv, [Next]_vars PROVE TypeOK'
  OBVIOUS
<1>0. TypeOK
  BY DEF Inv
<1>1. CASE Begin
  <2>1. before' \in [env : Env, files : Files, data : State]
    BY <1>0, <1>1 DEF TypeOK, Begin
  <2>2. backup' \in Backup
    BY <1>1 DEF Begin, Backup, NoBackup, NoState, State, Gone, Files
  <2> QED
    BY <1>0, <1>1, <2>1, <2>2 DEF TypeOK, Begin, Phase, Result, Staged, Exit, Gone
<1>2. CASE StageRelease
  <2>1. /\ pc' \in Phase /\ result' \in Result
        /\ release' \in Manifests \cup {NoManifest}
        /\ staged' \in Staged
    BY <1>0, <1>2 DEF TypeOK, StageRelease, ExitOnFailure, Goto, Exit, Phase, Result,
                      Staged, Mismatching
  <2> QED
    BY <1>0, <1>2, <2>1 DEF TypeOK, StageRelease
<1>3. CASE Prepare
  <2>1. expected' \in Nat
    BY <1>0, <1>3, States DEF TypeOK, Prepare, IdsRead, Gone
  <2> QED
    BY <1>0, <1>3, <2>1 DEF TypeOK, Prepare, Goto, Exit, Phase, Result
<1>4. CASE StopRuntime
  BY <1>0, <1>4 DEF TypeOK, StopRuntime, ExitOnFailure, Goto, Exit, Phase, Result, local
<1>5. CASE BackUpInstallation
  <2>1. PICK savedEnv \in {env, NoEnv, TornEnv}, savedFiles \in {files, "partly"},
             kept \in {data, NoState} :
          backup' = [env |-> savedEnv, files |-> savedFiles, data |-> kept]
    BY <1>5 DEF BackUpInstallation, BackUp
  <2>2. savedEnv \in Env \cup {NoEnv} /\ savedFiles \in Files /\ kept \in State
    BY <1>0, NoEnvIsNone, States DEF TypeOK, Files
  <2>3. backup' \in Backup
    BY <2>1, <2>2 DEF Backup
  <2>4. /\ pc' \in Phase /\ result' \in Result
        /\ runtime' \in Versions \cup {"unset", "unknown", "stopped"}
        /\ UNCHANGED <<env, files, data, runs, local>>
    BY <1>0, <1>5 DEF TypeOK, BackUpInstallation, BackUp, Goto, Exit, Phase, Result
  <2>5. archived' \in BOOLEAN
    <3>1. archived' = archived \/ archived' = (archived \/ data = OwnState)
      BY <1>5 DEF BackUpInstallation, BackUp
    <3> QED BY <1>0, <3>1 DEF TypeOK
  <2> QED BY <1>0, <2>3, <2>4, <2>5 DEF TypeOK, local
<1>6. CASE InstallAssets
  <2>1. files' \in Files
    BY <1>0, <1>6, MixedIsFiles DEF TypeOK, InstallAssets, Files, Mismatching
  <2> QED
    BY <1>0, <1>6, <2>1 DEF TypeOK, InstallAssets, EndsWithin, ExitOnFailure, Goto, Exit,
                            Phase, Result, local
<1>7. CASE SetVersion \/ SetImage
  <2>1. env' \in Env
    BY <1>0, <1>7 DEF TypeOK, SetVersion, SetImage, Env
  <2> QED
    BY <1>0, <1>7, <2>1 DEF TypeOK, SetVersion, SetImage, ExitOnFailure, Goto, Exit,
                            Phase, Result, local
<1>8. CASE PullImage \/ ImportImage
  BY <1>0, <1>8 DEF TypeOK, PullImage, ImportImage, ExitOnFailure, Goto, Exit, Phase, Result
<1>9. CASE StartRuntime
  <2>1. data' \in State
    BY <1>0, <1>9, States DEF TypeOK, StartRuntime
  <2> QED
    BY <1>0, <1>9, <2>1 DEF TypeOK, StartRuntime, Goto, Phase, Env, local
<1>10. CASE VerifyRuntime
  <2>1. PICK kept : Verify(kept)
    BY <1>10 DEF VerifyRuntime
  <2> QED
    BY <1>0, <2>1 DEF TypeOK, Verify, Goto, Exit, Phase, Result, local
<1>11. CASE TakeDown
  BY <1>0, <1>11 DEF TypeOK, TakeDown, Goto, Phase, local
<1>12. CASE CopyBackConfig
  <2>1. env' \in Env
    BY <1>0, <1>12, NoEnvIsNone DEF TypeOK, CopyBackConfig, CopyBack, Backup
  <2>2. files' \in Files
    BY <1>0, <1>12, MixedIsFiles DEF TypeOK, CopyBackConfig, CopyBack, Backup
  <2> QED
    BY <1>0, <1>12, <2>1, <2>2 DEF TypeOK, CopyBackConfig, CopyBack, EndsWithin,
                                   ExitOnFailure, Goto, Exit, Phase, Result, local
<1>13. CASE SetAsideState \/ UnpackState
  <2>1. data' \in State
    <3>1. backup.data \in State
      BY <1>0 DEF TypeOK, Backup
    <3> QED
      BY <1>0, <1>13, <3>1, States DEF TypeOK, SetAsideState, UnpackState
  <2> QED
    BY <1>0, <1>13, <2>1 DEF TypeOK, SetAsideState, UnpackState, EndsWithin, ExitOnFailure,
                             Goto, Exit, Phase, Result, local
<1>14. CASE StartRestored
  <2>1. data' \in State /\ runtime' \in Versions \cup {"unset", "unknown", "stopped"}
    BY <1>0, <1>14, States DEF TypeOK, StartRestored, Env
  <2> QED
    BY <1>0, <1>14, <2>1 DEF TypeOK, StartRestored, Exit, Phase, Result, local
<1>15. CASE Kill \/ UNCHANGED vars
  BY <1>0, <1>15 DEF TypeOK, Kill, Exit, Phase, Result, local, vars
<1> QED
  BY <1>1, <1>2, <1>3, <1>4, <1>5, <1>6, <1>7, <1>8, <1>9, <1>10, <1>11, <1>12, <1>13,
     <1>14, <1>15 DEF Next, Restore

-----------------------------------------------------------------------------
(* The image.                                                              *)

LEMMA NextWhole == Inv /\ [Next]_vars => ImportedIsWhole'
<1> SUFFICES ASSUME Inv, [Next]_vars PROVE ImportedIsWhole'
  OBVIOUS
<1>1. ASSUME UNCHANGED <<release, image, staged, before>> PROVE ImportedIsWhole'
  <2>1. Whole(image, release.image)' <=> Whole(image, release.image)
    BY <1>1 DEF Whole, Needed, Filesystem, PlatformDescriptors
  <2>2. ("bad helper" \notin {staged, before.files})' <=> "bad helper" \notin {staged, before.files}
    BY <1>1
  <2> QED
    BY <1>1, <2>1, <2>2 DEF Inv, ImportedIsWhole
<1>2. ASSUME image' \in {Pulled, NoImage} PROVE ImportedIsWhole'
  BY <1>2, UpdateAssumption DEF ImportedIsWhole
<1>3. CASE Begin \/ StageRelease
  BY <1>2, <1>3 DEF Begin, StageRelease, Inv, Untouched
<1>4. CASE PullImage
  BY <1>1, <1>2, <1>4 DEF PullImage
<1>5. CASE ImportImage
  <2>1. ASSUME NEW archive \in Archives, NEW accepted, image' = archive,
               accepted \in Reports(files # "bad helper", VerifyImageArchive(release, archive)),
               accepted, "bad helper" \notin {staged, before.files}
        PROVE  Whole(archive, release.image)
    <3>1. files # "bad helper"
      BY <1>5, <2>1 DEF ImportImage, Inv, Helpers
    <3>2. VerifyImageArchive(release, archive)
      BY <2>1, <3>1, Zenon DEF Reports
    <3> QED
      BY <3>2, VerifiedIsWhole DEF VerifyImageArchive
  <2>2. \/ image' = image
        \/ \E archive \in Archives :
             \E accepted \in Reports(files # "bad helper", VerifyImageArchive(release, archive)) :
               accepted /\ image' = archive
    BY <1>5, Zenon DEF ImportImage
  <2>3. UNCHANGED <<release, staged, before>>
    BY <1>5 DEF ImportImage
  <2>4. CASE image' = image
    BY <1>1, <2>3, <2>4
  <2>5. CASE image' # image
    <3>1. "bad helper" \notin {staged, before.files} => Whole(image', release.image)
      BY <2>1, <2>2, <2>5
    <3>2. Whole(image, release.image)' <=> Whole(image', release.image)
      BY <2>3 DEF Whole, Needed, Filesystem, PlatformDescriptors
    <3>3. ("bad helper" \notin {staged, before.files})' <=> "bad helper" \notin {staged, before.files}
      BY <2>3
    <3> QED
      BY <3>1, <3>2, <3>3 DEF ImportedIsWhole
  <2> QED BY <2>4, <2>5
<1>6. CASE Prepare \/ StopRuntime \/ BackUpInstallation \/ InstallAssets \/ SetVersion \/ SetImage
  BY <1>1, <1>6 DEF Prepare, StopRuntime, BackUpInstallation, BackUp, InstallAssets, SetVersion,
                    SetImage, local
<1>7. CASE StartRuntime \/ VerifyRuntime \/ Kill
  BY <1>1, <1>7 DEF StartRuntime, VerifyRuntime, Verify, Kill, local
<1>8. CASE Restore
  BY <1>1, <1>8 DEF Restore, TakeDown, CopyBackConfig, CopyBack, SetAsideState,
                    UnpackState, StartRestored, local
<1>9. CASE UNCHANGED vars
  BY <1>1, <1>9 DEF vars, local
<1> QED BY <1>3, <1>4, <1>5, <1>6, <1>7, <1>8, <1>9 DEF Next

-----------------------------------------------------------------------------
(* The phases. *)

\* Before the backup a run looks and stops, and touches nothing.
LEMMA EarlyKeeps ==
  ASSUME Inv, Begin \/ StageRelease \/ Prepare \/ StopRuntime
  PROVE  /\ Untouched' /\ BackedUp' /\ Identified' /\ Forward' /\ Helpers' /\ Backward'
         /\ StateSurvives' /\ SuccessIsVerified' /\ RollbackRestores'
<1>1. CASE Begin
  <2>1. /\ pc' \in {"idle", "stage"}
        /\ pc' = "stage" => result' = "none"
        /\ result' \in {"none", "already"}
        /\ image' = NoImage
        /\ before' = [env |-> env, files |-> files, data |-> data]
        /\ UNCHANGED <<env, files, data, archived>>
    BY <1>1 DEF Begin, Exit
  <2>2. before'.env = env /\ before'.files = files /\ before'.data = data
    BY <2>1
  <2> QED
    BY <2>1, <2>2 DEF Inv, Untouched, BackedUp, Identified, Forward, Helpers, Backward,
       StateSurvives, SuccessIsVerified, RollbackRestores, EarlyPhases
<1>2. CASE StageRelease
  <2>1. /\ pc = "stage"
        /\ \/ pc' = "prepare" /\ result' = result
           \/ pc' = "idle" /\ result' = "failed"
        /\ UNCHANGED <<env, files, data, archived, before, image>>
    BY <1>2 DEF StageRelease, ExitOnFailure, Goto, Exit
  <2> QED
    BY <2>1 DEF Inv, Untouched, BackedUp, Identified, Forward, Helpers, Backward,
       StateSurvives, SuccessIsVerified, RollbackRestores, EarlyPhases
<1>3. CASE Prepare
  <2>1. /\ pc = "prepare"
        /\ \/ pc' = "stop" /\ result' = result /\ expected' \in {data.id, Gone}
           \/ pc' = "idle" /\ result' = "failed"
        /\ UNCHANGED <<env, files, data, archived, before, image>>
    BY <1>3 DEF Prepare, IdsRead, ExitOnFailure, Goto, Exit
  <2> QED
    BY <2>1 DEF Inv, Untouched, BackedUp, Identified, Forward, Helpers, Backward,
       StateSurvives, SuccessIsVerified, RollbackRestores, EarlyPhases
<1>4. CASE StopRuntime
  <2>1. /\ pc = "stop"
        /\ \/ pc' = "backup" /\ result' = result
           \/ pc' = "idle" /\ result' = "failed"
        /\ UNCHANGED <<env, files, data, archived, before, image, expected>>
    BY <1>4 DEF StopRuntime, ExitOnFailure, Goto, Exit, local
  <2> QED
    BY <2>1 DEF Inv, Untouched, BackedUp, Identified, Forward, Helpers, Backward,
       StateSurvives, SuccessIsVerified, RollbackRestores, EarlyPhases
<1> QED
  BY <1>1, <1>2, <1>3, <1>4

\* The backup is what the later phases rest on.
LEMMA BackUpKeeps ==
  ASSUME Inv, BackUpInstallation
  PROVE  /\ Untouched' /\ BackedUp' /\ Identified' /\ Forward' /\ Helpers' /\ Backward'
         /\ StateSurvives' /\ SuccessIsVerified' /\ RollbackRestores'
<1>1. /\ pc = "backup"
      /\ UNCHANGED <<env, files, data, local>>
      /\ env = before.env /\ files = before.files /\ data = before.data
  BY DEF BackUpInstallation, BackUp, Inv, Untouched, EarlyPhases
<1>2. PICK savedEnv \in {env, NoEnv, TornEnv}, savedFiles \in {files, "partly"} :
        /\ ~MayFail("backup") => savedEnv = env /\ savedFiles = files
        /\ \/ /\ data # NoState
              /\ backup' = [env |-> savedEnv, files |-> savedFiles, data |-> data]
              /\ archived' = (archived \/ data = OwnState)
              /\ pc' = "install"
              /\ UNCHANGED result
           \/ /\ pc' = "idle"
              /\ result' = "failed"
              /\ UNCHANGED archived
  BY DEF BackUpInstallation, BackUp, Goto, Exit
<1>3. CASE pc' = "install"
  <2>1. archived'
    BY <1>2, <1>3 DEF Inv, StateSurvives
  <2>2. backup'.env = savedEnv /\ backup'.files = savedFiles /\ backup'.data = data
    BY <1>2, <1>3
  <2>3. data.id # Gone /\ result' = result
    BY <1>2, <1>3 DEF Inv, Identified
  <2> QED
    BY <1>1, <1>2, <1>3, <2>1, <2>2, <2>3
    DEF Inv, Untouched, BackedUp, Identified, Forward, Helpers, Backward,
       StateSurvives, SuccessIsVerified, RollbackRestores, EarlyPhases, local
<1>4. CASE pc' = "idle"
  <2>1. result' = "failed" /\ UNCHANGED archived
    BY <1>2, <1>4
  <2> QED
    BY <1>1, <1>4, <2>1 DEF Inv, Untouched, BackedUp, Identified, Forward, Helpers, Backward,
       StateSurvives, SuccessIsVerified, RollbackRestores, EarlyPhases, local
<1> QED
  BY <1>2, <1>3, <1>4

\* What is installed is what was staged.
LEMMA InstallKeeps ==
  ASSUME Inv, InstallAssets \/ SetVersion \/ SetImage \/ PullImage \/ ImportImage
  PROVE  /\ Untouched' /\ BackedUp' /\ Identified' /\ Forward' /\ Helpers' /\ Backward'
         /\ StateSurvives' /\ SuccessIsVerified' /\ RollbackRestores'
<1>0. TypeOK
  BY DEF Inv
<1>1. CASE InstallAssets
  <2>1. /\ pc = "install"
        /\ \/ /\ pc' = "version" /\ result' = result
              /\ staged = "bad helper" => files' = "bad helper"
              /\ "bad helper" \notin {staged, files} => files' # "bad helper"
           \/ pc' = "idle" /\ result' \in {"failed", "killed"}
        /\ UNCHANGED <<env, runtime, data, backup, archived, runs, local>>
    BY <1>0, <1>1, Names DEF TypeOK, InstallAssets, MixedWith, EndsWithin, ExitOnFailure, Goto,
                             Exit, Mismatching
  <2> QED
    BY <2>1 DEF Inv, Untouched, BackedUp, Identified, Forward, Helpers, Backward,
       StateSurvives, SuccessIsVerified, RollbackRestores, EarlyPhases, local
<1>2. CASE SetVersion \/ SetImage
  <2>1. /\ pc \in {"version", "image"}
        /\ \/ /\ pc' = IF pc = "version" THEN "image" ELSE "pull"
              /\ result' = result
              /\ env'.version = IF pc = "version" THEN requested ELSE env.version
              /\ pc = "image" /\ staged # "bad helper" => env'.image = requested
           \/ pc' = "idle" /\ result' = "failed"
        /\ UNCHANGED <<files, runtime, data, backup, archived, runs, local>>
    BY <1>0, <1>2 DEF TypeOK, Env, SetVersion, SetImage, ExitOnFailure, Goto, Exit
  <2> QED
    BY <2>1 DEF Inv, Untouched, BackedUp, Identified, Forward, Helpers, Backward,
       StateSurvives, SuccessIsVerified, RollbackRestores, EarlyPhases, local
<1>3. CASE PullImage \/ ImportImage
  <2>1. /\ pc \in {"pull", "import"}
        /\ \/ pc' \in {"import", "up"} /\ result' = result
           \/ pc' = "idle" /\ result' = "failed"
        /\ UNCHANGED <<env, files, runtime, data, backup, archived, runs,
                       requested, staged, expected, release, before>>
    BY <1>3 DEF PullImage, ImportImage, ExitOnFailure, Goto, Exit
  <2> QED
    BY <2>1 DEF Inv, Untouched, BackedUp, Identified, Forward, Helpers, Backward,
       StateSurvives, SuccessIsVerified, RollbackRestores, EarlyPhases
<1> QED
  BY <1>1, <1>2, <1>3

\* What is called updated was verified by a helper of the release.
LEMMA StartKeeps ==
  ASSUME Inv, StartRuntime \/ VerifyRuntime \/ Kill
  PROVE  /\ Untouched' /\ BackedUp' /\ Identified' /\ Forward' /\ Helpers' /\ Backward'
         /\ StateSurvives' /\ SuccessIsVerified' /\ RollbackRestores'
<1>0. TypeOK
  BY DEF Inv
<1>1. CASE StartRuntime
  <2>1. data' = data \/ (data'.id = runs + 1 /\ data' # NoState)
    BY <1>0, <1>1, States DEF TypeOK, StartRuntime, Gone
  <2>2. /\ pc = "up"
        /\ \/ pc' = "verify" /\ runtime' = env.image
           \/ pc' = "down"
        /\ result' = result
        /\ UNCHANGED <<env, files, backup, archived, runs, local>>
    BY <1>1 DEF StartRuntime, Goto
  <2>3. data'.id # Gone
    BY <1>0, <2>1, <2>2 DEF TypeOK, Inv, Identified, Gone
  <2> QED
    BY <2>1, <2>2, <2>3 DEF Inv, Untouched, BackedUp, Identified, Forward, Helpers, Backward,
       StateSurvives, SuccessIsVerified, RollbackRestores, EarlyPhases, local
<1>2. CASE VerifyRuntime
  <2>1. PICK kept \in Reports(files # "bad helper", data.id = expected) : Verify(kept)
    BY <1>2 DEF VerifyRuntime
  <2>2. /\ pc = "verify"
        /\ \/ kept /\ pc' = "idle" /\ result' = "updated"
           \/ pc' = "down" /\ result' = result
        /\ UNCHANGED <<env, files, runtime, data, backup, archived, runs, local>>
    BY <2>1, Zenon DEF Verify, Goto, Exit
  <2>3. kept /\ files # "bad helper" => data.id = expected
    BY <2>1, Zenon DEF Reports
  <2>4. ASSUME kept, files # "bad helper"
        PROVE  /\ env = EnvOf(requested) /\ runtime = requested
               /\ data.id = before.data.id
    <3>1. env.version = requested /\ env.image = requested /\ runtime = env.image
      BY <2>2, <2>4 DEF Inv, Forward, Helpers
    <3>2. env = EnvOf(requested)
      BY <1>0, <3>1 DEF TypeOK, Env, EnvOf
    <3>3. data.id = before.data.id
      BY <2>2, <2>3, <2>4 DEF Inv, Identified
    <3> QED
      BY <3>1, <3>2, <3>3
  <2>5. SuccessIsVerified'
    BY <2>2, <2>4 DEF Inv, SuccessIsVerified, Untouched, local
  <2> QED
    BY <2>2, <2>5 DEF Inv, Untouched, BackedUp, Identified, Forward, Helpers, Backward,
       StateSurvives, RollbackRestores, EarlyPhases, local
<1>3. CASE Kill
  BY <1>3 DEF Kill, Exit, Inv, Untouched, BackedUp, Identified, Forward, Helpers, Backward,
     StateSurvives, SuccessIsVerified, RollbackRestores, EarlyPhases, local
<1> QED
  BY <1>1, <1>2, <1>3

\* A restore puts back piece by piece.
LEMMA RestoreKeeps ==
  ASSUME Inv, Restore
  PROVE  /\ Untouched' /\ BackedUp' /\ Identified' /\ Forward' /\ Helpers' /\ Backward'
         /\ StateSurvives' /\ SuccessIsVerified' /\ RollbackRestores'
<1>0. TypeOK
  BY DEF Inv
<1>1. CASE TakeDown
  BY <1>1 DEF TakeDown, Goto, Inv, Untouched, BackedUp, Identified, Forward, Helpers, Backward,
     StateSurvives, SuccessIsVerified, RollbackRestores, EarlyPhases, local
<1>2. CASE CopyBackConfig
  <2>1. /\ pc = "copyback"
        /\ \/ /\ pc' = "setaside" /\ result' = result
              /\ env' = IF backup.env = NoEnv THEN env ELSE backup.env
              /\ backup.files # "partly" => files' = backup.files
           \/ pc' = "idle" /\ result' \in {"failed", "killed"}
        /\ UNCHANGED <<runtime, data, backup, archived, runs, local>>
    BY <1>2 DEF CopyBackConfig, CopyBack, EndsWithin, ExitOnFailure, Goto, Exit
  <2> QED
    BY <2>1 DEF Inv, Untouched, BackedUp, Identified, Forward, Helpers, Backward,
       StateSurvives, SuccessIsVerified, RollbackRestores, EarlyPhases, local
<1>3. CASE SetAsideState \/ UnpackState
  <2>1. backup.data \in State /\ backup.data = before.data
    BY <1>0, <1>3 DEF TypeOK, Backup, Inv, BackedUp, SetAsideState, UnpackState, EarlyPhases
  <2>2. /\ pc \in {"setaside", "untar"}
        /\ \/ pc' = "untar" /\ result' = result /\ data' = NoState
           \/ pc' = "upagain" /\ result' = result /\ data' = backup.data
           \/ /\ pc' = "idle" /\ result' \in {"failed", "killed"}
              /\ data' \in {data, [backup.data EXCEPT !.whole = FALSE]}
        /\ UNCHANGED <<env, files, runtime, backup, archived, runs, local>>
    BY <1>3 DEF SetAsideState, UnpackState, EndsWithin, ExitOnFailure, Goto, Exit
  <2>3. before.data.id # Gone /\ (data' = NoState \/ data'.id # Gone)
    BY <2>1, <2>2, States DEF Inv, Identified, EarlyPhases
  <2> QED
    BY <2>1, <2>2, <2>3 DEF Inv, Untouched, BackedUp, Identified, Forward, Helpers, Backward,
       StateSurvives, SuccessIsVerified, RollbackRestores, EarlyPhases, local
<1>4. CASE StartRestored
  <2>1. /\ pc = "upagain"
        /\ \/ /\ env.image # "unset" /\ pc' = "idle" /\ result' = "rolledback"
              /\ runtime' = env.image
              /\ env.image = before.env.image => data' = data
              /\ data' = data \/ data' = MadeBy(runs)
           \/ pc' = "idle" /\ result' = "failed" /\ data' = data
        /\ UNCHANGED <<env, files, backup, archived, runs, local>>
    BY <1>4 DEF StartRestored, Exit
  <2>2. data' = data \/ data'.id # Gone
    BY <1>0, <2>1, States DEF TypeOK, Gone
  <2>3. /\ archived /\ backup.data = before.data /\ data = backup.data
        /\ IF backup.env = NoEnv THEN env.version = requested ELSE env = backup.env
        /\ backup.files # "partly" => files = backup.files
        /\ backup.env \in {before.env, NoEnv, TornEnv}
    BY <2>1 DEF Inv, Backward, BackedUp, EarlyPhases
  <2>4. TornEnv.image = "unset"
    BY DEF TornEnv, EnvOf
  <2>5. RollbackRestores'
    BY <2>1, <2>3, <2>4 DEF RollbackRestores, local
  <2> QED
    BY <2>1, <2>2, <2>3, <2>5 DEF Inv, Untouched, BackedUp, Identified, Forward, Helpers,
       Backward, StateSurvives, SuccessIsVerified, EarlyPhases, local
<1> QED
  BY <1>1, <1>2, <1>3, <1>4 DEF Restore

LEMMA Invariance == Spec => []Inv
<1>1. Inv /\ [Next]_vars => Inv'
  <2> SUFFICES ASSUME Inv, [Next]_vars PROVE Inv'
    OBVIOUS
  <2>1. TypeOK' /\ ImportedIsWhole'
    BY NextType, NextWhole
  <2>2. ASSUME UNCHANGED vars
        PROVE  /\ Untouched' /\ BackedUp' /\ Identified' /\ Forward' /\ Helpers' /\ Backward'
               /\ StateSurvives' /\ SuccessIsVerified' /\ RollbackRestores'
    <3>1. UNCHANGED <<pc, result, env, files, runtime, data, backup, archived, requested,
                      staged, expected, image, before>>
      BY <2>2 DEF vars, local
    <3>2. Untouched' /\ BackedUp' /\ Forward' /\ Helpers' /\ Backward'
      BY <3>1 DEF Inv, Untouched, BackedUp, Forward, Helpers, Backward, EarlyPhases
    <3>3. Identified' /\ StateSurvives' /\ SuccessIsVerified' /\ RollbackRestores'
      BY <3>1 DEF Inv, Identified, StateSurvives, SuccessIsVerified, RollbackRestores, EarlyPhases
    <3> QED
      BY <3>2, <3>3
  <2>3. ASSUME Next
        PROVE  /\ Untouched' /\ BackedUp' /\ Identified' /\ Forward' /\ Helpers' /\ Backward'
               /\ StateSurvives' /\ SuccessIsVerified' /\ RollbackRestores'
    <3>1. CASE Begin \/ StageRelease \/ Prepare \/ StopRuntime
      BY <3>1, EarlyKeeps
    <3>2. CASE BackUpInstallation
      BY <3>2, BackUpKeeps
    <3>3. CASE InstallAssets \/ SetVersion \/ SetImage \/ PullImage \/ ImportImage
      BY <3>3, InstallKeeps
    <3>4. CASE StartRuntime \/ VerifyRuntime \/ Kill
      BY <3>4, StartKeeps
    <3>5. CASE Restore
      BY <3>5, RestoreKeeps
    <3> QED
      BY <2>3, <3>1, <3>2, <3>3, <3>4, <3>5 DEF Next
  <2> QED
    BY <2>1, <2>2, <2>3 DEF Inv
<1> QED BY InitInv, <1>1, PTL DEF Spec

\* Every variable keeps its type.
THEOREM UpdateTypes == Spec => []TypeOK
  BY Invariance, PTL DEF Inv

\* The operator's Server state, and the one that the run found, are in place or
\* archived, whatever fails and wherever the script is killed.
THEOREM UpdateKeepsState == Spec => []StateSurvives
  BY Invariance, PTL DEF Inv

\* Success means the requested release on the identity that the run found.
THEOREM UpdateVerifies == Spec => []SuccessIsVerified
  BY Invariance, PTL DEF Inv

\* A completed rollback gives back what the backup holds, whole or not; without
\* .env in it the release that failed is the one that runs again.
THEOREM UpdateRollsBack == Spec => []RollbackRestores
  BY Invariance, PTL DEF Inv

\* What Docker was given in place of the registry's image is complete, unless the
\* helper that verifies it does not match its digest.
THEOREM UpdateImportsWhole == Spec => []ImportedIsWhole
  BY Invariance, PTL DEF Inv

\* The script touches configuration, files and Server state only when some backup
\* holds the operator's state and this run's backup the state that the run found;
\* and, when no copy of the backup fails, the .env and the files that it found.
ArchivedBeforeTouched ==
  [][\/ UNCHANGED <<env, files, data>>
     \/ /\ archived
        /\ backup.data = before.data
        /\ backup.env \in {before.env, NoEnv, TornEnv}
        /\ ~MayFail("backup") => backup.env = before.env /\ backup.files = before.files]_vars

\* Nothing is edited, installed or moved away without a backup behind it.
THEOREM UpdateArchivesFirst == Spec => ArchivedBeforeTouched
<1> DEFINE Archived ==
      /\ archived
      /\ backup.data = before.data
      /\ backup.env \in {before.env, NoEnv, TornEnv}
      /\ ~MayFail("backup") => backup.env = before.env /\ backup.files = before.files
<1>1. Inv /\ [Next]_vars => UNCHANGED <<env, files, data>> \/ Archived
  <2> SUFFICES ASSUME Inv, [Next]_vars, ~UNCHANGED <<env, files, data>> PROVE Archived
    OBVIOUS
  <2>1. pc \in {"install", "version", "image", "up", "copyback", "setaside", "untar", "upagain"}
    BY DEF Next, Restore, Begin, StageRelease, Prepare, StopRuntime,
           BackUpInstallation, BackUp, InstallAssets, SetVersion, SetImage, PullImage,
           ImportImage, StartRuntime, VerifyRuntime, Verify, Kill, TakeDown,
           CopyBackConfig, CopyBack, SetAsideState, UnpackState, StartRestored, vars
  <2> QED BY <2>1 DEF Inv, BackedUp, EarlyPhases
<1> QED BY Invariance, <1>1, PTL DEF Spec, ArchivedBeforeTouched

-----------------------------------------------------------------------------
(* Which failures the script is a transaction for.                         *)

\* The failures that it notices and undoes.
Caught == {"prepare", "stop", "up", "verify"}

\* What the script says when it ends is true of the whole installation, which is
\* of one version, the one found or the one requested, with the operator's state.
AllOrNothing ==
  pc = "idle" =>
    /\ files \in Versions
    /\ env = EnvOf(files)
    /\ data = OwnState
    /\ IF result = "updated"
         THEN files = requested /\ runtime = requested
         ELSE files = before.files /\ runtime \in {files, "stopped"}
    /\ result = "rolledback" => runtime = files

\* The installation in each phase, when nothing else fails.
InPhase ==
  /\ pc # "import"
  /\ before.files \in Versions
  /\ before.env = EnvOf(before.files)
  /\ before.data = OwnState
  /\ pc # "idle" => runs # 0
  /\ pc \in EarlyPhases \cup {"install"} => runtime \in {files, "stopped"}
  /\ pc \notin {"idle", "stage"} => staged = "good"
  /\ pc \in {"version", "image", "pull", "up", "verify", "down", "copyback"} =>
       files = requested
  /\ pc \in {"version", "image", "pull", "up"} => data = OwnState
  /\ pc = "verify" => data \in {OwnState, MadeBy(runs)}
  /\ pc \notin {"idle", "stage", "prepare"} => expected = Own

\* As long as only those failures happen, an update is all or nothing: the run
\* that fails leaves the installation that it found, and what is installed is
\* intact.
THEOREM UpdateIsAtomic ==
  ASSUME Faults \subseteq Caught
  PROVE  Spec => [](AllOrNothing /\ FailureRollsBack /\ MismatchRejected)
<1> DEFINE AInv == AllOrNothing /\ InPhase
<1>1. /\ ~MayFail("stage") /\ ~MayFail("backup") /\ ~MayFail("copy")
      /\ ~MayFail("env") /\ ~MayFail("pull") /\ ~MayFail("import")
      /\ ~MayFail("restore") /\ ~MayFail("kill")
  BY DEF MayFail, Caught
<1>2. Init => AInv
  BY UpdateAssumption DEF Init, AllOrNothing, InPhase, EarlyPhases
<1>3. AInv /\ Inv /\ [Next]_vars => AInv'
  <2> SUFFICES ASSUME AInv, Inv, [Next]_vars PROVE AInv'
    OBVIOUS
  <2>1. TypeOK /\ Untouched /\ BackedUp /\ Identified /\ Forward /\ Backward
    BY DEF Inv
  <2>2. /\ OwnState.id = Own /\ OwnState.whole /\ OwnState # NoState
        /\ \A run \in Nat \ {0} : MadeBy(run).id # Own
    BY DEF OwnState, Own, NoState, Gone, MadeBy
  <2>3. before.env \in Env /\ before.env # NoEnv /\ before.files \notin {"partly"} \cup Mismatching
    BY <2>1, Names, NoEnvIsNone DEF TypeOK, InPhase, Mismatching
  <2>4. pc \in {"setaside", "untar", "upagain"} => env = before.env /\ files = before.files
    BY <1>1, <2>1, <2>3 DEF BackedUp, Backward, EarlyPhases
  <2> HIDE DEF AInv
  <2> USE <1>1
  <2>5. CASE Begin
    <3>1. /\ pc = "idle" /\ pc' \in {"idle", "stage"} /\ runs' = runs + 1
          /\ before' = [env |-> env, files |-> files, data |-> data]
          /\ pc' = "idle" => result' = "already"
          /\ UNCHANGED <<env, files, runtime, data>>
      BY <2>5 DEF Begin, Exit
    <3>2. before'.env = env /\ before'.files = files /\ before'.data = data
      BY <3>1
    <3>3. runs' # 0
      BY <2>1, <3>1 DEF TypeOK
    <3> QED
      BY <3>1, <3>2, <3>3 DEF AInv, AllOrNothing, InPhase, EarlyPhases
  <2>6. CASE StageRelease
    <3>1. /\ pc = "stage"
          /\ \/ pc' = "prepare" /\ staged' = "good" /\ result' = result
             \/ pc' = "idle" /\ result' = "failed"
          /\ UNCHANGED <<env, files, runtime, data, runs, before, requested, expected>>
      BY <2>6 DEF StageRelease, ExitOnFailure, Goto, Exit
    <3> QED
      BY <2>1, <3>1 DEF AInv, AllOrNothing, InPhase, EarlyPhases, Untouched
  <2>7. CASE Prepare
    <3>1. /\ pc = "prepare"
          /\ \/ pc' = "stop" /\ expected' = data.id /\ result' = result
             \/ pc' = "idle" /\ result' = "failed"
          /\ UNCHANGED <<env, files, runtime, data, runs, before, requested, staged>>
      BY <2>1, <2>3, <2>7 DEF Prepare, IdsRead, Goto, Exit, Untouched, EarlyPhases, Mismatching
    <3> QED
      BY <2>1, <2>2, <3>1 DEF AInv, AllOrNothing, InPhase, EarlyPhases, Untouched
  <2>8. CASE StopRuntime
    <3>1. /\ pc = "stop"
          /\ pc' = "backup" \/ (pc' = "idle" /\ result' = "failed")
          /\ runtime' \in {runtime, "stopped"}
          /\ UNCHANGED <<env, files, data, runs, local>>
      BY <2>8 DEF StopRuntime, ExitOnFailure, Goto, Exit
    <3> QED
      BY <2>1, <3>1 DEF AInv, AllOrNothing, InPhase, EarlyPhases, Untouched, local
  <2>9. CASE BackUpInstallation
    <3>1. /\ pc = "backup"
          /\ pc' = "install" \/ data = NoState
          /\ UNCHANGED <<env, files, data, runs, local>>
          /\ pc' = "install" => UNCHANGED runtime
      BY <2>9 DEF BackUpInstallation, BackUp, Goto, Exit
    <3>2. pc' = "install"
      BY <2>1, <2>2, <3>1 DEF AInv, InPhase, Untouched, EarlyPhases
    <3> QED
      BY <2>1, <3>1, <3>2 DEF AInv, AllOrNothing, InPhase, EarlyPhases, Untouched, local
  <2>10. CASE InstallAssets
    <3>1. /\ pc = "install" /\ pc' = "version"
          /\ staged = "good" => files' = requested
          /\ UNCHANGED <<data, runs, local>>
      BY <2>10 DEF InstallAssets, EndsWithin, ExitOnFailure, Goto, Exit, AInv, InPhase
    <3> QED
      BY <2>1, <3>1 DEF AInv, AllOrNothing, InPhase, EarlyPhases, Untouched, local
  <2>11. CASE SetVersion \/ SetImage
    <3>1. /\ pc \in {"version", "image"} /\ pc' \in {"image", "pull"}
          /\ UNCHANGED <<files, runtime, data, runs, local>>
      BY <2>11 DEF SetVersion, SetImage, ExitOnFailure, Goto
    <3> QED
      BY <3>1 DEF AInv, AllOrNothing, InPhase, EarlyPhases, local
  <2>12. CASE PullImage \/ ImportImage
    <3>1. /\ pc = "pull" /\ pc' = "up"
          /\ UNCHANGED <<files, runtime, data, runs, requested, staged, expected, before>>
      BY <2>12 DEF PullImage, ImportImage, Goto, AInv, InPhase
    <3> QED
      BY <3>1 DEF AInv, AllOrNothing, InPhase, EarlyPhases
  <2>13. CASE StartRuntime
    <3>1. /\ pc = "up" /\ pc' \in {"verify", "down"}
          /\ data' \in {data, MadeBy(runs)}
          /\ UNCHANGED <<files, runs, local>>
      BY <2>13 DEF StartRuntime, Goto
    <3> QED
      BY <3>1 DEF AInv, AllOrNothing, InPhase, EarlyPhases, local
  <2>14. CASE VerifyRuntime
    <3>1. PICK kept \in Reports(files # "bad helper", data.id = expected) : Verify(kept)
      BY <2>14 DEF VerifyRuntime
    <3>2. /\ pc = "verify"
          /\ (kept /\ pc' = "idle" /\ result' = "updated") \/ pc' = "down"
          /\ UNCHANGED <<env, files, runtime, data, backup, archived, runs, local>>
      BY <3>1, Zenon DEF Verify, Goto, Exit
    <3>3. staged = "good" /\ files = requested /\ expected = Own
      BY <3>2 DEF AInv, InPhase
    <3>4. files # "bad helper" /\ env = EnvOf(requested) /\ runtime = requested
      BY <2>1, <3>2, <3>3, Names DEF TypeOK, Forward, Env, EnvOf
    <3>5. kept => data.id = expected
      BY <3>1, <3>4, Zenon DEF Reports
    <3>6. kept => data = OwnState
      BY <2>1, <2>2, <3>2, <3>3, <3>5 DEF AInv, InPhase, TypeOK
    <3> QED
      BY <2>1, <3>2, <3>3, <3>4, <3>6 DEF AInv, AllOrNothing, InPhase, EarlyPhases, TypeOK, local
  <2>15. CASE TakeDown \/ CopyBackConfig
    <3>1. /\ pc \in {"down", "copyback"}
          /\ pc = "down" => pc' = "copyback" /\ UNCHANGED files
          /\ pc = "copyback" => pc' = "setaside"
          /\ UNCHANGED <<data, runs, local>>
      BY <2>15 DEF TakeDown, CopyBackConfig, CopyBack, EndsWithin, ExitOnFailure, Goto
    <3> QED
      BY <3>1 DEF AInv, AllOrNothing, InPhase, EarlyPhases, local
  <2>16. CASE SetAsideState \/ UnpackState
    <3>1. /\ pc \in {"setaside", "untar"} /\ pc' \in {"untar", "upagain"}
          /\ UNCHANGED <<env, files, runs, local>>
      BY <2>16 DEF SetAsideState, UnpackState, EndsWithin, ExitOnFailure, Goto
    <3> QED
      BY <3>1 DEF AInv, AllOrNothing, InPhase, EarlyPhases, local
  <2>17. CASE StartRestored
    <3>1. env = EnvOf(before.files) /\ files = before.files /\ data = OwnState
      BY <2>1, <2>4, <2>17 DEF StartRestored, AInv, InPhase, Backward, BackedUp, EarlyPhases
    <3>2. env.image = files /\ env.image = before.env.image /\ env.image # "unset"
      BY <2>3, <3>1, Names DEF AInv, InPhase, EnvOf
    <3>3. /\ pc' = "idle" /\ result' = "rolledback" /\ runtime' = files /\ data' = data
          /\ UNCHANGED <<env, files, runs, local>>
      BY <2>17, <3>2 DEF StartRestored, Exit
    <3> QED
      BY <3>1, <3>3 DEF AInv, AllOrNothing, InPhase, EarlyPhases, local
  <2>18. CASE Kill \/ UNCHANGED vars
    <3>1. UNCHANGED <<pc, result, env, files, runtime, data, runs, local>>
      BY <2>18 DEF Kill, vars
    <3> QED
      BY <3>1 DEF AInv, AllOrNothing, InPhase, EarlyPhases, local
  <2> QED
    BY <2>5, <2>6, <2>7, <2>8, <2>9, <2>10, <2>11, <2>12, <2>13, <2>14, <2>15, <2>16, <2>17,
       <2>18 DEF Next, Restore
<1>4. AInv /\ Inv => AllOrNothing /\ FailureRollsBack /\ MismatchRejected
  <2> SUFFICES ASSUME AInv, Inv PROVE AllOrNothing /\ FailureRollsBack /\ MismatchRejected
    OBVIOUS
  <2>1. FailureRollsBack
    BY DEF Inv, Untouched, AllOrNothing, InPhase, FailureRollsBack
  <2>2. files \in Versions
    <3>1. pc \in {"setaside", "untar", "upagain"} => files = before.files
      <4>1. before.files # "partly"
        BY Names DEF InPhase
      <4> QED
        BY <1>1, <4>1 DEF Inv, BackedUp, Backward, EarlyPhases
    <3> QED
      BY <3>1 DEF Inv, TypeOK, Phase, Untouched, AllOrNothing, InPhase, EarlyPhases
  <2> QED
    BY <2>1, <2>2, Names DEF MismatchRejected, Mismatching
<1> QED BY <1>2, <1>3, <1>4, Invariance, PTL DEF Spec

=============================================================================
