# TLA+ specifications of Hermes Link Server

Hermes Link Server connects a mobile App to Hermes Agents that run on the
operator's own host. It pairs devices, proxies chats, keeps a small store of
content-free notifications, and is installed and updated by shell scripts. This
directory holds specifications of the parts where order, concurrency, crashes
or partial failure decide whether the program is right, the model-checking
configurations for them, and proofs.

Check one module with `tlc -config MCPairing.cfg MCPairing`, prove with
`tlapm PairingProofs.tla`.

## 1. Inventory

Paths are relative to the repository; `hl` stands for `src/hermes_link`.

| Component | Source | State it keeps | Operations |
|---|---|---|---|
| Pairing store | `hl/pairing/store.py`, `hl/pairing/http.py` | SQLite tables `pairing_tickets`, `pairing_devices` | `create_ticket`, `exchange`, `device_profile_ids`, `authenticate_device_token`, `revoke_device_token`, schema migration |
| DIRECT notification store | `hl/notifications/direct.py`, `events.py` | SQLite table of events, AUTOINCREMENT sequence | `publish` (insert, dedupe, prune), `read_after_event_id` |
| DIRECT event stream | `hl/integrations/hermes_agent/bridge.py` 516-650 | per connection: scope, cursor, deadline | authorise, replay, poll, write, close |
| Chat relay and notifications | `bridge.py` 347-485, 753-865 | per request: terminal state, is the App still there | relay, drain, publish DIRECT, start the Cloud thread |
| Server identity, Cloud configuration | `hl/identity/server.py` | `server.json`, `cloud.json` | create on first use, configure, clear, load |
| Cloud event sender | `hl/notifications/cloud_sender.py` | none | one signed request |
| Agent proxy and adapter | `adapter.py`, `bridge.py` 652-1098 | none; credentials from the environment | path tables, authorisation, forwarding with the Agent's key |
| Model configuration export | `model_config_exporter.py`, `bridge.py` 244-280, 671-750 | one snapshot file per Profile | a pass every 30 seconds: read, reduce, replace or withdraw; answer |
| Redacted log export | `observability/redacted_logs.py`, `security/redaction.py` | redacted copies of log files | export |
| Chat attachments, capabilities | `hl/api/` | none | validate, describe |
| Standard CLI | `deploy/standard/bin/hermes-link` | `.env`, assets, containers, `data/server`, `backups/` | update, status, doctor, logs, restart, sync, pair, uninstall |
| Installer | `install.sh` | as the CLI | fresh install, migration |
| Deployment scripts | `scripts/*.sh`, `deployment_helpers.py`, `manage-internal-credential.py` | credential files, environment files, systemd, Docker | deploy, create and rotate credentials |
| Release manifest | `scripts/release_manifest.py` | none | create, verify a manifest, a file, an OCI archive |
| Release gates | other `scripts/*.py` | none | scan texts |
| Historical Agent patches | `compat/` | not loaded by the Server | - |

**How they interact.** The HTTP server (`bridge.py`) runs one thread per
connection, and all threads share the two SQLite files and the state directory.
The `pair` command opens the same pairing database from another process. A chat
thread calls the Agent, relays its event stream to the App, then publishes an
event into the DIRECT store and starts one more thread for the Cloud. The
stream endpoint reads the pairing store once to authorise and then polls the
DIRECT store. A request for the Agent is checked against the device's Profiles,
rewritten to the Agent's path and sent with the Agent's own key, which a deployment
script put into a file, the Agent's environment and the server's. The exporter is
another container that turns the Agent's configuration into files the bridge
serves; `sync` decides which Profiles both of them see. `update` replaces the
whole program around its state directory, with an image that it pulls or imports
from an archive the release manifest describes.

**What is hard, and what makes each part correct.**

* *Pairing store*: exchanges of one code race in threads and processes; the
  time is sampled before a wait of up to ten seconds for the write lock; replies
  get lost after the commit; authentication reads and writes in two separate
  statements, with a revocation possibly in between. Correct means: a code is
  redeemed at most once, the ticket and the device row are written together or not
  at all, a delivered token has a row, a revocation stops every later request,
  and nothing that happened is undone.
* *DIRECT store*: events are stamped outside the lock and inserted inside it,
  so the log's order is not the stamps' order, and an insert prunes by its own
  older stamp. Correct means: nothing is lost except by retention or by the
  window, the event just inserted stays, retries do not notify twice.
* *DIRECT stream*: connections break in the middle of a batch, cursors point to
  rows pruned since, the process restarts, devices are revoked, Profiles appear.
  Correct means: the App's cursor never passes an unseen event, every event is
  eventually seen, scopes hold, a revoked stream ends.
* *Chat relay*: the App leaves while the Agent goes on; the Agent's stream ends
  early, breaks or stays silent; the App stops reading. Correct means: the App sees a
  prefix of what the Agent said, notifications come only for ended chats, and for all
  completed ones, and nothing but an App that does not read keeps a thread.
* *Update*: each step may fail, several halfway and several in blocks where bash
  ignores failures, and the script may be killed; and its decisions are taken by helpers
  that it downloads and installs itself. Correct means: the Server state survives, success
  means the new release runs with the old identity, failure restores the old one.
* *Identity and Cloud configuration*: two first requests race to create the
  identity; a configuration is replaced or cleared under a running delivery.
  Correct means: the server id never changes once the race is over, an identity
  that was given away is on disk, configurations name it, a cleared one is not used.
* *Exporter*: a configuration changes, breaks or disappears between the reading
  and the writing of its snapshot; snapshots of Profiles that left the list stay;
  `.env`, the exporter and the server learn of Profiles at different times. Correct
  means: a snapshot is never older than the last complete pass, it holds public
  fields only, and after a `sync` Apps see the present configuration of exactly
  the listed Profiles.
* *Agent proxy*: a device is checked for the Profile of one path and its request
  sent under another, with a key that is not its own; the key is rotated while
  requests run, by a script that may stop between its steps. Correct means: what
  reaches the Agent, or is told of its configuration, was authorised for that Profile,
  and the Agent refuses the server's key only during a rotation or after one that did not finish.
* *Release manifest*: an archive is described by four nested documents and may be
  incomplete, damaged or ambiguous. Correct means: an archive that is accepted
  holds everything a container of the image is made of.

The list of hazards with their lines is `PROJECT.json`, "hazards".

## 2. Modules

| Module | Models | Its state and steps in the code |
|---|---|---|
| `Pairing` | pairing store with its callers' threads | `tickets`/`devices` are the committed rows, `lock` is SQLite's write lock, `pc`/`now` are the position and the local time of each call. A step is what runs between two points where another connection can act: clock read, `BEGIN IMMEDIATE`, each statement, commit, reply. |
| `PairingContract` | what pairing promises | codes on offer, registered devices, revoked devices; three atomic actions |
| `MCPairing` | an instance of `Pairing` | the inputs with which the calls meet; names of which one is no Profile's |
| `PairingProofs`, `PairingHistory`, `PairingRefinement` | proofs about `Pairing`: of its states, of what is never taken back, and that it implements `PairingContract` | section 6 |
| `DirectEvents` | DIRECT store | `log` is every row ever committed, indexed by its sequence number (a rejected INSERT takes none); `kept` says which are in the table. `Stamp` is `publish` before the lock, `InsertEvent` is INSERT, both prunes and commit, `AnswerDuplicate` the `IntegrityError` path |
| `MCDirectEvents` | publishers for it | original, retry with the same id and key, retry with the same key |
| `DirectStream` | one App on the stream; composes `DirectEvents` | `scope`, `cursor`, `batch` are the handler's locals, `wire` what is between its `flush` and the App, `saved`/`received` the App; `visible` is what `discover_profile_ids` lists, anew at each connection: any set that has the Profiles of `Stable` |
| `MCDirectStream` | chats for it | three chats on two Profiles, one of which comes and goes |
| `DirectProofs` | proofs about `DirectEvents` and `DirectStream` | section 6 |
| `ChatRelay` | chat thread, DIRECT publication, Cloud thread | `pc` is the thread, `terminal` is `chat_terminal_state`, `connected` is `client_connected` |
| `ChatContract` | what the relay promises | what the Agent said and whether it ended, whether the App is there, what it was shown and by which ways it was told; five atomic actions |
| `MCChatRelay` | an instance of `ChatRelay` on its own | |
| `AgentAccess` | the way of a request to the Agent; composes `ChatRelay` | `gate` is how far `do_GET`, `do_POST`, ... came with `request`, those the bridge serves itself with their own authorisations included; `key` is what the bridge puts into the forwarded request; `credential`, `agentKey`, `serverKey` are the credential file, the Agent's environment and the server's, each known by the number of the credential; `deploy` is the next step of `docker-deploy.sh` or of the systemd variant |
| `MCAgentAccess` | requests for it | one of each kind: chats, reads, writes, the first credential's, malformed and too long ones, what the bridge serves itself to anybody, to a device or to who controls the Cloud; and the query of finding 3 |
| `AgentProofs` | proofs about both | section 6 |
| `IdentityCloud` | identity and configuration files with the calls that use them | `identity`, `config` are the two files; a step of a call is one look at or one replacement of a file. `onFile`, `late`, `cleared`, `muted` are histories for the properties |
| `MCIdentityCloud` | an instance of it | |
| `IdentityProofs` | proofs about it | section 6 |
| `ModelConfig` | exporter, bridge's answer, `sync`, `restart` | `home` is each `config.yaml`, `listed` is `.env`, `exported` and `served` what the two containers captured from it; `todo`, `at`, `read` are the exporter's loop, `snapshots` its directory; `sync` is the next step of `sync_command`. `during` and `since` are histories |
| `MCModelConfig` | an instance of it | |
| `ModelConfigProofs` | proofs about it | section 6 |
| `ReleaseManifest` | the manifest, its verification and that of an OCI archive | operators named as the functions of `release_manifest.py`; an archive is its index, what is readable of each blob, and whether its entries are safe |
| `Update` | `update_command` with everything it calls; uses `ReleaseManifest` for the archive it imports | `pc` is the line of the script, `requested` the version it is about; `env` has the two lines of `.env`, `files`, `runtime`, `data`, `backup`, `image` are what is on disk and in Docker; a Server state is the identity in it, the operator's or the one that a run's new release made, and whether it was unpacked to the end; `expected` is `old_server_id`, `before` what the run found |
| `MCUpdate` | an image, archives and manifests for it | symmetry of the versions that are not installed at the start |
| `UpdateProofs` | proofs about both | section 6 |

Some modules contain *mutated forms* beside a definition (a dropped guard, an
early commit, a wrong order). They are used by no specification. They record
which plausible bug each property detects: `PROJECT.json`, "mutants", names for
each property the form that breaks it.

**Abstractions.** Codes and tokens are 128 and 256 random bits and are modelled
as fresh values named after the call that draws them, so guessing is out of the
model; hashes are injective. Profile names are values of which some match the
pattern `_normalize_profiles` tests. Time is a counter of ticks. SQLite is
external and modelled as the code relies on it: one writer at a time, readers see
committed rows, an uncommitted transaction vanishes with its process, `busy_timeout`
fails a waiting writer. Blocks of a chat are content, a stop or an error finish
reason, or `[DONE]` (written `DONE`). Credentials are numbers in the order they were written.
Paths are members of the bridge's tables. A `config.yaml` is valid with the fields the
exporter looks at, invalid, or its directory is missing. A blob is known by its
digest, and SHA-256 has no collisions. The files of an installation are those of one
version, a mixture ("partly"), or have among them an asset whose digest does not match,
a helper or another one; a mismatching helper, when it is run, says anything.

## 3. Runs

Each run is an entry of `PROJECT.json`, "runs".

| Run | Shows | Bounds |
|---|---|---|
| `pairing` | all safety properties of the store, that it implements `PairingContract`, that every call that arrived ends and the lock is returned | one code, two exchanges of it, one authentication, two revocations, two Profile names and one that is none, one tick, one crash, any statement may fail; of the inputs those where a granted Profile's calls meet on one token, or the revocations on the other |
| `direct_store` | window, retention, deduplication | five publishers, two of them retries, window of two, retention of one of two ticks, one crash |
| `direct_stream` | no skipped event, at-least-once delivery of the Profiles that stay, end of a revoked stream | three chats, two Profiles of which one comes and goes, window and batch of two, one broken connection, one crash |
| `direct_new_profile` | **violated**: an event of a Profile created while the stream is open is never delivered | three chats, no failures at all |
| `agent_access` | the relay implements `ChatContract`: blocks in order and without a hole, each notification once and after the end; completed chats are published both ways, threads end unless the App neither reads nor leaves; what reaches the Agent or is told was authorised; a rotation takes effect, and the Agent refuses only around one | one request out of sixteen kinds, one of them a chat of two content blocks, two deployments, one crash of a process or of the host, a revocation, Docker or systemd |
| `profile_scope` | **violated**: a device is told the configuration of a Profile outside its scope | one request that names a Profile in the query, no failures |
| `chat_failed` | **violated**: a chat that ended with an error and `[DONE]` is notified as completed | one chat, one content block |
| `identity` | identities are durable, the server id is immutable once chosen, configurations made afterwards name it, a cleared configuration is not used | one request, two configurations, one clear, one delivery, fresh or installed identity, one crash |
| `update` | the Server state survives, success is verified, a rollback gives back what the backup holds, an imported image is whole | every step may fail, also halfway, killed anywhere, two runs of the command over three versions, assets missing or mismatching, five archives (whole in both forms, incomplete, damaged, unsafe), manifests created, older or of another version |
| `update_import` | **violated**: a failing image import ends the script without a rollback | only the image fails |
| `update_mismatch` | **violated**: an asset with a wrong digest is installed | only the download of the assets fails |
| `model_config` | snapshots are recent and, after a `sync`, Apps see the present configurations of exactly the listed Profiles | two Profiles, two configurations, two edits, two syncs, one fault |

**Why the bounds are enough.** Races in the pairing store are between two writers
of one row: two exchanges, or one authentication and two revocations of one
device, are all pairs that can meet; other codes and devices are other rows. One tick separates "before" and "after" the
expiry or a stale local time and one crash separates states that survive from states
that do not; the theorems of section 6 then hold for any number of each. A window
and a batch of two with three to five events give events pruned by number, by age,
while on the wire and while the App is away, and batches that end in the middle of
the window. Chats share nothing but the process, so one is enough; three content
blocks give a disconnect before, between and after blocks. Three calls can race for
the first identity, which is one more than a race needs, and each can then be
followed by calls of every other kind. The update runs once, and again after each
way of ending, to the same version, to the first one or to a third. Of requests to the Agent each is
judged by itself, so that one of every kind is enough; two deployments are one that
creates the credential or fails and one that rotates it under the request. Two edits
let a configuration change between reading and writing and again before the
snapshot is looked at; two syncs are one that fails halfway and its repetition.

`CHECK_DEADLOCK FALSE` is given because calls, chats and runs of a command are
finite in number: an instance comes to its end.

## 4. Fairness

* `Pairing`: weak fairness of what the server does for each call (`Serve(k)`).
  Threads are scheduled by the operating system; a call that finds the lock taken
  either gets it or times out, and either step counts. Arrivals, ticks, lost
  replies and crashes are not fair.
* `DirectStream`: weak fairness of the server's loop, of the 25-second deadline (a
  monotonic clock), and of an App that reads and reconnects. Without such an App
  nothing can be promised to it, not even the end of its stream: the deadline is looked
  at between two writes, and a write has no time-out. Publications, breaks, crashes and revocations
  are not fair.
* `ChatRelay`, and `AgentAccess` on top of it: weak fairness of what the thread of a
  request does without the App (`ThreadAlone`), and of the Cloud's thread. A read times
  out after an hour, the store and the Cloud after seconds, which the code sets. A write
  to the App has no time-out and gets no fairness: it returns when the App reads or goes
  away, perhaps never. `EveryThreadEnds` and `CompletedIsPublished` hold of every
  behaviour in which the thread is not for ever in a write. The Agent, the App,
  revocations, deployments and restarts owe nothing.
* `ModelConfig`: weak fairness of the exporter's loop, which a container with a
  restart policy runs for ever; a crash is followed by a new pass. Edits, `sync` and
  faults are not fair: `CatchesUp` speaks of what happens once they stay away.
* `Update`: no fairness and no liveness; a script that is killed stays where it is.

## 5. Findings

The runs marked "violated" are disagreements between the code and what the
repository says of it; `PROJECT.json`, "findings", quotes both sides.

1. `direct_new_profile`: the Profiles of a DIRECT stream are fixed when it opens
   while its cursor counts over all Profiles, so an event of a Profile created
   meanwhile can end up behind the cursor. `NoSkip` and `SteadyDelivered` speak of the
   Profiles that are there all along for this reason.
2. `chat_failed`: the last terminal block of a chat decides and `[DONE]` counts as
   completed, so `error` followed by `[DONE]` is notified as completed.
3. `profile_scope`: `/hermes-link/v1/model-config?profile=` tells the configuration of
   the Profile in the query, while the device is checked for the Profile of the path,
   which names none and so is `default`. `ForwardedIsAuthorised` says that the two agree
   everywhere else.
4. `update_import`: `pull_or_import_image` never returns a failure, so its caller's
   rollback is unreachable.
5. `update_mismatch`: inside `if ! { ... }` bash ignores `errexit`, so a digest
   mismatch of an asset does not stop an update.

What the models show of the code, without any document that says otherwise:

* `_normalize_profiles` drops names that do not match its pattern, and an empty
  scope means every Profile: a ticket asked for with nothing but misspelt Profiles
  grants all of them. `ScopeKept` compares grants with the names that were typed, and
  excepts exactly this case.
* A Profile that is listed again is served with its old snapshot until the first
  pass of the new exporter container. `SnapshotIsRecent` counts from the last
  complete pass over the Profile for this reason.
* A `sync` that stops halfway leaves `.env` new and the containers old; `doctor`
  compares only `.env` with the Profiles found (`deploy/standard/bin/hermes-link`
  line 286), so it does not see this, and `restart` does not apply it. `CatchesUp` asks for a `sync` that came to its end.
* PUT, PATCH and DELETE of `models/config` are forwarded to the Agent, which decides;
  `docs/compatibility-matrix.md` line 11 calls the configuration "served read-only by
  Hermes Link Server", which is true of what the Server itself serves.
* A rotation that stops after the file was written leaves the Agent and the server
  with different keys until the next one, and a deployment without `--rotate`
  refuses to run after an interrupted first one. `RotationTakesEffect` allows both.
* The bootstrap script run alone with `--rotate` on a Docker installation leaves the
  container's environment as it is. The model runs it as `docker-deploy.sh` does.
* An update after a rollback that was interrupted takes the identity which the failed
  release had made for the installation's own, and reports it as retained; the
  operator's state stays in the older backup. `StateSurvives` speaks of both states,
  `SuccessIsVerified` of the identity that the run found.
* The script is a transaction for the failures of its preparations, of stopping,
  starting and verifying (theorem `UpdateIsAtomic`). With any one of staging, backup,
  copying, `.env`, pull, restoring or a kill added the theorem's formula is false; TLC
  finds a state for each. The import alone does no harm, since it is tried only when
  the pull has failed.
* After the digest of an asset was found not to match and the update went on, the
  downloaded helpers decide: one verifies the manifest and finds the image, and, once
  installed, verifies the archive and the identity. `SuccessIsVerified` and
  `ImportedIsWhole` except an installation whose helper does not match, and nothing
  less: any other mismatching asset leaves them true. What a mismatching command does
  when the next update runs it is not modelled; its helpers are.
* A copy that fails inside the backup is not noticed. A rollback then gives back what
  there is: without `.env` the release that failed is started again, on the state of the
  old one, and the command reports a completed rollback (`RollbackRestores`).
* A copy or a `tar` that fails or is killed in the middle leaves files of two releases,
  a torn `.env` or a part of the Server state. A torn `.env` that names no image stops
  the next update at `compose stop`; a part of the Server state that is there is what
  the next run backs up, while the operator's is in an older backup (`StateSurvives`).
  A kill in the middle of the backup is one before or after it.
* An id that is published again after its row was pruned gets a later sequence
  number (`direct.py` line 166), and a saved cursor with that id then jumps. The
  bridge draws a new id for each event, which is what `DirectStreamAssumption` says.

## 6. Proofs

`PairingProofs` proves, for any sets of calls, names and lifetimes and any bounds on
clock and crashes, under `PairingAssumption` only (the kinds of calls are disjoint,
`NULL` is no other value, lifetimes are positive):

* `TypeCorrect`: `Spec => []TypeOK`
* `CodesAreSingleUse`: `Spec => []SingleUse`
* `ExchangeIsAtomic`: `Spec => []TicketMatchesDevice`
* `DeliveredTokensAreDurable`: `Spec => []TokenBackedByRow`
* `RevocationIsImmediate`: `Spec => []RevokedIsDenied`

None of these but the first is inductive. `SingleUse` can be broken in one step
from a state where two exchanges have both passed their check, so the invariant
`Inv` must say why there is none: `LockOwned` (a call inside its transaction is
the owner of the write lock, hence alone), `CheckedTicket` (what its SELECT
found still holds when it commits, since every other writer of tickets waits for
the lock) and `Answered` (a device row exists exactly when its call is answered
"ok", so a call that has not answered has no row and a delivered token has one).
`CleanScope` is needed because the code normalises the scope a second time at the
exchange, and the ticket and the device agree only if that changes nothing. The
lemma `Writers` reduces every step to its effect on the two tables, so that the
proof about rows has four cases instead of fifteen.
`RevocationIsImmediate` uses a second invariant, `LateIsStopped`: an
authentication that arrived late is nowhere near its UPDATE, because its SELECT
can only find the row revoked, and `RevocationStays` says rows do not come back.

`PairingHistory` proves from the same invariant

* `RowsAreNeverTakenBack`: `Spec => HistoryIsFinal`
* `OneRevocationWins`: `Spec => []OneRevokeWins`
* `LastUseStaysInRange`: `Spec => []LastUseInRange`
* `GrantsStayInScope`: `Spec => []ScopeKept`

* `CallsTakeBoundedSteps`: `Spec => []HolderNeverWaits`, and each step of `Serve(k)`
  lowers `Rank(k)` while no step of anybody raises it

The last one is what `EveryCallEnds` rests on beside fairness: a call has at most five
steps before it, and the lock it may wait for is held by an exchange inside its
transaction, which needs nobody else to go on.

`RowsAreFinal` says of the two tables what a step may not undo. `WhoAnswers` says
which step gives which answer: a revocation that succeeds is one that found the row
not revoked, which after another success it cannot. `LastUseInRange` needs
`SampledBefore` (no call is ahead of the clock) and `InUse` (an authentication on
its way to its UPDATE found a row registered no later than it sampled its time),
because the time written was sampled before the call waited for the lock.

`PairingRefinement` proves `Implements`: `Spec => KeepsContract`, the abstract
specification under the refinement mapping of `Pairing`. A code is on offer while its
committed row is unused, a device is registered when its row is committed. Of the
four steps that write the tables three are one step of the contract each (a commit of
a ticket, of an exchange, of a revocation); the fourth writes the time of last use,
which the contract does not see. Everything else is a stutter.

`IdentityProofs` proves about `IdentityCloud`, under `IdentityCloudAssumption` (the
kinds of calls are disjoint, the special values are none of them), for any number
of calls and crashes:

* `IdentityIsImmutable`: `Spec => SettledForGood`
* `LateCallsAgree`: `Spec => []LateAnswersAgree`
* `ConfigurationsNameThisServer`: `Spec => []DropsOnlyAfterRace`
* `IdentitiesAreDurable`: `Spec => []KeysAreDurable`
* `ClearIsEffective`: `Spec => []ClearStopsDelivery`

The invariant follows what a late call leaves behind: `LateSettled` (while there is
a late call the identity is settled and is what late calls hold), `ReliableConfig`
(what a late call wrote names that identity, and who reads it is late too), `Known`
and `Mismatched` (what calls hold at which step), `Silent` (after a clear no
`configure_cloud` is running). `DropsOnlyAfterRace` speaks of deliveries only, but
rests on where the configuration they read came from, hence on all of these.

`TypeCorrect` of the two files and the calls is proved with them.

`DirectProofs` proves about `DirectEvents`, for any publishers, retention, window and
number of restarts, under `DirectEventsAssumption` (the window is not empty, bounds are
natural numbers):

* `StoreTypes`: `StoreSpec => []StoreTypeOK`
* `WindowStaysBounded`: `StoreSpec => []WindowBounded`
* `OnlyPolicyPrunes`: `StoreSpec => []LostOnlyByPolicy`
* `InsertKeepsItsOwn`: `StoreSpec => []LastIsRetained`
* `RetriesGetTheFirst`: `StoreSpec => []RetriesAgree`

The bound is a pigeonhole argument (`NewestIsBounded`): each row that the prune by
number leaves has fewer than `MaxEvents` rows after it, and no two have the same
number. `RetriesAgree` compares two answers given at different times; the invariant
`FirstIsAnswered` says of each alone that no older row of the table could have been it,
which the lock makes true at the answer and pruning keeps true.

Of `DirectStream`, under `DirectStreamAssumption` (ids of events are their own):

* `StreamTypes`: `Spec => []StreamTypeOK`
* `StreamRunsTheStore`: `Spec => StoreSpec`, so that the five theorems above hold of
  the store under the stream
* `NothingIsSkipped`: `Spec => []NoSkip`
* `QuietStreamIsComplete`: `Spec => []NothingIsOwed`

The invariant `StreamInv` follows an event from the table to the App. Whatever lies
up to a position, and is retained and of the scope, was received up to there
(`UpTo`): true of the cursor the App saved with what it received (`AtSaved`), of each
event on the wire with what comes before it (`OnWire`), of the handler's cursor with
the whole wire (`AtCursor`), and of each event of a batch with the batch before it
(`InBatch`). A cursor that was pruned means position zero, where nothing can have been
skipped, and `IdsAreFresh` lets a pruned id never come back at another place.
All of this is said of `Steady`, the Profiles that every connection of the device covers:
others that come, go and come back do not hide their events. `QuietStreamIsComplete` is
the safety half of `SteadyDelivered`: a handler that finds nothing more, with nothing on
the wire, owes the App nothing. Of a Profile that is not always there neither holds:
finding 1 is the counterexample.

`AgentProofs` proves about `AgentAccess`, for any requests, scopes, lengths of chats
and numbers of deployments and crashes, under `AgentAccessAssumption`:

* `AccessTypesHold`: `AccessSpec => []AccessTypeOK`
* `RelayIsFaithful`: `AccessSpec => []AppSeesPrefix`
* `NotificationsComeLast`: `AccessSpec => []NotifiedAfterEnd`
* `RelayKeepsContract`: `AccessSpec => KeepsChatContract`
* `CompletedChatsAreNotified`: the safety half of `CompletedIsPublished`
* `ScopeReachesTheAgent`: `AccessSpec => []ForwardedIsAuthorised`
* `RotationsEnd`: `AccessSpec => RotationTakesEffect`

`Written` says how far the App is behind the relay, `CompletedBy` which block made a
chat completed and that none fails it later, `EndedFirst` that only an ended one comes
to its notifications, `InTurn` that it had none before.
`RelayKeepsContract` is the refinement of `ChatContract`. The mapping shows the
contract the Agent's blocks, the App's connection and what was written to it; a
notification is told when the store has it or the Cloud has taken it. A relayed block
is shown, finds the App gone or is not seen; an Agent that is started anew ends several
chats in one step of the contract; everything else is a stutter. The contract's
`Tell` asks that an App which is still there has seen all, which no run states on its own.
`CompletedChatsAreNotified` has an invariant of its own, `Finished`: [DONE] is the
Agent's last block and makes the chat completed, so that a thread which has read it
cannot end at `EndRelay`.
`ScopeReachesTheAgent` compares what was checked with what is served: the Profile that
`_profile_id_for_protocol_path` found with the one that the Agent reads out of the path
`protocol_to_agent_path` made, and with the one `_model_config_profile_id` names.
`Checked` keeps, for a request on its way, what its device was allowed when it was
authorised; `KeyInUse` that the key it carries is the one the server was started with;
`Current` how the numbers of the three credentials compare at each step of a
deployment, and that they are equal when the last one ended well. The Agent can
then only refuse where the numbers may differ, and the first credential, number one,
can only open something where it is still the latest.

`UpdateProofs` proves about `ReleaseManifest` that an archive `verify_oci_archive`
accepts is whole (`VerifiedIsWhole`), for every archive, image and document, and about
`Update`, for any set of steps that may fail and any number of runs:

* `UpdateTypes`: `Spec => []TypeOK`
* `UpdateKeepsState`: `Spec => []StateSurvives`
* `UpdateVerifies`: `Spec => []SuccessIsVerified`
* `UpdateRollsBack`: `Spec => []RollbackRestores`
* `UpdateImportsWhole`: `Spec => []ImportedIsWhole`
* `UpdateArchivesFirst`: `Spec => ArchivedBeforeTouched`
* `UpdateIsAtomic`: `Faults \subseteq Caught => (Spec => [](AllOrNothing /\ FailureRollsBack /\ MismatchRejected))`

`UpdateIsAtomic` says how far the two findings about the script reach. `Caught` are the
failures that the script notices and undoes; while only these happen, any number of
runs leaves the installation of one version, the one the run found or the requested one,
with the operator's state, and what the findings refute is true. Which failures are outside is in section 5.

None of the others but `UpdateTypes` is inductive. `Untouched` says that until the backup
nothing of the installation was touched; `BackedUp` that from then on the state which
the run found is in its backup, and of the configuration what the copies left there;
`Identified` that a state that is there has an identity and which one is `expected`;
`Forward` that `.env` names the requested release and what is verified runs; `Helpers`
that the helper which imports and verifies is the one that was downloaded, so that it is
honest when that one matched; `Backward` that a rollback has given back, piece by piece,
what the backup holds. For `UpdateIsAtomic` the theorem adds `InPhase`, which names the
one version that each phase is about.

`ModelConfigProofs` proves about `ModelConfig`, for any Profiles and configurations and
any number of edits, syncs and faults, under `ModelConfigAssumption`:

* `SnapshotsArePublic`: `Spec => []TypeOK` (what is in the directory is nothing
  but the allowed fields, with their types)
* `SnapshotsAreRecent`: `Spec => []SnapshotIsRecent`
* `AnswersAreRecent`: the same of what Apps are told, by the bridge of served Profiles
* `SyncTakesEffect`: `Spec => []SyncedIsCurrent`, the safety half of `CatchesUp`

The invariant keeps two histories of each file, what it held during this pass and
since the last complete one. `Visit` ties what the exporter has read to the first,
`PassIsFresh` says that every Profile it is through with was stored or withdrawn from
it, so that at the end of a pass the first history can take the place of the second.
`SyncTakesEffect` adds `InStep`: at each step of `sync` the containers it has replaced
have the list of `.env`, and after a success both have it until the next `sync`.

**Only model-checked.** The liveness properties, which are out of the prover's reach:
`EveryCallEnds`, `SteadyDelivered`, `RevokedStreamEnds`, `CompletedIsPublished`,
`EveryThreadEnds`, `CatchesUp`. Of four of them the safety half is proved, as said
above (`CallsTakeBoundedSteps`, `QuietStreamIsComplete`, `CompletedChatsAreNotified`,
`SyncTakesEffect`): what must have happened where a process rests. That it comes to
rest needs fairness and is TLC's. Every invariant, every action property and every
refinement of a passing run is a theorem.

## 7. Not modelled

* *Installer* (`install.sh`). It is a sequence of steps on one host, most of them the
  ones `Update` has, without another actor. Three things of it are worth knowing.
  The migration of a legacy installation verifies inside `if ! { ... }`, where only
  the last command, the comparison of the Profiles, decides; its rollback puts the
  proxy's configuration back under another name. A fresh installation that fails
  before `.env` leaves a directory that a second one refuses, and one that fails
  after it makes a second one print the status and end. `import_server_state` copies
  a database and its write-ahead log one after the other, which is a snapshot only
  when the source server is stopped.
* *Uninstall*: a sequence without recovery. It advises `restart`, which cannot
  start containers that `compose down` removed.
* *`_connect`'s migration* of legacy tables: `Pairing` starts with the tables in place.
  Two first connections that both find a column missing are listed as a hazard.
* `read_after` (used by tests only), a `created_at` chosen by the publisher (the
  bridge never gives one), keep-alives, and rewriting of chat blocks into execution
  traces: they change no state the properties tell apart.
* What bash reads of `bin/hermes-link` after `cp -a` has written the new one over the
  file that it is running: `update_command` was read before it started, and what follows
  it depends on bytes, not on states.
* What a container writes to a state directory that the rollback moved away while
  `compose down` had failed: listed as a hazard.
* Redaction, capabilities, release gates: pure functions on text or files
  without interleavings. Of attachments only that a bad one is refused before
  the Agent.
* Users, units, images and network checks of the deployment scripts, which are
  particular to a host; the historical Agent patches, which the Server does not load.

## 8. Plan

Done, in this order:

1. `Pairing`, `PairingContract` and the theorems about them.
2. `DirectEvents`, `DirectStream` on top of it, `DirectProofs`.
3. `ChatRelay`, `AgentAccess` on top of it, `AgentProofs`.
4. `ReleaseManifest`, `Update` on top of it, `UpdateProofs`.
5. `IdentityCloud` and its theorems.
6. `ModelConfig` and its theorems.

Left:

1. `Standard`: `Update` and the `sync` of `ModelConfig` with the installer and `uninstall`,
   over one `.env`, one set of files and one `data/server`; an abstract specification of
   an installation (absent, installed at a version, with one Server state) is what it
   would implement.
2. `Migration`: two first connections to a legacy database, to join `Pairing`'s `Init`.
