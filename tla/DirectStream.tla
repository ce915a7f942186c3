---------------------------- MODULE DirectStream ----------------------------
(***************************************************************************)
(* The DIRECT event stream: one paired App that follows the store over     *)
(* server-sent events, reconnecting with the id of the last event it saw.  *)
(*                                                                         *)
(* The server authorises a connection once, when it opens, and fixes the   *)
(* Profiles it covers; it then reads batches behind its cursor, writes     *)
(* them one event at a time, and closes after 25 seconds.  The deadline is *)
(* looked at between batches only, so every connection reads at least once *)
(* and never stops in the middle of a batch unless the connection breaks.  *)
(*                                                                         *)
(* A server thread whose client is gone changes nothing, so only the       *)
(* App's current connection is modelled.                                   *)
(***************************************************************************)
EXTENDS DirectEvents

CONSTANTS
  Allowed,      \* Profiles of the App's device token; {} means every Profile
  FirstVisible, \* Profiles whose directories exist at the start
  Stable,       \* those of them that are never removed
  BatchLimit,   \* DIRECT_NOTIFICATION_BATCH_LIMIT
  MaxDrops      \* bound: how often the network breaks the connection

ASSUME DirectStreamAssumption ==
  \* _chat_completed_event draws a new id for every event it publishes.
  /\ \A p, q \in Publishers : Event[p].id = Event[q].id => p = q
  /\ Allowed \subseteq Profiles
  /\ Stable \subseteq FirstVisible /\ FirstVisible \subseteq Profiles
  /\ BatchLimit \in Nat \ {0}
  /\ MaxDrops \in Nat

VARIABLES
  visible,    \* Profiles that discover_profile_ids finds
  revoked,    \* the App's device token was revoked
  conn,       \* "closed", "open" (not read yet), "polled" or "ended"
  scope,      \* the Profiles of this connection
  cursor,     \* the server's cursor on this connection, an event id or NULL
  batch,      \* sequence numbers read and not yet written
  wire,       \* ids written and not yet seen by the App
  saved,      \* the id the App reconnects with, or NULL
  received,   \* ids the App has seen
  drops       \* how often the connection broke

server == <<conn, scope, cursor, batch>>
app == <<saved, received>>
streamVars == <<visible, revoked, server, wire, app, drops>>
vars == <<storeVars, streamVars>>

-----------------------------------------------------------------------------
\* The sequence number of an id, 0 for no id and for one that was pruned.
Position(id) ==
  IF \E s \in kept : log[s].id = id
    THEN CHOOSE s \in kept : log[s].id = id
    ELSE 0

Following(id, profiles) ==
  {s \in kept : s > Position(id) /\ log[s].profile \in profiles}

\* The first BatchLimit of them, by sequence number.
FirstOf(seqs) == {s \in seqs : Cardinality({u \in seqs : u < s}) < BatchLimit}

\* read_after_event_id.
ReadAfter(id, profiles) == FirstOf(Following(id, profiles))

\* _direct_notification_profiles, for a token that is still accepted.
Authorized == IF Allowed = {} THEN visible ELSE Allowed \cap visible

-----------------------------------------------------------------------------
Init ==
  /\ StoreInit
  /\ visible = FirstVisible
  /\ revoked = FALSE
  /\ conn = "closed"
  /\ scope = {}
  /\ cursor = NULL
  /\ batch = {}
  /\ wire = <<>>
  /\ saved = NULL
  /\ received = {}
  /\ drops = 0

\* The App connects with the last id it saw; a refused connection changes
\* nothing.
Connect(profiles, after) ==
  /\ conn = "closed"
  /\ profiles # {}
  /\ conn' = "open"
  /\ scope' = profiles
  /\ cursor' = after
  /\ UNCHANGED <<storeVars, visible, revoked, batch, wire, app, drops>>

\* Mutated form: the stream starts behind the newest event.
OpenAtEnd ==
  /\ ~revoked
  /\ Connect(Authorized, IF log = <<>> THEN NULL ELSE log[Len(log)].id)

Open == ~revoked /\ Connect(Authorized, saved)

\* One poll; polling an empty store again changes nothing.
Read ==
  /\ conn \in {"open", "polled"}
  /\ batch = {}
  /\ batch' = ReadAfter(cursor, scope)
  /\ conn' = "polled"
  /\ conn = "open" \/ batch' # {}
  /\ UNCHANGED <<storeVars, visible, revoked, scope, cursor, wire, app, drops>>

\* Write and flush one event, then move the cursor to it.
WriteOne(s, id) ==
  /\ conn = "polled"
  /\ s \in batch
  /\ wire' = Append(wire, id)
  /\ cursor' = id
  /\ batch' = batch \ {s}
  /\ UNCHANGED <<storeVars, visible, revoked, conn, scope, app, drops>>

\* Mutated form: the dedupe key is sent as the event's id.
WriteKey(s) == (\A u \in batch : s <= u) /\ WriteOne(s, log[s].key)

WriteNext(s) == (\A u \in batch : s <= u) /\ WriteOne(s, log[s].id)

Write == \E s \in batch : WriteNext(s)

\* Mutated form: the deadline is looked at after an event only.
DeadlineAfterEvent ==
  /\ conn = "polled"
  /\ batch = {}
  /\ cursor # NULL
  /\ conn' = "ended"
  /\ UNCHANGED <<storeVars, visible, revoked, scope, cursor, batch, wire, app, drops>>

\* The loop's condition fails: the response ends, what was written arrives.
Deadline ==
  /\ conn = "polled"
  /\ batch = {}
  /\ conn' = "ended"
  /\ UNCHANGED <<storeVars, visible, revoked, scope, cursor, batch, wire, app, drops>>

\* The App sees the next event and keeps its id.
Receive ==
  /\ wire # <<>>
  /\ wire' = Tail(wire)
  /\ received' = received \cup {Head(wire)}
  /\ saved' = Head(wire)
  /\ UNCHANGED <<storeVars, visible, revoked, server, drops>>

\* The App has read the response to its end.
Finish ==
  /\ conn = "ended"
  /\ wire = <<>>
  /\ conn' = "closed"
  /\ UNCHANGED <<storeVars, visible, revoked, scope, cursor, batch, wire, app, drops>>

\* The connection is gone, with what was on its way.
Disconnected ==
  /\ conn' = "closed"
  /\ batch' = {}
  /\ wire' = <<>>
  /\ UNCHANGED <<visible, revoked, scope, cursor, app>>

\* The network breaks, or a read fails with an SQLite error.
Drop ==
  /\ conn # "closed"
  /\ drops < MaxDrops
  /\ drops' = drops + 1
  /\ Disconnected
  /\ UNCHANGED storeVars

\* revoke_device_token; open connections are left alone.
RevokeToken ==
  /\ ~revoked
  /\ revoked' = TRUE
  /\ UNCHANGED <<storeVars, visible, server, wire, app, drops>>

\* Profile directories are created and removed, and a listing that fails finds
\* few of them.
ChangeProfiles ==
  /\ visible' \in SUBSET Profiles \ {visible}
  /\ Stable \subseteq visible'
  /\ UNCHANGED <<storeVars, revoked, server, wire, app, drops>>

-----------------------------------------------------------------------------
\* A chat completes on a Profile that exists.
PublishVisible(p) ==
  /\ Event[p].profile \in visible
  /\ Publish(p)
  /\ UNCHANGED streamVars

Stream == Open \/ Read \/ Write \/ Deadline \/ Receive \/ Finish

Environment ==
  \/ \E p \in Publishers : PublishVisible(p)
  \/ Tick /\ UNCHANGED streamVars
  \/ Crash /\ Disconnected /\ UNCHANGED drops
  \/ Drop \/ RevokeToken \/ ChangeProfiles

Next == Stream \/ Environment

Spec == Init /\ [][Next]_vars

\* The server's thread and the App's read loop run, the App reconnects, and
\* the deadline, a monotonic clock, passes.  Nothing else is fair.
FairSpec ==
  /\ Spec
  /\ WF_vars(Open)
  /\ WF_vars(Read)
  /\ WF_vars(Write)
  /\ WF_vars(Deadline)
  /\ WF_vars(Receive)
  /\ WF_vars(Finish)

-----------------------------------------------------------------------------
(* Properties. *)

\* Types of the connection and of the App.
StreamTypeOK ==
  /\ visible \subseteq Profiles
  /\ revoked \in BOOLEAN
  /\ conn \in {"closed", "open", "polled", "ended"}
  /\ scope \subseteq Profiles
  /\ cursor \in Ids \cup {NULL}
  /\ batch \subseteq 1..Len(log)
  /\ wire \in Seq(Ids)
  /\ saved \in Ids \cup {NULL}
  /\ received \subseteq Ids
  /\ drops \in Nat

\* The Profiles of the App that each of its connections covers.
Steady == IF Allowed = {} THEN Stable ELSE Allowed \cap Stable

\* The App's cursor never passes an event it has not seen: every retained
\* event of a Profile that was there all along, up to the one it saved, was
\* received, through broken connections, restarts, pruning, and connections
\* that cover more Profiles than the next one, or fewer.
NoSkip ==
  \A s \in kept :
    s <= Position(saved) /\ log[s].profile \in Steady => log[s].id \in received

Retained(p) == \E s \in kept : log[s].id = Event[p].id

\* Every event of such a Profile is seen by the App, unless it is pruned first
\* or the token is revoked.
SteadyDelivered ==
  \A p \in Publishers :
    Retained(p) /\ Event[p].profile \in Steady
      ~> Event[p].id \in received \/ ~Retained(p) \/ revoked

\* A Server-authorized connection emits the authorized Profile-scoped events:
\* each one that is kept while its Profile stays among the App's reaches it.
Delivered ==
  \A p \in Publishers :
    Retained(p) /\ Event[p].profile \in Authorized
      ~> \/ Event[p].id \in received
         \/ ~Retained(p) \/ Event[p].profile \notin Authorized
         \/ revoked

\* A revoked token loses its stream, which is open for 25 more seconds.
RevokedStreamEnds == revoked ~> conn = "closed"
=============================================================================
