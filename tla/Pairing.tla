------------------------------- MODULE Pairing -------------------------------
(***************************************************************************)
(* The pairing store of Hermes Link Server: one-time tickets, scoped       *)
(* device tokens and their revocation, kept in one SQLite file that the    *)
(* threads of the HTTP server and the `pair' command line share.           *)
(*                                                                         *)
(* Every call is identified by what it creates or asks.  Codes and device  *)
(* tokens are fresh random values, so a ticket is named by the             *)
(* create_ticket call that drew its code, and a device by the exchange     *)
(* call that drew its token.  A call runs once; its steps are the points   *)
(* where another thread or process can run: after it has read the clock,   *)
(* after BEGIN IMMEDIATE, between the statements of a transaction, between *)
(* a SELECT and the UPDATE that follows it, between commit and reply.      *)
(***************************************************************************)
EXTENDS Naturals

CONSTANTS
  Issues,       \* create_ticket calls, and the codes they draw
  Exchanges,    \* exchange calls, and the devices they register
  Auths,        \* device_profile_ids / authenticate_device_token calls
  Revokes,      \* revoke_device_token calls
  Names,        \* Profile names an operator may type
  ValidNames,   \* those that match the Profile pattern of _normalize_profiles
  Ttls,         \* ticket lifetimes, in ticks of the clock
  MaxTime,      \* bound: the last tick of the clock
  MaxCrashes,   \* bound: how many times the server process dies
  NULL          \* SQL NULL, and "nobody" as the owner of the write lock

Calls == Issues \cup Exchanges \cup Auths \cup Revokes

\* What a call can answer.
Answer == {"issued", "ok", "invalid", "used", "expired", "unavailable",
           "granted", "denied", "revoked"}

ASSUME PairingAssumption ==
  /\ Issues \cap (Exchanges \cup Auths \cup Revokes) = {}
  /\ Exchanges \cap (Auths \cup Revokes) = {}
  /\ Auths \cap Revokes = {}
  /\ ValidNames \subseteq Names
  /\ Ttls \subseteq Nat \ {0}
  /\ MaxTime \in Nat
  /\ MaxCrashes \in Nat
  /\ NULL \notin Nat \cup Calls \cup Answer

VARIABLES
  input,    \* what each call was given; never changes
  clock,    \* time.time() in whole seconds, scaled
  tickets,  \* committed rows of pairing_tickets, by code
  devices,  \* committed rows of pairing_devices, by device
  lock,     \* the connection that holds SQLite's write lock, or NULL
  pc,       \* where each call is
  now,      \* the time each call sampled when it started
  reply,    \* what each call answers, NULL until it is known
  held,     \* devices whose token an App has received
  late,     \* history: auth calls that arrived after their token was revoked
  crashes   \* how often the process has died

db == <<tickets, devices>>
vars == <<input, clock, tickets, devices, lock, pc, now, reply, held, late, crashes>>

-----------------------------------------------------------------------------
(* Rows, inputs and answers. *)

Ticket == [expires : Nat, scope : SUBSET Names, used : Nat \cup {NULL}]

Device == [scope : SUBSET Names, created : Nat, lastUsed : Nat,
           revoked : Nat \cup {NULL}]

Input == [names : [Issues -> SUBSET Names], ttl : [Issues -> Ttls],
          code : [Exchanges -> Issues], token : [Auths \cup Revokes -> Exchanges],
          profile : [Auths -> ValidNames]]

Phase == {"idle", "wait", "locked", "marked", "inserted",
          "read", "touch", "reply", "done", "lost"}

\* Calls that the server is executing.
Running == {k \in Calls : pc[k] \notin {"idle", "done", "lost"}}

\* INSERT (a fresh key) or UPDATE (an existing one) of one row.
Put(table, key, row) ==
  [k \in DOMAIN table \cup {key} |-> IF k = key THEN row ELSE table[k]]

\* The Profile list kept for a ticket: names that do not match are dropped.
Normalize(names) == names \cap ValidNames

\* authenticate_device_token: an empty scope means every Profile.
InScope(profile, scope) == scope = {} \/ profile \in scope

IsRevoked(d) == d \in DOMAIN devices /\ devices[d].revoked # NULL

CodeOf(d) == input.code[d]
TokenOf(k) == input.token[k]

-----------------------------------------------------------------------------
Init ==
  /\ input \in Input
  /\ clock = 0
  /\ tickets = [c \in {} |-> NULL]
  /\ devices = [d \in {} |-> NULL]
  /\ lock = NULL
  /\ pc = [k \in Calls |-> "idle"]
  /\ now = [k \in Calls |-> 0]
  /\ reply = [k \in Calls |-> NULL]
  /\ held = {}
  /\ late = {}
  /\ crashes = 0

Goto(k, phase) == pc' = [pc EXCEPT ![k] = phase]

\* The call knows its answer and is about to send it.
Answering(k, answer) ==
  /\ Goto(k, "reply")
  /\ reply' = [reply EXCEPT ![k] = answer]

\* The call arrives, validates its arguments and samples the clock.
Start(k, phase) ==
  /\ pc[k] = "idle"
  /\ Goto(k, phase)
  /\ now' = [now EXCEPT ![k] = clock]
  /\ UNCHANGED <<input, clock, db, lock, reply, held, crashes>>

-----------------------------------------------------------------------------
(* create_ticket: one INSERT, committed. *)

StartIssue(c) == Start(c, "wait") /\ UNCHANGED late

CommitIssue(c) ==
  /\ pc[c] = "wait"
  /\ lock = NULL
  /\ tickets' = Put(tickets, c, [expires |-> now[c] + input.ttl[c],
                                 scope |-> Normalize(input.names[c]),
                                 used |-> NULL])
  /\ Answering(c, "issued")
  /\ UNCHANGED <<input, clock, devices, lock, now, held, late, crashes>>

-----------------------------------------------------------------------------
(* exchange: BEGIN IMMEDIATE, SELECT and checks, UPDATE, INSERT, commit.   *)
(* What the transaction writes is seen by no other connection before the   *)
(* commit, and is gone if the process dies before it.                      *)

StartExchange(d) == Start(d, "wait") /\ UNCHANGED late

\* Mutated form: BEGIN DEFERRED, which takes no lock before the SELECT.
BeginDeferred(d) ==
  /\ pc[d] = "wait"
  /\ Goto(d, "locked")
  /\ UNCHANGED <<input, clock, db, lock, now, reply, held, late, crashes>>

BeginExchange(d) ==
  /\ pc[d] = "wait"
  /\ lock = NULL
  /\ lock' = d
  /\ Goto(d, "locked")
  /\ UNCHANGED <<input, clock, db, now, reply, held, late, crashes>>

\* What the SELECT finds wrong with the code; the time is the one sampled
\* before the wait for the lock.
Refusal(d) ==
  LET c == CodeOf(d) IN
  IF c \notin DOMAIN tickets THEN "invalid"
  ELSE IF tickets[c].used # NULL THEN "used"
  ELSE IF tickets[c].expires <= now[d] THEN "expired"
  ELSE "none"

Refuse(d, reasons, owner) ==
  /\ pc[d] = "locked"
  /\ Refusal(d) \in reasons
  /\ lock' = owner
  /\ Answering(d, Refusal(d))
  /\ UNCHANGED <<input, clock, db, now, held, late, crashes>>

\* Mutated form: no rollback.
RefuseNoRollback(d) == Refuse(d, {"invalid", "used", "expired"}, lock)

RefuseExchange(d) == Refuse(d, {"invalid", "used", "expired"}, NULL)

\* Mutated form: the UPDATE commits on its own.
MarkUsedAutocommit(d) ==
  /\ pc[d] = "locked"
  /\ Refusal(d) = "none"
  /\ Goto(d, "marked")
  /\ tickets' = [tickets EXCEPT ![CodeOf(d)].used = now[d]]
  /\ UNCHANGED <<input, clock, devices, lock, now, reply, held, late, crashes>>

MarkUsed(d) ==
  /\ pc[d] = "locked"
  /\ Refusal(d) = "none"
  /\ Goto(d, "marked")
  /\ UNCHANGED <<input, clock, db, lock, now, reply, held, late, crashes>>

\* Mutated form: the token is sent while the transaction is still open.
InsertAnswerEarly(d) ==
  /\ pc[d] = "marked"
  /\ Answering(d, "ok")
  /\ lock' = NULL
  /\ UNCHANGED <<input, clock, db, now, held, late, crashes>>

InsertDevice(d) ==
  /\ pc[d] = "marked"
  /\ Goto(d, "inserted")
  /\ UNCHANGED <<input, clock, db, lock, now, reply, held, late, crashes>>

\* Both rows become visible, with these values for used_at, created_at and
\* last_used_at.
CommitRows(d, used, created, lastUsed) ==
  /\ pc[d] = "inserted"
  /\ tickets' = [tickets EXCEPT ![CodeOf(d)].used = used]
  /\ devices' = Put(devices, d, [scope |-> Normalize(tickets[CodeOf(d)].scope),
                                 created |-> created,
                                 lastUsed |-> lastUsed,
                                 revoked |-> NULL])
  /\ lock' = NULL
  /\ Answering(d, "ok")
  /\ UNCHANGED <<input, clock, now, held, late, crashes>>

\* Mutated forms: no last use until the first authentication; created_at read
\* from the clock again at the commit; the ticket not marked used.
CommitNeverUsed(d) == CommitRows(d, now[d], now[d], NULL)
CommitSecondClock(d) == CommitRows(d, now[d], clock, now[d])
CommitKeepsCode(d) == CommitRows(d, NULL, now[d], now[d])

CommitExchange(d) == CommitRows(d, now[d], now[d], now[d])

-----------------------------------------------------------------------------
(* device_profile_ids: a SELECT on its own, then an UPDATE that waits for  *)
(* the write lock and does not look at revoked_at again.                   *)

StartAuth(a) ==
  /\ TokenOf(a) \in held
  /\ Start(a, "read")
  /\ late' = IF IsRevoked(TokenOf(a)) THEN late \cup {a} ELSE late

Select(a, known) ==
  /\ pc[a] = "read"
  /\ IF known THEN Goto(a, "touch") /\ UNCHANGED reply
              ELSE Answering(a, "denied")
  /\ UNCHANGED <<input, clock, db, lock, now, held, late, crashes>>

\* Mutated form: the SELECT without "revoked_at IS NULL".
SelectAnyDevice(a) == Select(a, TokenOf(a) \in DOMAIN devices)

SelectDevice(a) ==
  Select(a, TokenOf(a) \in DOMAIN devices /\ ~IsRevoked(TokenOf(a)))

Touch(a, allowed) ==
  /\ pc[a] = "touch"
  /\ lock = NULL
  /\ devices' = [devices EXCEPT ![TokenOf(a)].lastUsed = now[a]]
  /\ Answering(a, IF allowed THEN "granted" ELSE "denied")
  /\ UNCHANGED <<input, clock, tickets, lock, now, held, late, crashes>>

\* Mutated form: the Profile of the request is not looked at.
TouchAnyProfile(a) == Touch(a, TRUE)

TouchDevice(a) ==
  Touch(a, InScope(input.profile[a], devices[TokenOf(a)].scope))

-----------------------------------------------------------------------------
(* revoke_device_token: one UPDATE guarded by revoked_at IS NULL. *)

StartRevoke(r) ==
  /\ TokenOf(r) \in held
  /\ Start(r, "wait")
  /\ UNCHANGED late

Revoke(r, matched) ==
  /\ pc[r] = "wait"
  /\ lock = NULL
  /\ IF matched
       THEN /\ devices' = [devices EXCEPT ![TokenOf(r)].revoked = now[r]]
            /\ Answering(r, "revoked")
       ELSE UNCHANGED devices /\ Answering(r, "denied")
  /\ UNCHANGED <<input, clock, tickets, lock, now, held, late, crashes>>

\* Mutated form: the UPDATE without "revoked_at IS NULL".
RevokeAgain(r) == Revoke(r, TokenOf(r) \in DOMAIN devices)

CommitRevoke(r) ==
  Revoke(r, TokenOf(r) \in DOMAIN devices /\ ~IsRevoked(TokenOf(r)))

-----------------------------------------------------------------------------
(* Answers, time-outs, the clock and crashes. *)

\* The answer reaches the caller; an App stores the token it carries.
Deliver(k) ==
  /\ pc[k] = "reply"
  /\ Goto(k, "done")
  /\ held' = IF reply[k] = "ok" THEN held \cup {k} ELSE held
  /\ UNCHANGED <<input, clock, db, lock, now, reply, late, crashes>>

\* The connection to the caller breaks; nothing in the store is undone.
LoseReply(k) ==
  /\ pc[k] = "reply"
  /\ Goto(k, "lost")
  /\ UNCHANGED <<input, clock, db, lock, now, reply, held, late, crashes>>

\* An error of SQLite ends the call and leaves the lock to owner.  Only the
\* exchange endpoint turns the error into an answer.
EndByError(k, owner) ==
  /\ lock' = owner
  /\ IF k \in Exchanges THEN Answering(k, "unavailable")
                        ELSE Goto(k, "lost") /\ UNCHANGED reply
  /\ UNCHANGED <<input, clock, db, now, held, late, crashes>>

\* busy_timeout runs out while another connection holds the write lock.
BusyTimeout(k) ==
  /\ pc[k] \in {"wait", "touch"}
  /\ lock # NULL
  /\ EndByError(k, lock)

\* A statement or the commit fails for another reason: a full disk, a read
\* error.  The transaction is rolled back and the connection closed.
StoreFails(k) ==
  /\ pc[k] \in {"wait", "locked", "marked", "inserted", "read", "touch"}
  /\ EndByError(k, IF lock = k THEN NULL ELSE lock)

Tick ==
  /\ clock < MaxTime
  /\ clock' = clock + 1
  /\ UNCHANGED <<input, db, lock, pc, now, reply, held, late, crashes>>

\* The process dies: SQLite rolls the open transaction back on the next open.
Crash ==
  /\ crashes < MaxCrashes
  /\ Running # {}
  /\ crashes' = crashes + 1
  /\ lock' = NULL
  /\ pc' = [k \in Calls |-> IF k \in Running THEN "lost" ELSE pc[k]]
  /\ UNCHANGED <<input, clock, db, now, reply, held, late>>

-----------------------------------------------------------------------------
IssueStep(c) == CommitIssue(c)

ExchangeStep(d) ==
  \/ BeginExchange(d) \/ RefuseExchange(d) \/ MarkUsed(d)
  \/ InsertDevice(d) \/ CommitExchange(d)

AuthStep(a) == SelectDevice(a) \/ TouchDevice(a)

RevokeStep(r) == CommitRevoke(r)

\* What the server does for a call once it has arrived.
Serve(k) ==
  \/ k \in Issues /\ IssueStep(k)
  \/ k \in Exchanges /\ ExchangeStep(k)
  \/ k \in Auths /\ AuthStep(k)
  \/ k \in Revokes /\ RevokeStep(k)
  \/ BusyTimeout(k)
  \/ Deliver(k)

Arrive ==
  \/ \E c \in Issues : StartIssue(c)
  \/ \E d \in Exchanges : StartExchange(d)
  \/ \E a \in Auths : StartAuth(a)
  \/ \E r \in Revokes : StartRevoke(r)

Next ==
  \/ Arrive
  \/ \E k \in Calls : Serve(k) \/ StoreFails(k) \/ LoseReply(k)
  \/ Tick
  \/ Crash

Spec == Init /\ [][Next]_vars

\* A thread that can run is scheduled: every running call keeps taking steps.
\* A call that finds the lock taken either gets it or times out, so weak
\* fairness is enough.  Arrivals, ticks, errors, losses and crashes are not.
FairSpec == Spec /\ \A k \in Calls : WF_vars(Serve(k))

-----------------------------------------------------------------------------
(* Properties. *)

\* Types of the rows, the calls and the lock (pairing_tickets and
\* pairing_devices as _connect declares them).
TypeOK ==
  /\ input \in Input
  /\ clock \in Nat
  /\ DOMAIN tickets \subseteq Issues
  /\ tickets \in [DOMAIN tickets -> Ticket]
  /\ DOMAIN devices \subseteq Exchanges
  /\ devices \in [DOMAIN devices -> Device]
  /\ lock \in Exchanges \cup {NULL}
  /\ pc \in [Calls -> Phase]
  /\ now \in [Calls -> Nat]
  /\ reply \in [Calls -> Answer \cup {NULL}]
  /\ held \subseteq Exchanges
  /\ late \subseteq Auths
  /\ crashes \in Nat

\* A code is redeemed at most once, however exchanges of it interleave,
\* time out, fail or are cut off by a crash.
SingleUse ==
  \A d1, d2 \in DOMAIN devices : CodeOf(d1) = CodeOf(d2) => d1 = d2

\* A ticket is marked used exactly when its device row exists, and the two
\* rows were written by one exchange: same time, before expiry, same scope.
\* No crash and no error in the middle of the transaction leaves a burnt code
\* without a device or a device without a code.
TicketMatchesDevice ==
  /\ \A d \in DOMAIN devices :
       /\ CodeOf(d) \in DOMAIN tickets
       /\ LET t == tickets[CodeOf(d)] IN
            /\ t.used = devices[d].created
            /\ t.used < t.expires
            /\ t.scope = devices[d].scope
  /\ \A c \in DOMAIN tickets :
       tickets[c].used # NULL => \E d \in DOMAIN devices : CodeOf(d) = c

\* A token an App received is backed by a committed device row, also after
\* the process died: the answer is sent after the commit.
TokenBackedByRow == held \subseteq DOMAIN devices

\* An authentication that arrives after its token was revoked is never
\* granted, whatever was in flight at the time of the revocation.
RevokedIsDenied == \A a \in late : reply[a] # "granted"

\* A request is granted only a Profile that the operator typed when the ticket
\* was issued, through the two normalisations, the exchange and the look-up of
\* the token; unless nothing that was typed is a Profile's name, for then the
\* list is stored empty and the device has every Profile.
ScopeKept ==
  \A a \in Auths :
    reply[a] = "granted" =>
      LET typed == input.names[CodeOf(TokenOf(a))] IN
      input.profile[a] \in typed \/ Normalize(typed) = {}

\* Of all calls that revoke one token exactly one reports success, and the
\* success it reports is in the database.
OneRevokeWins ==
  \A r \in Revokes :
    reply[r] = "revoked" =>
      /\ IsRevoked(TokenOf(r))
      /\ \A s \in Revokes :
           reply[s] = "revoked" /\ TokenOf(s) = TokenOf(r) => s = r

\* A device's last use lies between its registration and the present, although
\* concurrent authentications write the times they sampled in any order.
LastUseInRange ==
  \A d \in DOMAIN devices :
    devices[d].created <= devices[d].lastUsed /\ devices[d].lastUsed <= clock

\* No step deletes a row, reopens a used code, changes a registered device's
\* scope or moves the time of its revocation.
HistoryIsFinal ==
  [][/\ \A c \in DOMAIN tickets :
          /\ c \in DOMAIN tickets'
          /\ tickets[c].used # NULL => tickets'[c] = tickets[c]
     /\ \A d \in DOMAIN devices :
          /\ d \in DOMAIN devices'
          /\ devices'[d].scope = devices[d].scope
          /\ devices[d].revoked # NULL => devices'[d].revoked = devices[d].revoked
    ]_vars

\* What the contract sees of the store.  A code is on offer while its ticket is
\* unused (an expired one is on offer and never taken).
Offered == [c \in {t \in DOMAIN tickets : tickets[t].used = NULL}
              |-> tickets[c].scope]

Paired == [d \in DOMAIN devices |-> [code |-> CodeOf(d), scope |-> devices[d].scope]]

RevokedDevices == {d \in DOMAIN devices : devices[d].revoked # NULL}

Contract == INSTANCE PairingContract WITH
  Codes <- Issues,
  Devices <- Exchanges,
  Scopes <- SUBSET Names,
  offered <- Offered,
  paired <- Paired,
  revoked <- RevokedDevices

\* Every behaviour of the store, seen through that mapping, is one of the
\* contract: code and device change hands in one step, exactly once.
KeepsContract == Contract!Spec

\* Every call that arrived ends, answered or cut off by a crash, an error, a
\* broken connection or the busy time-out, and the write lock is free again,
\* also after a refusal: no later writer waits for it.  Calls run once and are
\* finitely many, so this is that the store comes to rest whatever arrives.
EveryCallEnds == []<>(Running = {} /\ lock = NULL)
=============================================================================
