---------------------------- MODULE DirectEvents ----------------------------
(***************************************************************************)
(* The DIRECT notification store: content-free events in one SQLite table, *)
(* numbered by an AUTOINCREMENT sequence, kept for a limited time and up   *)
(* to a limited number.                                                    *)
(*                                                                         *)
(* publish stamps the event outside the store's lock and inserts, prunes   *)
(* and commits inside it, so events enter the log out of the order of      *)
(* their stamps.  A rejected INSERT takes no sequence number: the events   *)
(* ever committed form a log whose indices are the sequence numbers.       *)
(***************************************************************************)
EXTENDS Naturals, Sequences, FiniteSets

CONSTANTS
  Publishers,   \* calls of publish
  Event,        \* the event each call is given: id, dedupe key and Profile
  Retention,    \* retention_seconds, in ticks of the clock
  MaxEvents,    \* max_events
  MaxTime,      \* bound: the last tick of the clock
  MaxCrashes,   \* bound: how many times the server process dies
  NULL          \* no value yet

Ids == {Event[p].id : p \in Publishers}
Keys == {Event[p].key : p \in Publishers}
Profiles == {Event[p].profile : p \in Publishers}

ASSUME DirectEventsAssumption ==
  /\ Event \in [Publishers -> [id : Ids, key : Keys, profile : Profiles]]
  /\ Retention \in Nat
  /\ MaxEvents \in Nat \ {0}
  /\ MaxTime \in Nat
  /\ MaxCrashes \in Nat
  /\ NULL \notin Nat \cup Ids

VARIABLES
  clock,    \* time.time()
  log,      \* history: every row ever committed, at its sequence number
  kept,     \* sequence numbers of the rows that are in the table
  pc,       \* where each call is
  stamp,    \* the created_at of each call's event
  answer,   \* the sequence number each call returns, NULL until it does
  crashes   \* how often the process has died

storeVars == <<clock, log, kept, pc, stamp, answer, crashes>>

Row == [id : Ids, key : Keys, profile : Profiles, created : Nat]

\* The rows that the two UNIQUE columns let p's event collide with.
Duplicates(p) ==
  {s \in kept : log[s].id = Event[p].id \/ log[s].key = Event[p].key}

-----------------------------------------------------------------------------
(* Pruning, first by age and then by number. *)

\* Mutated form: a row goes the moment its retention is over.
UnexpiredStrictly(rows, seqs, t) ==
  {s \in seqs : rows[s].created + Retention > t}

\* Rows not older than the retention at time t.
Unexpired(rows, seqs, t) == {s \in seqs : rows[s].created + Retention >= t}

\* Mutated form: OFFSET one too large.
NewestAndOne(seqs) ==
  {s \in seqs : Cardinality({u \in seqs : u > s}) <= MaxEvents}

\* The last MaxEvents of them.
Newest(seqs) == {s \in seqs : Cardinality({u \in seqs : u > s}) < MaxEvents}

-----------------------------------------------------------------------------
StoreInit ==
  /\ clock = 0
  /\ log = <<>>
  /\ kept = {}
  /\ pc = [p \in Publishers |-> "idle"]
  /\ stamp = [p \in Publishers |-> 0]
  /\ answer = [p \in Publishers |-> NULL]
  /\ crashes = 0

\* publish up to the lock: the event is valid and gets its created_at.
Stamp(p) ==
  /\ pc[p] = "idle"
  /\ pc' = [pc EXCEPT ![p] = "stamped"]
  /\ stamp' = [stamp EXCEPT ![p] = clock]
  /\ UNCHANGED <<clock, log, kept, answer, crashes>>

Answering(p, s) ==
  /\ pc' = [pc EXCEPT ![p] = "done"]
  /\ answer' = [answer EXCEPT ![p] = s]

\* INSERT, prune as of time t and commit, unless a clashing row is there.
Insert(p, clashing, t) ==
  LET row  == [id |-> Event[p].id, key |-> Event[p].key,
               profile |-> Event[p].profile, created |-> stamp[p]]
      next == Len(log) + 1
  IN
  /\ pc[p] = "stamped"
  /\ clashing = {}
  /\ log' = Append(log, row)
  /\ kept' = Newest(Unexpired(log', kept \cup {next}, t))
  /\ Answering(p, next)
  /\ UNCHANGED <<clock, stamp, crashes>>

\* Mutated forms: only event_id is UNIQUE; the age is measured from the time
\* inside the lock.
InsertSameKey(p) ==
  Insert(p, {s \in Duplicates(p) : log[s].id = Event[p].id}, stamp[p])
InsertPrunedNow(p) == Insert(p, Duplicates(p), clock)

InsertEvent(p) == Insert(p, Duplicates(p), stamp[p])

\* Mutated form: lastrowid of the INSERT that failed is returned.
AnswerNoRow(p) ==
  /\ pc[p] = "stamped"
  /\ Duplicates(p) # {}
  /\ Answering(p, 0)
  /\ UNCHANGED <<clock, log, kept, stamp, crashes>>

\* IntegrityError: the oldest of the rows that were there first is returned.
AnswerDuplicate(p) ==
  /\ pc[p] = "stamped"
  /\ \E s \in Duplicates(p) :
       /\ \A t \in Duplicates(p) : s <= t
       /\ Answering(p, s)
  /\ UNCHANGED <<clock, log, kept, stamp, crashes>>

\* Any other SQLite error: the transaction is rolled back, and the caller,
\* _publish_direct_event, drops the event.
FailPublish(p) ==
  /\ pc[p] = "stamped"
  /\ pc' = [pc EXCEPT ![p] = "lost"]
  /\ UNCHANGED <<clock, log, kept, stamp, answer, crashes>>

Publish(p) ==
  Stamp(p) \/ InsertEvent(p) \/ AnswerDuplicate(p) \/ FailPublish(p)

Tick ==
  /\ clock < MaxTime
  /\ clock' = clock + 1
  /\ UNCHANGED <<log, kept, pc, stamp, answer, crashes>>

\* The process dies; what was committed stays.
Crash ==
  /\ crashes < MaxCrashes
  /\ crashes' = crashes + 1
  /\ pc' = [p \in Publishers |-> IF pc[p] = "stamped" THEN "lost" ELSE pc[p]]
  /\ UNCHANGED <<clock, log, kept, stamp, answer>>

StoreNext == (\E p \in Publishers : Publish(p)) \/ Tick \/ Crash

StoreSpec == StoreInit /\ [][StoreNext]_storeVars

-----------------------------------------------------------------------------
(* Properties. *)

\* Types of the table and of the calls.
StoreTypeOK ==
  /\ clock \in Nat
  /\ log \in Seq(Row)
  /\ kept \subseteq 1..Len(log)
  /\ pc \in [Publishers -> {"idle", "stamped", "done", "lost"}]
  /\ stamp \in [Publishers -> Nat]
  /\ answer \in [Publishers -> 1..Len(log) \cup {NULL}]
  /\ crashes \in Nat

\* The table never holds more than max_events rows after a commit.
WindowBounded == Cardinality(kept) <= MaxEvents

\* An event that was committed is missing only because its retention is over
\* or because max_events newer ones were committed, although the age is
\* measured from stamps taken in another order than the inserts.
LostOnlyByPolicy ==
  \A s \in 1..Len(log) \ kept :
    \/ log[s].created + Retention < clock
    \/ Cardinality({u \in 1..Len(log) : u > s}) >= MaxEvents

\* The event last committed is in the table: it is not pruned by its own
\* insert, whatever stamp it carries.
LastIsRetained == log # <<>> => Len(log) \in kept

\* A call that repeats an id or a key is answered with the event that got
\* there first, as long as that one is retained: nobody is notified twice.
RetriesAgree ==
  \A p, q \in Publishers :
    /\ answer[p] # NULL
    /\ answer[q] # NULL
    /\ log[answer[p]].id = Event[q].id \/ log[answer[p]].key = Event[q].key
    /\ answer[p] < answer[q]
    => answer[p] \notin kept
=============================================================================
