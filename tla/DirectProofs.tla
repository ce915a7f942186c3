---------------------------- MODULE DirectProofs ----------------------------
(***************************************************************************)
(* Proofs about DirectEvents and DirectStream for any number of chats, any *)
(* retention, window and batch, any number of restarts and breaks.         *)
(*                                                                         *)
(* Of the store, all properties but RetriesAgree follow the table through  *)
(* the one step that changes it.  RetriesAgree is about two answers, given *)
(* at different times; FirstIsAnswered says of each on its own what the    *)
(* lock gave it: no row of the table that comes before the answer could    *)
(* have been it.                                                           *)
(***************************************************************************)
EXTENDS DirectStream, FiniteSetTheorems, TLAPS

\* The row s could have been the answer to q.
Matches(s, q) == log[s].id = Event[q].id \/ log[s].key = Event[q].key

\* A call is answered with the oldest row of the table it could be answered with.
FirstIsAnswered ==
  \A q \in Publishers :
    answer[q] # NULL => \A s \in kept : Matches(s, q) => answer[q] <= s

\* No call is stamped later than it is.
StampedBefore == \A p \in Publishers : stamp[p] <= clock

StoreInv ==
  /\ StoreTypeOK
  /\ StampedBefore
  /\ WindowBounded
  /\ LastIsRetained
  /\ LostOnlyByPolicy
  /\ FirstIsAnswered

-----------------------------------------------------------------------------
(* Pruning. *)

\* Later rows of a finite table are counted by a natural number.
LEMMA LaterRows ==
  ASSUME NEW seqs \in SUBSET Nat, IsFiniteSet(seqs), NEW s
  PROVE  /\ IsFiniteSet({u \in seqs : u > s})
         /\ Cardinality({u \in seqs : u > s}) \in Nat
<1>1. {u \in seqs : u > s} \in SUBSET seqs
  OBVIOUS
<1> QED
  BY <1>1, FS_Subset, FS_CardinalityType

\* The prune by number leaves at most MaxEvents rows: two rows that it leaves
\* differ in how many rows come after them.
LEMMA NewestIsBounded ==
  ASSUME NEW seqs \in SUBSET Nat, IsFiniteSet(seqs)
  PROVE  /\ Newest(seqs) \subseteq seqs
         /\ Cardinality(Newest(seqs)) <= MaxEvents
<1> DEFINE Later(s) == {u \in seqs : u > s}
           left == Newest(seqs)
           count == [s \in left |-> Cardinality(Later(s))]
<1>1. left \subseteq seqs /\ IsFiniteSet(left) /\ Cardinality(left) \in Nat
  BY FS_Subset, FS_CardinalityType DEF Newest
<1>2. MaxEvents \in Nat \ {0}
  BY DirectEventsAssumption
<1>3. count \in [left -> 0..(MaxEvents - 1)]
  <2>1. \A s \in left : Cardinality(Later(s)) \in Nat /\ Cardinality(Later(s)) < MaxEvents
    BY LaterRows, <1>1 DEF Newest
  <2> QED
    BY <2>1, <1>2
<1>4. ASSUME NEW s \in left, NEW t \in left, s < t
      PROVE  count[s] # count[t]
  <2>1. IsFiniteSet(Later(s)) /\ IsFiniteSet(Later(t))
        /\ Cardinality(Later(s)) \in Nat /\ Cardinality(Later(t)) \in Nat
    BY LaterRows
  <2>2. Later(t) \cup {t} \in SUBSET Later(s) /\ t \notin Later(t)
    <3>1. s \in seqs /\ t \in seqs /\ seqs \in SUBSET Nat
      BY <1>1
    <3>2. s \in Nat /\ t \in Nat /\ s < t
      BY <3>1, <1>4
    <3>3. \A u \in Nat : u > t => u > s
      BY <3>2
    <3>4. t > s /\ ~ (t > t)
      BY <3>2
    <3> HIDE DEF left, count
    <3> QED
      BY <3>1, <3>3, <3>4
  <2>3. Cardinality(Later(t) \cup {t}) = Cardinality(Later(t)) + 1
    BY <2>1, <2>2, FS_AddElement
  <2>4. Cardinality(Later(t) \cup {t}) <= Cardinality(Later(s))
    BY <2>1, <2>2, FS_Subset
  <2> QED
    BY <2>1, <2>3, <2>4
<1>5. ~ \E s, t \in left : s # t /\ count[s] = count[t]
  <2>1. left \subseteq Nat
    BY <1>1
  <2> HIDE DEF left, count
  <2>2. \A s, t \in left : s < t => count[s] # count[t]
    BY <1>4
  <2> QED
    BY <2>1, <2>2
<1>6. IsFiniteSet(0..(MaxEvents - 1)) /\ Cardinality(0..(MaxEvents - 1)) = MaxEvents
  BY <1>2, FS_Interval
<1>7. ~ (MaxEvents < Cardinality(left))
  <2> HIDE DEF left, count
  <2>1. \A S, T : IsFiniteSet(S) /\ IsFiniteSet(T) /\ Cardinality(T) < Cardinality(S)
                 => \A f \in [S -> T] : \E x, y \in S : x # y /\ f[x] = f[y]
    BY FS_PigeonHole
  <2> QED
    BY <1>1, <1>3, <1>5, <1>6, <2>1
<1> QED
  BY <1>1, <1>2, <1>7

\* What an insert leaves of the table: rows of before and the new one, which
\* stays; a row that is gone was expired at the insert's stamp, or MaxEvents
\* rows come after it.
LEMMA Pruned ==
  ASSUME StoreInv, NEW p \in Publishers, InsertEvent(p)
  PROVE  /\ log' \in Seq(Row)
         /\ Len(log') = Len(log) + 1
         /\ \A s \in 1..Len(log) : log'[s] = log[s]
         /\ kept' \subseteq kept \cup {Len(log')}
         /\ Len(log') \in kept'
         /\ Cardinality(kept') <= MaxEvents
         /\ \A s \in (kept \cup {Len(log')}) \ kept' :
              \/ log'[s].created + Retention < stamp[p]
              \/ Cardinality({u \in 1..Len(log') : u > s}) >= MaxEvents
<1> DEFINE row == [id |-> Event[p].id, key |-> Event[p].key,
                   profile |-> Event[p].profile, created |-> stamp[p]]
           next == Len(log) + 1
           all == kept \cup {next}
           young == Unexpired(log', all, stamp[p])
<1>1. log \in Seq(Row) /\ Len(log) \in Nat /\ kept \subseteq 1..Len(log)
      /\ stamp[p] \in Nat
  BY DEF StoreInv, StoreTypeOK
<1>2. row \in Row
  BY <1>1, DirectEventsAssumption DEF Row
<1>3. log' = Append(log, row) /\ kept' = Newest(young)
  BY DEF InsertEvent, Insert
<1> HIDE DEF row
<1>4. log' \in Seq(Row) /\ Len(log') = next /\ log'[next] = row
      /\ \A s \in 1..Len(log) : log'[s] = log[s]
  BY <1>1, <1>2, <1>3
<1>5. all \subseteq 1..next /\ next \in Nat
  <2>1. next \in Nat /\ next \in 1..next /\ 1..Len(log) \subseteq 1..next
    BY <1>1
  <2> QED
    BY <1>1, <2>1
<1>6. young \subseteq all /\ young \in SUBSET Nat /\ IsFiniteSet(young)
  <2>1. young \subseteq 1..next
    BY <1>5 DEF Unexpired
  <2>2. IsFiniteSet(1..next)
    BY <1>5, FS_Interval
  <2> QED
    BY <2>1, <2>2, <1>5, FS_Subset DEF Unexpired
<1>7. Newest(young) \subseteq young /\ Cardinality(kept') <= MaxEvents
  BY <1>3, <1>6, NewestIsBounded
<1>8. next \in kept'
  <2>1. row.created = stamp[p] /\ Retention \in Nat /\ MaxEvents \in Nat \ {0}
    BY DirectEventsAssumption DEF row
  <2>2. next \in young
    BY <1>1, <1>4, <2>1 DEF Unexpired
  <2>3. {u \in young : u > next} = {}
    <3>1. \A u \in 1..next : ~ (u > next)
      BY <1>5
    <3>2. young \subseteq 1..next
      BY <1>5, <1>6
    <3> HIDE DEF young, next
    <3> QED
      BY <3>1, <3>2
  <2>4. Cardinality({u \in young : u > next}) < MaxEvents
    <3> DEFINE later == {u \in young : u > next}
    <3>1. Cardinality(later) = 0
      BY <2>3, FS_EmptySet, Zenon
    <3> HIDE DEF later
    <3>2. Cardinality(later) < MaxEvents
      BY <2>1, <3>1
    <3> QED
      BY <3>2 DEF later
  <2> HIDE DEF young, next
  <2> QED
    BY <1>3, <2>2, <2>4 DEF Newest
<1>9. ASSUME NEW s \in all \ kept'
      PROVE  \/ log'[s].created + Retention < stamp[p]
             \/ Cardinality({u \in 1..Len(log') : u > s}) >= MaxEvents
  <2>1. CASE s \notin young
    <3>1. log'[s] \in Row
      BY <1>4, <1>5
    <3>2. log'[s].created \in Nat /\ Retention \in Nat
      BY <3>1, DirectEventsAssumption DEF Row
    <3>3. ~ (log'[s].created + Retention >= stamp[p])
      BY <2>1 DEF Unexpired
    <3> QED
      BY <3>2, <3>3, <1>1
  <2>2. CASE s \in young
    <3> DEFINE few == {u \in young : u > s}
               many == {u \in 1..Len(log') : u > s}
    <3>1. ~ (Cardinality(few) < MaxEvents)
      BY <1>3, <2>2 DEF Newest
    <3>2. few \in SUBSET many
      BY <1>4, <1>5, <1>6
    <3>3. IsFiniteSet(1..Len(log')) /\ 1..Len(log') \in SUBSET Nat
      <4>1. Len(log') \in Nat /\ Len(log') \in Int /\ 1 \in Int
        BY <1>4, <1>5
      <4>2. IsFiniteSet(1..Len(log'))
        BY <4>1, FS_Interval
      <4> QED
        BY <4>1, <4>2
    <3>4. IsFiniteSet(many) /\ Cardinality(many) \in Nat
      BY <3>3, LaterRows
    <3>5. Cardinality(few) \in Nat
      BY <1>6, LaterRows
    <3>6. Cardinality(few) <= Cardinality(many)
      BY <3>2, <3>4, FS_Subset
    <3> QED
      BY <3>1, <3>4, <3>5, <3>6, DirectEventsAssumption
  <2> QED
    BY <2>1, <2>2
<1> QED
  BY <1>3, <1>4, <1>6, <1>7, <1>8, <1>9

-----------------------------------------------------------------------------
(* The invariant. *)

LEMMA StoreInitInv == StoreInit => StoreInv
<1> SUFFICES ASSUME StoreInit PROVE StoreInv
  OBVIOUS
<1>1. log = <<>> /\ Len(log) = 0 /\ kept = {} /\ clock = 0
  BY DEF StoreInit
<1>2. StoreTypeOK
  BY <1>1 DEF StoreInit, StoreTypeOK
<1>3. StampedBefore /\ LastIsRetained /\ FirstIsAnswered
  BY <1>1 DEF StoreInit, StampedBefore, LastIsRetained, FirstIsAnswered
<1>4. WindowBounded
  BY <1>1, FS_EmptySet, DirectEventsAssumption DEF WindowBounded
<1>5. LostOnlyByPolicy
  BY <1>1 DEF LostOnlyByPolicy
<1> QED
  BY <1>2, <1>3, <1>4, <1>5 DEF StoreInv

\* A step that leaves the table alone, but may give one call the answer it is
\* due.
LEMMA TableKept ==
  ASSUME StoreInv, StoreTypeOK', StampedBefore', clock' >= clock, UNCHANGED <<log, kept>>,
         \A q \in Publishers :
           answer'[q] # answer[q] =>
             \A s \in kept : Matches(s, q) => answer'[q] <= s
  PROVE  StoreInv'
<1>1. WindowBounded' /\ LastIsRetained'
  BY DEF StoreInv, WindowBounded, LastIsRetained
<1>2. FirstIsAnswered'
  BY DEF StoreInv, FirstIsAnswered, Matches
<1>3. LostOnlyByPolicy'
  <2> SUFFICES ASSUME NEW s \in 1..Len(log) \ kept,
                      log[s].created + Retention < clock
               PROVE  log[s].created + Retention < clock'
    BY DEF StoreInv, LostOnlyByPolicy
  <2>1. log[s] \in Row
    BY DEF StoreInv, StoreTypeOK
  <2>2. log[s].created \in Nat /\ Retention \in Nat
    BY <2>1, DirectEventsAssumption DEF Row
  <2>3. clock \in Nat /\ clock' \in Nat
    BY DEF StoreInv, StoreTypeOK
  <2> QED
    BY <2>2, <2>3
<1> QED
  BY <1>1, <1>2, <1>3 DEF StoreInv

\* An insert keeps the invariant.
LEMMA InsertInv ==
  ASSUME StoreInv, NEW p \in Publishers, InsertEvent(p)
  PROVE  StoreInv'
<1>1. /\ log' \in Seq(Row) /\ Len(log') = Len(log) + 1 /\ Len(log) \in Nat
      /\ \A s \in 1..Len(log) : log'[s] = log[s]
      /\ kept \subseteq 1..Len(log)
      /\ kept' \subseteq kept \cup {Len(log')}
      /\ Len(log') \in kept'
      /\ Cardinality(kept') <= MaxEvents
  BY Pruned DEF StoreInv, StoreTypeOK
<1>2. kept' \subseteq 1..Len(log')
  <2>1. \A s \in 1..Len(log) : s \in 1..Len(log')
    BY <1>1
  <2>2. Len(log') \in 1..Len(log')
    BY <1>1
  <2> QED
    BY <1>1, <2>1, <2>2
<1>3. /\ pc' = [pc EXCEPT ![p] = "done"]
      /\ answer' = [answer EXCEPT ![p] = Len(log')]
      /\ UNCHANGED <<clock, stamp, crashes>>
      /\ Duplicates(p) = {}
  BY <1>1 DEF InsertEvent, Insert, Answering
<1>4. StoreTypeOK'
  <2>1. pc' \in [Publishers -> {"idle", "stamped", "done", "lost"}]
    BY <1>3 DEF StoreInv, StoreTypeOK
  <2>2. answer' \in [Publishers -> 1..Len(log') \cup {NULL}]
    <3>1. 1..Len(log) \subseteq 1..Len(log') /\ Len(log') \in 1..Len(log')
      BY <1>1
    <3> QED
      BY <1>3, <3>1 DEF StoreInv, StoreTypeOK
  <2> QED
    BY <1>1, <1>2, <1>3, <2>1, <2>2 DEF StoreInv, StoreTypeOK
<1>5. StampedBefore' /\ WindowBounded' /\ LastIsRetained'
  BY <1>1, <1>3 DEF StoreInv, StampedBefore, WindowBounded, LastIsRetained
<1>6. LostOnlyByPolicy'
  <2> SUFFICES ASSUME NEW s \in 1..Len(log') \ kept',
                      ~ (log'[s].created + Retention < clock')
               PROVE  Cardinality({u \in 1..Len(log') : u > s}) >= MaxEvents
    BY DEF LostOnlyByPolicy
  <2>1. s \in 1..Len(log)
    BY <1>1
  <2>2. log'[s] \in Row /\ log'[s] = log[s]
    BY <1>1, <2>1
  <2>3. log'[s].created \in Nat /\ Retention \in Nat /\ MaxEvents \in Nat
    BY <2>2, DirectEventsAssumption DEF Row
  <2>4. stamp[p] \in Nat /\ clock \in Nat /\ stamp[p] <= clock
    BY DEF StoreInv, StoreTypeOK, StampedBefore
  <2>5. CASE s \in kept
    <3>1. ~ (log'[s].created + Retention < stamp[p])
      BY <1>3, <2>3, <2>4
    <3> QED
      BY <2>5, <3>1, Pruned
  <2>6. CASE s \notin kept
    <3> DEFINE before == {u \in 1..Len(log) : u > s}
               now == {u \in 1..Len(log') : u > s}
    <3>1. Cardinality(before) >= MaxEvents
      BY <1>3, <2>1, <2>2, <2>6 DEF StoreInv, LostOnlyByPolicy
    <3>2. before \in SUBSET now
      BY <1>1
    <3>3. IsFiniteSet(1..Len(log')) /\ IsFiniteSet(1..Len(log))
      BY <1>1, FS_Interval
    <3>4. /\ IsFiniteSet(before) /\ Cardinality(before) \in Nat
          /\ IsFiniteSet(now) /\ Cardinality(now) \in Nat
      <4>1. 1..Len(log) \in SUBSET Nat /\ 1..Len(log') \in SUBSET Nat
        BY <1>1
      <4> QED
        BY <3>3, <4>1, LaterRows
    <3>5. Cardinality(before) <= Cardinality(now)
      BY <3>2, <3>4, FS_Subset
    <3> HIDE DEF before, now
    <3>6. Cardinality(now) >= MaxEvents
      BY <2>3, <3>1, <3>4, <3>5
    <3> QED
      BY <3>6 DEF now
  <2> QED
    BY <2>5, <2>6
<1>7. FirstIsAnswered'
  <2> SUFFICES ASSUME NEW q \in Publishers, answer'[q] # NULL,
                      NEW s \in kept', Matches(s, q)'
               PROVE  answer'[q] <= s
    BY DEF FirstIsAnswered
  <2>1. answer'[q] \in 1..Len(log') /\ s \in 1..Len(log')
    BY <1>2, <1>4 DEF StoreTypeOK
  <2>2. CASE s = Len(log')
    BY <1>1, <2>1, <2>2
  <2>3. CASE s \in kept
    <3>1. Matches(s, q)
      BY <1>1, <2>3 DEF Matches
    <3>2. q # p
      BY <1>3, <2>3, <3>1 DEF Duplicates, Matches
    <3>3. answer'[q] = answer[q]
      BY <1>3, <3>2 DEF StoreInv, StoreTypeOK
    <3> QED
      BY <2>3, <3>1, <3>3 DEF StoreInv, FirstIsAnswered
  <2> QED
    BY <1>1, <2>2, <2>3
<1> QED
  BY <1>4, <1>5, <1>6, <1>7 DEF StoreInv

\* Every step of the store keeps the invariant.
LEMMA StoreNextInv ==
  ASSUME StoreInv, [StoreNext]_storeVars
  PROVE  StoreInv'
<1>1. /\ StoreTypeOK /\ StampedBefore
  BY DEF StoreInv
<1> USE DEF StoreTypeOK, StampedBefore
<1>2. ASSUME NEW p \in Publishers, Stamp(p)
      PROVE  StoreInv'
  <2>1. UNCHANGED <<clock, log, kept, answer, crashes>>
        /\ stamp' = [stamp EXCEPT ![p] = clock]
        /\ pc' = [pc EXCEPT ![p] = "stamped"]
    BY <1>2 DEF Stamp
  <2>2. StoreTypeOK' /\ StampedBefore'
    BY <1>1, <2>1
  <2> QED
    BY <2>1, <2>2, <1>1, TableKept
<1>3. ASSUME NEW p \in Publishers, InsertEvent(p)
      PROVE  StoreInv'
  BY <1>3, InsertInv
<1>4. ASSUME NEW p \in Publishers, AnswerDuplicate(p)
      PROVE  StoreInv'
  <2>1. UNCHANGED <<clock, log, kept, stamp, crashes>>
        /\ pc' = [pc EXCEPT ![p] = "done"]
    BY <1>4 DEF AnswerDuplicate, Answering
  <2>2. PICK s \in Duplicates(p) : (\A t \in Duplicates(p) : s <= t)
                                  /\ answer' = [answer EXCEPT ![p] = s]
    BY <1>4 DEF AnswerDuplicate, Answering
  <2>3. s \in 1..Len(log)
    BY <1>1 DEF Duplicates
  <2>4. StoreTypeOK' /\ StampedBefore'
    BY <1>1, <2>1, <2>2, <2>3
  <2>5. \A q \in Publishers : answer'[q] # answer[q] =>
          \A t \in kept : Matches(t, q) => answer'[q] <= t
    BY <1>1, <2>2 DEF Duplicates, Matches
  <2> QED
    BY <2>1, <2>4, <2>5, <1>1, TableKept
<1>5. ASSUME NEW p \in Publishers, FailPublish(p)
      PROVE  StoreInv'
  <2>1. UNCHANGED <<clock, log, kept, stamp, answer, crashes>>
        /\ pc' = [pc EXCEPT ![p] = "lost"]
    BY <1>5 DEF FailPublish
  <2>2. StoreTypeOK' /\ StampedBefore'
    BY <1>1, <2>1
  <2> QED
    BY <2>1, <2>2, <1>1, TableKept
<1>6. CASE Tick
  <2>1. UNCHANGED <<log, kept, pc, stamp, answer, crashes>> /\ clock' = clock + 1
    BY <1>6 DEF Tick
  <2>2. StoreTypeOK' /\ StampedBefore' /\ clock' >= clock
    BY <1>1, <2>1
  <2> QED
    BY <2>1, <2>2, TableKept
<1>7. CASE Crash
  <2>1. /\ UNCHANGED <<clock, log, kept, stamp, answer>> /\ crashes' = crashes + 1
        /\ pc' = [p \in Publishers |-> IF pc[p] = "stamped" THEN "lost" ELSE pc[p]]
    BY <1>7 DEF Crash
  <2>2. StoreTypeOK' /\ StampedBefore'
    BY <1>1, <2>1
  <2> QED
    BY <2>1, <2>2, <1>1, TableKept
<1>8. CASE UNCHANGED storeVars
  <2>1. UNCHANGED <<clock, log, kept, pc, stamp, answer, crashes>>
    BY <1>8 DEF storeVars
  <2>2. StoreTypeOK' /\ StampedBefore'
    BY <1>1, <2>1
  <2> QED
    BY <2>1, <2>2, <1>1, TableKept
<1> QED
  BY <1>2, <1>3, <1>4, <1>5, <1>6, <1>7, <1>8 DEF StoreNext, Publish

\* The log only grows, and a row comes into the table only at its end.
Grows ==
  /\ Len(log) \in Nat /\ Len(log') \in Nat
  /\ \A s \in 1..Len(log) : s \in 1..Len(log') /\ log'[s] = log[s]
  /\ kept \subseteq 1..Len(log) /\ kept' \subseteq 1..Len(log')
  /\ \A s \in kept' : s \in kept \/ s > Len(log)

LEMMA TableGrows ==
  ASSUME StoreInv, StoreInv', [StoreNext]_storeVars
  PROVE  Grows
<1>1. Len(log) \in Nat /\ kept \subseteq 1..Len(log)
      /\ Len(log') \in Nat /\ kept' \subseteq 1..Len(log')
  BY DEF StoreInv, StoreTypeOK
<1>2. ASSUME NEW p \in Publishers, InsertEvent(p) PROVE Grows
  <2>1. /\ Len(log') = Len(log) + 1
        /\ \A s \in 1..Len(log) : log'[s] = log[s]
        /\ kept' \subseteq kept \cup {Len(log')}
    BY <1>2, Pruned
  <2>2. \A s \in 1..Len(log) : s \in 1..Len(log')
    BY <1>1, <2>1
  <2>3. \A s \in kept' : s \in kept \/ s > Len(log)
    <3>1. Len(log') > Len(log)
      BY <1>1, <2>1
    <3> QED
      BY <2>1, <3>1
  <2> QED
    BY <1>1, <2>1, <2>2, <2>3 DEF Grows
<1>3. CASE UNCHANGED <<log, kept>>
  BY <1>1, <1>3 DEF Grows
<1>4. CASE StoreNext
  BY <1>2, <1>3, <1>4
     DEF StoreNext, Publish, Stamp, AnswerDuplicate, FailPublish, Tick, Crash
<1> QED
  BY <1>3, <1>4 DEF storeVars

LEMMA StoreInvariance == StoreSpec => []StoreInv
<1>1. StoreInv /\ [StoreNext]_storeVars => StoreInv'
  BY StoreNextInv
<1> QED
  BY StoreInitInv, <1>1, PTL DEF StoreSpec

-----------------------------------------------------------------------------
(* The theorems. *)

\* The rows and the calls of the store keep their types.
THEOREM StoreTypes == StoreSpec => []StoreTypeOK
<1>1. StoreInv => StoreTypeOK
  BY DEF StoreInv
<1> QED
  BY StoreInvariance, <1>1, PTL

\* After every commit of publish the table holds at most max_events rows.
THEOREM WindowStaysBounded == StoreSpec => []WindowBounded
<1>1. StoreInv => WindowBounded
  BY DEF StoreInv
<1> QED
  BY StoreInvariance, <1>1, PTL

\* A committed event is pruned only when its retention is over or max_events
\* newer ones were committed, in whatever order publish calls were stamped.
THEOREM OnlyPolicyPrunes == StoreSpec => []LostOnlyByPolicy
<1>1. StoreInv => LostOnlyByPolicy
  BY DEF StoreInv
<1> QED
  BY StoreInvariance, <1>1, PTL

\* The insert of publish never prunes the event it has just inserted.
THEOREM InsertKeepsItsOwn == StoreSpec => []LastIsRetained
<1>1. StoreInv => LastIsRetained
  BY DEF StoreInv
<1> QED
  BY StoreInvariance, <1>1, PTL

\* Calls of publish that repeat an id or a dedupe key get the event that is
\* retained, whatever was pruned between them.
THEOREM RetriesGetTheFirst == StoreSpec => []RetriesAgree
<1>1. ASSUME StoreInv
      PROVE  RetriesAgree
  <2> SUFFICES ASSUME NEW p \in Publishers, NEW q \in Publishers,
                      answer[p] # NULL, answer[q] # NULL, Matches(answer[p], q),
                      answer[p] < answer[q], answer[p] \in kept
               PROVE  FALSE
    BY DEF RetriesAgree, Matches
  <2>1. answer[p] \in Nat /\ answer[q] \in Nat
    BY <1>1 DEF StoreInv, StoreTypeOK
  <2>2. answer[q] <= answer[p]
    BY <1>1 DEF StoreInv, FirstIsAnswered
  <2> QED
    BY <2>1, <2>2
<1> QED
  BY StoreInvariance, <1>1, PTL

-----------------------------------------------------------------------------
(* The stream.                                                             *)
(*                                                                         *)
(* NoSkip is about the id that the App saved; what it will save next is on *)
(* the wire, and what comes behind that in the batch.  The invariant says  *)
(* the same of every id on this way: whatever is retained up to it was seen *)
(* or is on the way before it.                                             *)

Logged(id) == \E s \in 1..Len(log) : log[s].id = id

\* Each row has the id of a call that came to its end, hence one of its own.
IdsAreFresh ==
  /\ \A s \in 1..Len(log) :
       \E p \in Publishers : log[s].id = Event[p].id /\ pc[p] \in {"done", "lost"}
  /\ \A s, t \in 1..Len(log) : log[s].id = log[t].id => s = t

\* If the event with this id is retained, so are in seen all that are retained
\* and come before it.
UpTo(id, seen) ==
  \A t \in kept :
    log[t].id = id =>
      \A s \in kept : s <= t /\ log[s].profile \in Steady => log[s].id \in seen

\* The ids that the App saw or will see from the wire, up to the k-th on it.
SeenWith(k) == received \cup {wire[j] : j \in 1..k}

\* The ids of the batch before s.
BatchBefore(s) == {log[u].id : u \in {v \in batch : v < s}}

Known ==
  /\ saved = NULL \/ Logged(saved)
  /\ cursor = NULL \/ Logged(cursor)
  /\ \A k \in 1..Len(wire) : Logged(wire[k])

Closed ==
  /\ conn \in {"closed", "ended"} => batch = {}
  /\ conn = "closed" => wire = <<>>

ScopeSteady ==
  /\ Stable \subseteq visible
  /\ conn # "closed" => Steady \subseteq scope

AtSaved == UpTo(saved, received)

OnWire == \A k \in 1..Len(wire) : UpTo(wire[k], SeenWith(k))

AtCursor == conn # "closed" => UpTo(cursor, SeenWith(Len(wire)))

InBatch ==
  \A b \in batch, s \in kept :
    s < b /\ log[s].profile \in Steady
      => log[s].id \in SeenWith(Len(wire)) \cup BatchBefore(b)

Typed == StoreInv /\ StreamTypeOK

StreamInv ==
  /\ Typed
  /\ IdsAreFresh
  /\ Known
  /\ Closed
  /\ ScopeSteady
  /\ AtSaved
  /\ OnWire
  /\ AtCursor
  /\ InBatch

\* What the stream does to the store is what the store does.
LEMMA StoreStep ==
  ASSUME [Next]_vars
  PROVE  [StoreNext]_storeVars
<1>1. ASSUME NEW p \in Publishers, PublishVisible(p) PROVE StoreNext
  BY <1>1 DEF PublishVisible, StoreNext
<1>2. CASE Stream
  BY <1>2 DEF Stream, Open, Connect, Read, Write, WriteNext, WriteOne, Deadline, Receive, Finish
<1>3. CASE Environment
  <2>1. CASE \E p \in Publishers : PublishVisible(p)
    BY <2>1, <1>1
  <2>2. CASE Tick \/ Crash
    BY <2>2 DEF StoreNext
  <2>3. CASE Drop \/ RevokeToken \/ ChangeProfiles
    BY <2>3 DEF Drop, RevokeToken, ChangeProfiles
  <2> QED
    BY <1>3, <2>1, <2>2, <2>3 DEF Environment
<1>4. CASE UNCHANGED vars
  BY <1>4 DEF vars
<1> QED
  BY <1>2, <1>3, <1>4 DEF Next

\* An id is published once, so it is never in the log twice.
LEMMA FreshIds ==
  ASSUME StoreInv, StoreInv', IdsAreFresh, [StoreNext]_storeVars
  PROVE  IdsAreFresh'
<1>1. pc \in [Publishers -> {"idle", "stamped", "done", "lost"}] /\ Len(log) \in Nat
  BY DEF StoreInv, StoreTypeOK
<1>2. CASE UNCHANGED log /\ \A p \in Publishers : pc[p] \in {"done", "lost"} => pc'[p] = pc[p]
  BY <1>2 DEF IdsAreFresh
<1>3. ASSUME NEW p \in Publishers, InsertEvent(p)
      PROVE  IdsAreFresh'
  <2> DEFINE next == Len(log) + 1
  <2>1. /\ Len(log') = next
        /\ \A s \in 1..Len(log) : log'[s] = log[s]
    BY <1>3, Pruned
  <2>2. /\ log'[next].id = Event[p].id
        /\ pc[p] = "stamped"
        /\ pc' = [pc EXCEPT ![p] = "done"]
    <3>1. log \in Seq(Row)
      BY DEF StoreInv, StoreTypeOK
    <3> QED
      BY <1>3, <3>1 DEF InsertEvent, Insert, Answering
  <2>3. 1..next = 1..Len(log) \cup {next}
    BY <1>1
  <2>4. \A q \in Publishers : pc[q] \in {"done", "lost"} => q # p /\ pc'[q] = pc[q]
    BY <1>1, <2>2
  <2>5. \A s \in 1..Len(log) : log[s].id # Event[p].id
    BY <2>4, DirectStreamAssumption DEF IdsAreFresh
  <2>6. pc'[p] = "done"
    BY <1>1, <2>2
  <2>7. ASSUME NEW s \in 1..Len(log')
        PROVE  \E q \in Publishers : log'[s].id = Event[q].id /\ pc'[q] \in {"done", "lost"}
    <3>1. CASE s \in 1..Len(log)
      BY <2>1, <2>4, <3>1 DEF IdsAreFresh
    <3>2. CASE s = next
      BY <2>2, <2>6, <3>2
    <3> QED
      BY <2>1, <2>3, <3>1, <3>2
  <2>8. ASSUME NEW s \in 1..Len(log'), NEW t \in 1..Len(log'), log'[s].id = log'[t].id
        PROVE  s = t
    <3>1. CASE s \in 1..Len(log) /\ t \in 1..Len(log)
      BY <2>1, <2>8, <3>1 DEF IdsAreFresh
    <3>2. CASE s = next \/ t = next
      BY <2>1, <2>2, <2>3, <2>5, <2>8, <3>2
    <3> QED
      BY <2>1, <2>3, <3>1, <3>2
  <2> QED
    BY <2>7, <2>8 DEF IdsAreFresh
<1>4. ASSUME NEW p \in Publishers, Stamp(p) \/ AnswerDuplicate(p) \/ FailPublish(p)
      PROVE  IdsAreFresh'
  BY <1>1, <1>2, <1>4 DEF Stamp, AnswerDuplicate, Answering, FailPublish
<1>5. CASE Tick \/ Crash
  BY <1>1, <1>2, <1>5 DEF Tick, Crash
<1>6. CASE UNCHANGED storeVars
  BY <1>2, <1>6 DEF storeVars
<1> QED
  BY <1>3, <1>4, <1>5, <1>6 DEF StoreNext, Publish

\* An insert comes after everything, a prune takes away: what was seen up to an
\* event stays enough.
LEMMA UpToStays ==
  ASSUME StoreInv', IdsAreFresh', Grows,
         NEW id, id = NULL \/ Logged(id), NEW seen, UpTo(id, seen)
  PROVE  \A t \in kept' :
           log'[t].id = id =>
             \A s \in kept' : s <= t /\ log'[s].profile \in Steady => log'[s].id \in seen
<1> SUFFICES ASSUME NEW t \in kept', log'[t].id = id,
                    NEW s \in kept', s <= t, log'[s].profile \in Steady
             PROVE  log'[s].id \in seen
  OBVIOUS
<1>1. t \in 1..Len(log') /\ s \in 1..Len(log') /\ Len(log) \in Nat /\ Len(log') \in Nat
  BY DEF Grows
<1>2. log'[t] \in Row
  BY <1>1 DEF StoreInv, StoreTypeOK
<1>3. id # NULL
  BY <1>2, DirectEventsAssumption DEF Row
<1>4. t \in kept
  <2>1. PICK u \in 1..Len(log) : log[u].id = id
    BY <1>3 DEF Logged
  <2>2. u \in 1..Len(log') /\ log'[u].id = id
    BY <2>1 DEF Grows
  <2>3. u = t
    BY <1>1, <2>2 DEF IdsAreFresh
  <2>4. ~ (t > Len(log))
    BY <1>1, <2>1, <2>3
  <2> QED
    BY <2>4 DEF Grows
<1>5. s \in kept
  BY <1>1, <1>4 DEF Grows
<1>6. log'[t] = log[t] /\ log'[s] = log[s]
  BY <1>4, <1>5 DEF Grows
<1> QED
  BY <1>4, <1>5, <1>6 DEF UpTo

LEMMA SteadyIsAuthorized ==
  ASSUME Stable \subseteq visible
  PROVE  Steady \subseteq Authorized
BY DEF Steady, Authorized

-----------------------------------------------------------------------------
(* Types of the stream. *)

LEMMA InitTyped == Init => Typed
<1> SUFFICES ASSUME Init PROVE Typed
  OBVIOUS
<1>1. StoreInv
  BY StoreInitInv DEF Init
<1>2. StreamTypeOK
  <2>1. FirstVisible \subseteq Profiles
    BY DirectStreamAssumption
  <2>2. wire \in Seq(Ids) /\ batch \subseteq 1..Len(log)
    BY DEF Init
  <2>3. revoked \in BOOLEAN
    BY DEF Init
  <2> QED
    BY <2>1, <2>2, <2>3 DEF Init, StreamTypeOK
<1> QED
  BY <1>1, <1>2 DEF Typed

LEMMA NextTyped ==
  ASSUME Typed, [Next]_vars
  PROVE  Typed'
<1>1. StoreInv /\ StoreInv' /\ Grows
  BY StoreStep, StoreNextInv, TableGrows DEF Typed
<1>2. StreamTypeOK /\ batch \subseteq 1..Len(log')
  BY <1>1 DEF Typed, StreamTypeOK, Grows
<1>3. \A s \in 1..Len(log) : log[s].id \in Ids
  <2>1. log \in Seq(Row)
    BY <1>1 DEF StoreInv, StoreTypeOK
  <2>2. \A s \in 1..Len(log) : log[s] \in Row
    BY <2>1
  <2> QED
    BY <2>2 DEF Row
<1> SUFFICES StreamTypeOK'
  BY <1>1 DEF Typed
<1> USE DEF StreamTypeOK
<1>4. CASE UNCHANGED streamVars
  BY <1>2, <1>4 DEF streamVars, server, app
<1>5. CASE Open
  <2>1. Authorized \subseteq Profiles
    BY <1>2, DirectStreamAssumption DEF Authorized
  <2> QED
    BY <1>2, <1>5, <2>1 DEF Open, Connect, app
<1>6. CASE Deadline \/ Finish
  BY <1>2, <1>6 DEF Deadline, Finish, app
<1>7. CASE RevokeToken
  BY <1>2, <1>7 DEF RevokeToken, server, app
<1>8. CASE Read
  <2>1. batch' \subseteq kept /\ kept' = kept /\ log' = log
    BY <1>8 DEF Read, ReadAfter, FirstOf, Following, storeVars
  <2>2. batch' \subseteq 1..Len(log')
    BY <1>1, <2>1 DEF Grows
  <2> QED
    BY <1>2, <1>8, <2>2 DEF Read, app
<1>9. CASE Write
  <2>1. PICK s \in batch : WriteOne(s, log[s].id)
    BY <1>9 DEF Write, WriteNext
  <2>2. log[s].id \in Ids
    BY <1>2, <1>3
  <2>3. wire' \in Seq(Ids)
    BY <1>2, <2>1, <2>2 DEF WriteOne
  <2> QED
    BY <1>2, <2>1, <2>2, <2>3 DEF WriteOne, app
<1>10. CASE Receive
  <2>1. Head(wire) \in Ids /\ Tail(wire) \in Seq(Ids)
    BY <1>2, <1>10 DEF Receive
  <2> QED
    BY <1>2, <1>10, <2>1 DEF Receive, server
<1>11. CASE Disconnected /\ drops' \in Nat
  <2>1. wire' \in Seq(Ids) /\ batch' \subseteq 1..Len(log')
    BY <1>11 DEF Disconnected
  <2> QED
    BY <1>2, <1>11, <2>1 DEF Disconnected, app
<1>12. CASE ChangeProfiles
  BY <1>2, <1>12 DEF ChangeProfiles, server, app
<1>13. ASSUME Next
       PROVE  \/ UNCHANGED streamVars
              \/ Open \/ Deadline \/ Finish \/ RevokeToken \/ Read \/ Write \/ Receive
              \/ Disconnected /\ drops' \in Nat
              \/ ChangeProfiles
  <2>1. Drop => Disconnected /\ drops' \in Nat
    BY <1>2 DEF Drop
  <2>2. UNCHANGED drops => drops' \in Nat
    BY <1>2
  <2> QED
    BY <1>13, <2>1, <2>2 DEF Next, Stream, Environment, PublishVisible
<1> QED
  BY <1>4, <1>5, <1>6, <1>7, <1>8, <1>9, <1>10, <1>11, <1>12, <1>13 DEF vars

LEMMA TypedInvariance == Spec => []Typed
<1>1. Typed /\ [Next]_vars => Typed'
  BY NextTyped
<1> QED
  BY InitTyped, <1>1, PTL DEF Spec

\* The connection and the App keep their types.
THEOREM StreamTypes == Spec => []StreamTypeOK
<1>1. Typed => StreamTypeOK
  BY DEF Typed
<1> QED
  BY TypedInvariance, <1>1, PTL

-----------------------------------------------------------------------------
(* Steps of the stream. *)

\* What every step keeps, as the following lemmas assume it.
Before == StreamInv /\ Typed' /\ IdsAreFresh' /\ Grows

LEMMA Together ==
  ASSUME Before, Known', Closed', ScopeSteady', AtSaved', OnWire', AtCursor', InBatch'
  PROVE  StreamInv'
BY DEF Before, StreamInv

LEMMA LoggedStays ==
  ASSUME Grows, NEW id, Logged(id)
  PROVE  \E s \in 1..Len(log') : log'[s].id = id
BY DEF Grows, Logged

\* The store changes and the connection does not, or it breaks.
LEMMA StoreMoves ==
  ASSUME Before, UNCHANGED streamVars \/ Disconnected
  PROVE  StreamInv'
<1>1. StreamInv /\ StoreInv' /\ IdsAreFresh' /\ Grows
  BY DEF Before, Typed
<1>2. /\ UNCHANGED <<visible, saved, received, cursor, scope>>
      /\ \/ UNCHANGED <<conn, batch, wire>>
         \/ conn' = "closed" /\ batch' = {} /\ wire' = <<>>
  BY DEF streamVars, server, app, Disconnected
<1>3. Known'
  <2>1. saved' = NULL \/ Logged(saved)'
    BY <1>1, <1>2, LoggedStays DEF StreamInv, Known, Logged
  <2>2. cursor' = NULL \/ Logged(cursor)'
    BY <1>1, <1>2, LoggedStays DEF StreamInv, Known, Logged
  <2>3. \A k \in 1..Len(wire') : Logged(wire[k])'
    <3>1. CASE UNCHANGED wire
      <4>1. \A k \in 1..Len(wire) : Logged(wire[k])
        BY <1>1 DEF StreamInv, Known
      <4>2. \A k \in 1..Len(wire) : \E s \in 1..Len(log') : log'[s].id = wire[k]
        BY <1>1, <4>1, LoggedStays
      <4> QED
        BY <3>1, <4>2 DEF Logged
    <3>2. CASE wire' = <<>>
      BY <3>2
    <3> QED
      BY <1>2, <3>1, <3>2
  <2> QED
    BY <2>1, <2>2, <2>3 DEF Known
<1>4. Closed' /\ ScopeSteady'
  BY <1>1, <1>2 DEF StreamInv, Closed, ScopeSteady
<1>5. AtSaved'
  BY <1>1, <1>2, UpToStays DEF StreamInv, AtSaved, UpTo, Known
<1>6. OnWire'
  <2> SUFFICES ASSUME UNCHANGED wire, NEW k \in 1..Len(wire)
               PROVE  UpTo(wire[k], SeenWith(k))'
    BY <1>2 DEF OnWire
  <2>1. UpTo(wire[k], SeenWith(k)) /\ Logged(wire[k])
    BY <1>1 DEF StreamInv, OnWire, Known
  <2>2. SeenWith(k)' = SeenWith(k)
    BY <1>2 DEF SeenWith
  <2> DEFINE id == wire[k]
             seen == SeenWith(k)
  <2>3. \A t \in kept' :
           log'[t].id = id =>
             \A s \in kept' : s <= t /\ log'[s].profile \in Steady => log'[s].id \in seen
    BY <1>1, <2>1, UpToStays
  <2> QED
    BY <2>2, <2>3 DEF UpTo
<1>7. AtCursor'
  <2> SUFFICES ASSUME conn' # "closed"
               PROVE  UpTo(cursor, SeenWith(Len(wire)))'
    BY DEF AtCursor
  <2>1. UNCHANGED <<conn, wire, cursor, received>>
    BY <1>2
  <2>2. SeenWith(Len(wire))' = SeenWith(Len(wire))
    BY <2>1 DEF SeenWith
  <2>3. UpTo(cursor, SeenWith(Len(wire))) /\ (cursor = NULL \/ Logged(cursor))
    BY <1>1, <2>1 DEF StreamInv, AtCursor, Known
  <2> DEFINE seen == SeenWith(Len(wire))
  <2>4. \A t \in kept' :
           log'[t].id = cursor =>
             \A s \in kept' : s <= t /\ log'[s].profile \in Steady => log'[s].id \in seen
    BY <1>1, <2>3, UpToStays
  <2> QED
    BY <2>1, <2>2, <2>4 DEF UpTo
<1>8. InBatch'
  <2> SUFFICES ASSUME NEW b \in batch', NEW s \in kept', s < b, log'[s].profile \in Steady
               PROVE  log'[s].id \in (SeenWith(Len(wire)) \cup BatchBefore(b))'
    BY DEF InBatch
  <2>1. UNCHANGED <<batch, wire, received>> /\ batch \subseteq 1..Len(log)
    BY <1>1, <1>2 DEF StreamInv, Typed, StreamTypeOK
  <2>2. b \in 1..Len(log) /\ s \in 1..Len(log') /\ Len(log) \in Nat /\ Len(log') \in Nat
    BY <1>1, <2>1 DEF Grows
  <2>3. s \in kept
    BY <1>1, <2>2 DEF Grows
  <2>4. log'[s] = log[s]
    BY <1>1, <2>3 DEF Grows
  <2>5. log[s].id \in SeenWith(Len(wire)) \cup BatchBefore(b)
    BY <1>1, <2>1, <2>3, <2>4 DEF StreamInv, InBatch
  <2>6. SeenWith(Len(wire))' = SeenWith(Len(wire))
    BY <2>1 DEF SeenWith
  <2>7. BatchBefore(b) = BatchBefore(b)'
    BY <1>1, <2>1 DEF BatchBefore, Grows
  <2> QED
    BY <2>4, <2>5, <2>6, <2>7
<1> QED
  BY <1>3, <1>4, <1>5, <1>6, <1>7, <1>8, Together

\* Authorising a connection: it starts with the id that the App saved.
LEMMA Opens ==
  ASSUME Before, Open
  PROVE  StreamInv'
<1>1. /\ StreamInv /\ StreamTypeOK
      /\ conn = "closed" /\ conn' = "open" /\ scope' = Authorized /\ cursor' = saved
      /\ UNCHANGED <<log, kept, visible, batch, wire, saved, received>>
  BY DEF Before, StreamInv, Typed, Open, Connect, storeVars, app
<1>2. batch' = {} /\ wire' = <<>>
  BY <1>1 DEF StreamInv, Closed
<1>3. Known' /\ Closed'
  BY <1>1, <1>2 DEF StreamInv, Known, Logged, Closed
<1>4. ScopeSteady'
  BY <1>1, SteadyIsAuthorized DEF StreamInv, ScopeSteady
<1>5. AtSaved'
  BY <1>1 DEF StreamInv, AtSaved, UpTo
<1>6. OnWire' /\ InBatch'
  BY <1>2 DEF OnWire, InBatch
<1>7. AtCursor'
  <2>1. SeenWith(Len(wire))' = received
    BY <1>1, <1>2 DEF SeenWith
  <2>2. UpTo(saved, received)
    BY <1>1 DEF StreamInv, AtSaved
  <2>3. UpTo(cursor, SeenWith(Len(wire)))'
    BY <1>1, <2>1, <2>2 DEF UpTo
  <2> QED
    BY <2>3 DEF AtCursor
<1> QED
  BY <1>3, <1>4, <1>5, <1>6, <1>7, Together

\* A poll: what of the table is neither before the cursor nor in the batch
\* comes behind the batch.
LEMMA Reads ==
  ASSUME Before, Read
  PROVE  StreamInv'
<1>1. /\ StreamInv
      /\ conn # "closed" /\ conn' = "polled" /\ batch' = ReadAfter(cursor, scope)
      /\ UNCHANGED <<log, kept, visible, scope, cursor, wire, saved, received>>
  BY DEF Before, Read, storeVars, app
<1>2. kept \subseteq 1..Len(log) /\ Len(log) \in Nat
  BY DEF Before, Grows
<1>3. Known' /\ Closed' /\ ScopeSteady'
  BY <1>1 DEF StreamInv, Known, Logged, Closed, ScopeSteady
<1>4. \A k : SeenWith(k)' = SeenWith(k)
  BY <1>1 DEF SeenWith
<1>5. AtSaved' /\ OnWire' /\ AtCursor'
  BY <1>1, <1>4 DEF StreamInv, AtSaved, OnWire, AtCursor, UpTo
<1>6. InBatch'
  <2> SUFFICES ASSUME NEW b \in batch', NEW s \in kept, s < b, log[s].profile \in Steady,
                      log[s].id \notin SeenWith(Len(wire))
               PROVE  s \in batch'
    BY <1>1, <1>4 DEF InBatch, BatchBefore
  <2> DEFINE follow == Following(cursor, scope)
             Count(t) == Cardinality({u \in follow : u < t})
  <2>1. b \in follow /\ Count(b) < BatchLimit
    BY <1>1 DEF ReadAfter, FirstOf
  <2>2. follow \in SUBSET (1..Len(log)) /\ follow \in SUBSET Nat /\ IsFiniteSet(follow)
    <3>1. follow \in SUBSET (1..Len(log))
      BY <1>2 DEF Following
    <3>2. IsFiniteSet(1..Len(log))
      BY <1>2, FS_Interval
    <3> HIDE DEF follow
    <3>3. follow \in SUBSET Nat
      BY <1>2, <3>1
    <3> QED
      BY <3>1, <3>2, <3>3, FS_Subset
  <2>3. Steady \subseteq scope
    BY <1>1 DEF StreamInv, ScopeSteady
  <2>4. s > Position(cursor)
    <3>1. CASE \E t \in kept : log[t].id = cursor
      <4>1. Position(cursor) \in kept /\ log[Position(cursor)].id = cursor
        BY <3>1 DEF Position
      <4>2. UpTo(cursor, SeenWith(Len(wire)))
        BY <1>1 DEF StreamInv, AtCursor
      <4>3. ~ (s <= Position(cursor))
        BY <4>1, <4>2 DEF UpTo
      <4>4. s \in Nat /\ Position(cursor) \in Nat
        <5>1. kept \subseteq Nat
          BY <1>2
        <5> QED
          BY <4>1, <5>1
      <4> QED
        BY <4>3, <4>4
    <3>2. CASE ~ \E t \in kept : log[t].id = cursor
      <4>1. Position(cursor) = 0
        BY <3>2 DEF Position
      <4> QED
        BY <1>2, <4>1
    <3> QED
      BY <3>1, <3>2
  <2>5. s \in follow
    BY <2>3, <2>4 DEF Following
  <2> HIDE DEF follow
  <2>6. Count(s) <= Count(b) /\ Count(s) \in Nat /\ Count(b) \in Nat
    <3> DEFINE few == {u \in follow : u < s}
               more == {u \in follow : u < b}
    <3>1. few \in SUBSET more /\ few \in SUBSET follow /\ more \in SUBSET follow
      <4>1. s \in Nat /\ b \in Nat
        BY <2>1, <2>2, <2>5
      <4>2. \A u \in Nat : u < s => u < b
        BY <4>1
      <4> QED
        BY <2>2, <4>2
    <3>2. IsFiniteSet(few) /\ IsFiniteSet(more)
      BY <2>2, <3>1, FS_Subset
    <3> HIDE DEF few, more
    <3>3. Cardinality(few) <= Cardinality(more)
          /\ Cardinality(few) \in Nat /\ Cardinality(more) \in Nat
      BY <3>1, <3>2, FS_Subset, FS_CardinalityType
    <3> QED
      BY <3>3 DEF few, more
  <2>7. Count(s) < BatchLimit
    BY <2>1, <2>6, DirectStreamAssumption
  <2> QED
    BY <1>1, <2>5, <2>7 DEF ReadAfter, FirstOf, follow
<1> QED
  BY <1>3, <1>5, <1>6, Together

\* Writing an event: what came before it in the batch is on the wire already.
LEMMA Writes ==
  ASSUME Before, NEW s \in batch, WriteNext(s)
  PROVE  StreamInv'
<1> DEFINE id == log[s].id
<1>1. /\ StreamInv /\ wire \in Seq(Ids) /\ Len(wire) \in Nat
      /\ conn # "closed"
      /\ wire' = Append(wire, id) /\ cursor' = id /\ batch' = batch \ {s}
      /\ \A u \in batch : s <= u
      /\ UNCHANGED <<log, kept, visible, conn, scope, saved, received>>
  BY DEF Before, StreamInv, Typed, StreamTypeOK, WriteNext, WriteOne, storeVars, app
<1>2. /\ s \in 1..Len(log) /\ batch \subseteq 1..Len(log) /\ kept \subseteq 1..Len(log)
      /\ Len(log) \in Nat
  BY DEF Before, StreamInv, Typed, StreamTypeOK, Grows
<1>3. /\ Len(wire') = Len(wire) + 1
      /\ \A k \in 1..Len(wire) : wire'[k] = wire[k]
      /\ wire'[Len(wire')] = id
  BY <1>1
<1>4. \A k \in 1..Len(wire) : SeenWith(k)' = SeenWith(k)
  <2> SUFFICES ASSUME NEW k \in 1..Len(wire) PROVE SeenWith(k)' = SeenWith(k)
    OBVIOUS
  <2>1. \A j \in 1..k : j \in 1..Len(wire)
    BY <1>1
  <2> QED
    BY <1>1, <1>3, <2>1 DEF SeenWith
<1>5. SeenWith(Len(wire))' = SeenWith(Len(wire)) \cup {id}
  <2>1. 1..Len(wire') = 1..Len(wire) \cup {Len(wire')}
    BY <1>1, <1>3
  <2> QED
    BY <1>1, <1>3, <2>1 DEF SeenWith
<1>6. UpTo(id, SeenWith(Len(wire)) \cup {id})
  <2> SUFFICES ASSUME NEW t \in kept, log[t].id = id,
                      NEW u \in kept, u <= t, log[u].profile \in Steady,
                      u # t
               PROVE  log[u].id \in SeenWith(Len(wire))
    BY DEF UpTo
  <2>1. t = s
    BY <1>1, <1>2 DEF StreamInv, IdsAreFresh
  <2>2. u < s
    BY <1>2, <2>1
  <2>3. BatchBefore(s) = {}
    <3>1. \A v \in batch : ~ (v < s)
      BY <1>1, <1>2
    <3> QED
      BY <3>1 DEF BatchBefore
  <2> QED
    BY <1>1, <2>2, <2>3 DEF StreamInv, InBatch
<1>7. Known'
  <2>1. Logged(id)
    BY <1>2 DEF Logged
  <2>2. \A k \in 1..Len(wire') : Logged(wire'[k])
    <3>1. \A k \in 1..Len(wire') : k \in 1..Len(wire) \/ k = Len(wire')
      BY <1>1, <1>3
    <3> QED
      BY <1>1, <1>3, <2>1, <3>1 DEF StreamInv, Known
  <2> QED
    BY <1>1, <2>1, <2>2 DEF StreamInv, Known, Logged
<1>8. Closed' /\ ScopeSteady' /\ AtSaved'
  BY <1>1 DEF StreamInv, Closed, ScopeSteady, AtSaved, UpTo
<1>9. OnWire'
  <2> SUFFICES ASSUME NEW k \in 1..Len(wire') PROVE UpTo(wire[k], SeenWith(k))'
    BY DEF OnWire
  <2>1. CASE k \in 1..Len(wire)
    <3>1. UpTo(wire[k], SeenWith(k))
      BY <1>1, <2>1 DEF StreamInv, OnWire
    <3> QED
      BY <1>1, <1>3, <1>4, <2>1, <3>1 DEF UpTo
  <2>2. CASE k = Len(wire')
    BY <1>1, <1>3, <1>5, <1>6, <2>2 DEF UpTo
  <2> QED
    BY <1>1, <1>3, <2>1, <2>2
<1>10. AtCursor'
  BY <1>1, <1>5, <1>6 DEF AtCursor, UpTo
<1>11. InBatch'
  <2> SUFFICES ASSUME NEW b \in batch \ {s}, NEW u \in kept, u < b, log[u].profile \in Steady
               PROVE  log[u].id \in SeenWith(Len(wire)) \cup {id} \cup BatchBefore(b)'
    BY <1>1, <1>5 DEF InBatch
  <2>1. log[u].id \in SeenWith(Len(wire)) \cup BatchBefore(b)
    BY <1>1 DEF StreamInv, InBatch
  <2>2. BatchBefore(b) \subseteq {id} \cup BatchBefore(b)'
    BY <1>1 DEF BatchBefore
  <2> QED
    BY <2>1, <2>2
<1> QED
  BY <1>7, <1>8, <1>9, <1>10, <1>11, Together

\* The App takes an event from the wire: what was before it is seen.
LEMMA Receives ==
  ASSUME Before, Receive
  PROVE  StreamInv'
<1>1. /\ StreamInv /\ wire \in Seq(Ids) /\ Len(wire) \in Nat /\ wire # <<>>
      /\ wire' = Tail(wire) /\ saved' = wire[1] /\ received' = received \cup {wire[1]}
      /\ UNCHANGED <<log, kept, visible, conn, scope, cursor, batch>>
  BY DEF Before, StreamInv, Typed, StreamTypeOK, Receive, storeVars, server
<1>2. /\ Len(wire) \in Nat \ {0} /\ Len(wire') = Len(wire) - 1
      /\ \A k \in 1..Len(wire') : wire'[k] = wire[k + 1] /\ k + 1 \in 1..Len(wire)
  BY <1>1
<1>3. \A k \in 0..Len(wire') : SeenWith(k + 1) \subseteq SeenWith(k)'
  <2> SUFFICES ASSUME NEW k \in 0..Len(wire')
               PROVE  SeenWith(k + 1) \subseteq SeenWith(k)'
    OBVIOUS
  <2>0. received \subseteq SeenWith(k)'
    BY <1>1 DEF SeenWith
  <2> SUFFICES ASSUME NEW j \in 1..(k + 1)
               PROVE  wire[j] \in SeenWith(k)'
    BY <2>0 DEF SeenWith
  <2>1. CASE j = 1
    BY <1>1, <2>1 DEF SeenWith
  <2>2. CASE j # 1
    <3>1. j - 1 \in 1..k /\ j - 1 \in 1..Len(wire') /\ (j - 1) + 1 = j
      BY <1>2, <2>2
    <3>2. wire'[j - 1] = wire[j]
      BY <1>2, <3>1
    <3> QED
      BY <3>1, <3>2 DEF SeenWith
  <2> QED
    BY <2>1, <2>2
<1>4. Known'
  <2>1. \A k \in 1..Len(wire') : Logged(wire'[k])
    BY <1>1, <1>2 DEF StreamInv, Known
  <2>2. Logged(wire[1])
    BY <1>1, <1>2 DEF StreamInv, Known
  <2> QED
    BY <1>1, <2>1, <2>2 DEF StreamInv, Known, Logged
<1>5. Closed' /\ ScopeSteady'
  BY <1>1 DEF StreamInv, Closed, ScopeSteady
<1>6. AtSaved'
  <2>1. UpTo(wire[1], SeenWith(1))
    BY <1>1, <1>2 DEF StreamInv, OnWire
  <2>2. SeenWith(1) = received'
    BY <1>1 DEF SeenWith
  <2> QED
    BY <1>1, <2>1, <2>2 DEF AtSaved, UpTo
<1>7. OnWire'
  <2> SUFFICES ASSUME NEW k \in 1..Len(wire') PROVE UpTo(wire[k], SeenWith(k))'
    BY DEF OnWire
  <2>1. UpTo(wire[k + 1], SeenWith(k + 1))
    BY <1>1, <1>2 DEF StreamInv, OnWire
  <2>2. k \in 0..Len(wire') /\ SeenWith(k + 1) \subseteq SeenWith(k)'
    BY <1>2, <1>3
  <2> QED
    BY <1>1, <1>2, <2>1, <2>2 DEF UpTo
<1>8. SeenWith(Len(wire)) \subseteq SeenWith(Len(wire))'
  <2>1. Len(wire') \in 0..Len(wire') /\ Len(wire') + 1 = Len(wire)
    BY <1>2
  <2> QED
    BY <1>3, <2>1
<1>9. AtCursor'
  BY <1>1, <1>8 DEF StreamInv, AtCursor, UpTo
<1>10. InBatch'
  <2>1. \A b : BatchBefore(b)' = BatchBefore(b)
    BY <1>1 DEF BatchBefore
  <2> QED
    BY <1>1, <1>8, <2>1 DEF StreamInv, InBatch
<1> QED
  BY <1>4, <1>5, <1>6, <1>7, <1>9, <1>10, Together

\* The other steps leave everything alone that the invariant speaks of, but
\* for the Profiles that exist and the end of the response.
LEMMA Others ==
  ASSUME Before, Deadline \/ Finish \/ RevokeToken \/ ChangeProfiles
  PROVE  StreamInv'
<1>1. /\ StreamInv
      /\ UNCHANGED <<log, kept, scope, cursor, batch, wire, saved, received>>
      /\ Stable \subseteq visible'
      /\ \/ conn' = conn
         \/ conn # "closed" /\ conn' = "ended" /\ batch = {}
         \/ conn = "ended" /\ conn' = "closed" /\ wire = <<>> /\ batch = {}
  <2>1. StreamInv /\ Stable \subseteq visible /\ (Finish => batch = {})
    BY DEF Before, StreamInv, Closed, ScopeSteady, Finish
  <2> QED
    BY <2>1 DEF Deadline, Finish, RevokeToken, ChangeProfiles, server, app, storeVars
<1>2. \A k : SeenWith(k)' = SeenWith(k) /\ BatchBefore(k)' = BatchBefore(k)
  BY <1>1 DEF SeenWith, BatchBefore
<1>3. Known' /\ Closed' /\ ScopeSteady' /\ AtSaved'
  BY <1>1 DEF StreamInv, Known, Logged, Closed, ScopeSteady, AtSaved, UpTo
<1>4. OnWire' /\ AtCursor' /\ InBatch'
  BY <1>1, <1>2 DEF StreamInv, OnWire, AtCursor, InBatch, UpTo
<1> QED
  BY <1>3, <1>4, Together

-----------------------------------------------------------------------------
(* The theorems about the stream. *)

LEMMA InitStream ==
  ASSUME Init
  PROVE  StreamInv
<1>1. Typed
  BY InitTyped
<1>2. log = <<>> /\ kept = {} /\ conn = "closed" /\ batch = {} /\ wire = <<>>
      /\ cursor = NULL /\ saved = NULL /\ visible = FirstVisible
  BY DEF Init, StoreInit
<1>3. IdsAreFresh /\ Known /\ OnWire
  BY <1>2 DEF IdsAreFresh, Known, OnWire
<1>4. Closed /\ ScopeSteady /\ AtSaved /\ AtCursor /\ InBatch
  BY <1>2, DirectStreamAssumption DEF Closed, ScopeSteady, AtSaved, AtCursor, InBatch, UpTo
<1> QED
  BY <1>1, <1>3, <1>4 DEF StreamInv

LEMMA NextStream ==
  ASSUME StreamInv, [Next]_vars
  PROVE  StreamInv'
<1>1. Before
  <2>1. Typed /\ Typed'
    BY NextTyped DEF StreamInv
  <2>2. [StoreNext]_storeVars
    BY StoreStep
  <2> QED
    BY <2>1, <2>2, FreshIds, TableGrows DEF Before, Typed, StreamInv
<1>2. CASE Open \/ Read \/ Receive
  BY <1>1, <1>2, Opens, Reads, Receives
<1>3. CASE Write
  BY <1>1, <1>3, Writes DEF Write
<1>4. CASE Deadline \/ Finish \/ RevokeToken \/ ChangeProfiles
  BY <1>1, <1>4, Others
<1>5. CASE UNCHANGED streamVars \/ Disconnected
  BY <1>1, <1>5, StoreMoves
<1>6. ASSUME Next
      PROVE  \/ Open \/ Read \/ Receive \/ Write
             \/ Deadline \/ Finish \/ RevokeToken \/ ChangeProfiles
             \/ UNCHANGED streamVars \/ Disconnected
  BY <1>6 DEF Next, Stream, Environment, PublishVisible, Drop
<1> QED
  BY <1>2, <1>3, <1>4, <1>5, <1>6 DEF vars

LEMMA StreamInvariance == Spec => []StreamInv
<1>1. Init => StreamInv
  BY InitStream
<1>2. StreamInv /\ [Next]_vars => StreamInv'
  BY NextStream
<1> QED
  BY <1>1, <1>2, PTL DEF Spec

\* A row that a position is at or behind is not the one before the first.
LEMMA PositionIsKept ==
  ASSUME StoreInv, NEW id, NEW s \in kept, s <= Position(id)
  PROVE  Position(id) \in kept /\ log[Position(id)].id = id
<1>1. s \in Nat /\ s > 0
  BY DEF StoreInv, StoreTypeOK
<1>2. ~ (s <= 0)
  BY <1>1
<1> QED
  BY <1>2 DEF Position

\* The App's cursor passes no retained event of a Profile that is never removed,
\* for any number of chats, connections, restarts and prunes, and of other
\* Profiles that come and go.
THEOREM NothingIsSkipped == Spec => []NoSkip
<1>1. ASSUME StreamInv
      PROVE  NoSkip
  BY <1>1, PositionIsKept DEF NoSkip, StreamInv, AtSaved, UpTo, Typed
<1> QED
  BY StreamInvariance, <1>1, PTL

\* A connection whose poll finds nothing and whose writes have arrived owes the
\* App nothing: what is retained of its steady Profiles was received.
NothingIsOwed ==
  /\ conn # "closed"
  /\ batch = {}
  /\ wire = <<>>
  /\ Following(cursor, scope) = {}
  => \A s \in kept : log[s].profile \in Steady => log[s].id \in received

\* The safety half of SteadyDelivered: the stream is idle only when it is done.
THEOREM QuietStreamIsComplete == Spec => []NothingIsOwed
<1>1. ASSUME StreamInv
      PROVE  NothingIsOwed
  <2> SUFFICES ASSUME conn # "closed", wire = <<>>, Following(cursor, scope) = {},
                      NEW s \in kept, log[s].profile \in Steady
               PROVE  log[s].id \in received
    BY DEF NothingIsOwed
  <2>1. ~ (s > Position(cursor))
    BY <1>1 DEF Following, StreamInv, ScopeSteady
  <2>2. s \in Nat /\ Position(cursor) \in Nat
    <3>1. kept \subseteq Nat
      BY <1>1 DEF StreamInv, Typed, StoreInv, StoreTypeOK
    <3> QED
      BY <3>1 DEF Position
  <2>3. s <= Position(cursor)
    BY <2>1, <2>2
  <2>4. Position(cursor) \in kept /\ log[Position(cursor)].id = cursor
    BY <1>1, <2>3, PositionIsKept DEF StreamInv, Typed
  <2>5. SeenWith(Len(wire)) = received
    BY DEF SeenWith
  <2> QED
    BY <1>1, <2>3, <2>4, <2>5 DEF StreamInv, AtCursor, UpTo
<1> QED
  BY StreamInvariance, <1>1, PTL

-----------------------------------------------------------------------------
(* The store inside the stream.                                            *)

\* The stream, the App and the network do nothing to the store that its own
\* specification does not say: what is proved of the store holds here.
THEOREM StreamRunsTheStore == Spec => StoreSpec
<1>1. Init => StoreInit
  BY DEF Init
<1>2. [Next]_vars => [StoreNext]_storeVars
  BY StoreStep
<1> QED
  BY <1>1, <1>2, PTL DEF Spec, StoreSpec
=============================================================================
