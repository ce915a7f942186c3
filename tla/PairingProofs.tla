---------------------------- MODULE PairingProofs ----------------------------
(***************************************************************************)
(* Proofs about Pairing for any number of tickets, exchanges,              *)
(* authentications and revocations, any clock and any number of crashes.   *)
(*                                                                         *)
(* SingleUse is not inductive: that two exchanges of one code do not both  *)
(* commit rests on the write lock being held from the SELECT to the        *)
(* commit, and on no other step writing a ticket in between.  Inv says     *)
(* just that, and adds what links an exchange to its rows.                 *)
(***************************************************************************)
EXTENDS Pairing, TLAPS

\* Phases in which an exchange has its transaction open.
InTransaction == {"locked", "marked", "inserted"}

\* An open transaction is the owner of the write lock.
LockOwned ==
  \A d \in Exchanges : pc[d] \in InTransaction <=> lock = d

\* What the SELECT of an open transaction found still holds.
CheckedTicket ==
  \A d \in Exchanges : pc[d] \in {"marked", "inserted"} => Refusal(d) = "none"

\* Only a call that has its answer has one to send; a ticket's call has been
\* answered, and an exchange is answered "ok" exactly when its device row is
\* committed.
Answered ==
  /\ \A k \in Calls : reply[k] # NULL => pc[k] \in {"reply", "done", "lost"}
  /\ \A c \in DOMAIN tickets : reply[c] # NULL
  /\ \A d \in Exchanges : d \in DOMAIN devices <=> reply[d] = "ok"
  /\ \A d \in held : d \in Exchanges /\ reply[d] = "ok"
  /\ \A k \in Calls : reply[k] = "ok" => k \in Exchanges

\* A ticket keeps the names that were typed and match the pattern, so dropping
\* the others once more at the exchange changes nothing.
CleanScope ==
  \A c \in DOMAIN tickets :
    /\ tickets[c].scope = Normalize(input.names[c])
    /\ Normalize(tickets[c].scope) = tickets[c].scope

Inv ==
  /\ TypeOK
  /\ CleanScope
  /\ LockOwned
  /\ CheckedTicket
  /\ Answered
  /\ SingleUse
  /\ TicketMatchesDevice
-----------------------------------------------------------------------------
(* Types. *)

LEMMA InitType == Init => TypeOK
  BY PairingAssumption DEF Init, TypeOK, Calls, Phase, Answer

\* Every step writes values of the right type.
LEMMA NextType == Inv /\ [Next]_vars => TypeOK'
<1> SUFFICES ASSUME Inv, [Next]_vars PROVE TypeOK'
  OBVIOUS
<1>0. TypeOK /\ CheckedTicket /\ Answered
  BY DEF Inv
<1> USE <1>0
<1> USE PairingAssumption
<1>1. ASSUME NEW c \in Issues, StartIssue(c) PROVE TypeOK'
  BY <1>1 DEF StartIssue, Start, Goto, TypeOK, Calls, Phase, db
<1>2. ASSUME NEW d \in Exchanges, StartExchange(d) PROVE TypeOK'
  BY <1>2 DEF StartExchange, Start, Goto, TypeOK, Calls, Phase, db
<1>3. ASSUME NEW a \in Auths, StartAuth(a) PROVE TypeOK'
  BY <1>3 DEF StartAuth, Start, Goto, TypeOK, Calls, Phase, db
<1>4. ASSUME NEW r \in Revokes, StartRevoke(r) PROVE TypeOK'
  BY <1>4 DEF StartRevoke, Start, Goto, TypeOK, Calls, Phase, db
<1>5. ASSUME NEW c \in Issues, CommitIssue(c) PROVE TypeOK'
  <2> DEFINE row == [expires |-> now[c] + input.ttl[c],
                     scope |-> Normalize(input.names[c]), used |-> NULL]
  <2>1. row \in Ticket
    BY DEF Ticket, TypeOK, Input, Normalize, Calls
  <2>2. DOMAIN tickets' \subseteq Issues /\ tickets' \in [DOMAIN tickets' -> Ticket]
    BY <1>5, <2>1 DEF CommitIssue, TypeOK, Put
  <2>3. QED
    BY <1>5, <2>2 DEF CommitIssue, Answering, Goto, TypeOK, Calls, Phase, Answer
<1>6. ASSUME NEW d \in Exchanges, BeginExchange(d) PROVE TypeOK'
  BY <1>6 DEF BeginExchange, Goto, TypeOK, Calls, Phase, db
<1>7. ASSUME NEW d \in Exchanges, RefuseExchange(d) PROVE TypeOK'
  BY <1>7 DEF RefuseExchange, Refuse, Answering, Goto, TypeOK, Calls, Phase, Answer, db
<1>8. ASSUME NEW d \in Exchanges, MarkUsed(d) PROVE TypeOK'
  BY <1>8 DEF MarkUsed, Goto, TypeOK, Calls, Phase, db
<1>9. ASSUME NEW d \in Exchanges, InsertDevice(d) PROVE TypeOK'
  BY <1>9 DEF InsertDevice, Goto, TypeOK, Calls, Phase, db
<1>10. ASSUME NEW d \in Exchanges, CommitExchange(d) PROVE TypeOK'
  <2> DEFINE row == [scope |-> Normalize(tickets[CodeOf(d)].scope),
                     created |-> now[d], lastUsed |-> now[d], revoked |-> NULL]
  <2>0. CodeOf(d) \in DOMAIN tickets
    BY <1>10 DEF CommitExchange, CommitRows, CheckedTicket, Refusal
  <2>1. now[d] \in Nat /\ tickets[CodeOf(d)] \in Ticket
    BY <2>0 DEF TypeOK, Calls
  <2>2. row \in Device
    BY <2>1 DEF Device, Ticket, Normalize
  <2>3. DOMAIN devices' \subseteq Exchanges /\ devices' \in [DOMAIN devices' -> Device]
    BY <1>10, <2>2 DEF CommitExchange, CommitRows, TypeOK, Put
  <2>4. DOMAIN tickets' \subseteq Issues /\ tickets' \in [DOMAIN tickets' -> Ticket]
    BY <1>10, <2>1 DEF CommitExchange, CommitRows, TypeOK, Ticket
  <2>5. QED
    BY <1>10, <2>3, <2>4
       DEF CommitExchange, CommitRows, Answering, Goto, TypeOK, Calls, Phase, Answer
<1>11. ASSUME NEW a \in Auths, SelectDevice(a) PROVE TypeOK'
  BY <1>11 DEF SelectDevice, Select, Answering, Goto, TypeOK, Calls, Phase, Answer, db
<1>12. ASSUME NEW a \in Auths, TouchDevice(a) PROVE TypeOK'
  <2>1. now[a] \in Nat
    BY DEF TypeOK, Calls
  <2>2. \A d \in DOMAIN devices : [devices[d] EXCEPT !.lastUsed = now[a]] \in Device
    BY <2>1 DEF TypeOK, Device
  <2>3. devices' \in [DOMAIN devices -> Device] /\ DOMAIN devices' = DOMAIN devices
    BY <1>12, <2>2 DEF TouchDevice, Touch, TypeOK
  <2>4. QED
    BY <1>12, <2>3 DEF TouchDevice, Touch, Answering, Goto, TypeOK, Calls, Phase, Answer
<1>13. ASSUME NEW r \in Revokes, CommitRevoke(r) PROVE TypeOK'
  <2>1. devices' \in [DOMAIN devices -> Device] /\ DOMAIN devices' = DOMAIN devices
    BY <1>13 DEF CommitRevoke, Revoke, TypeOK, Device, Calls
  <2>2. QED
    BY <1>13, <2>1 DEF CommitRevoke, Revoke, Answering, Goto, TypeOK, Calls, Phase, Answer
<1>14. ASSUME NEW k \in Calls, BusyTimeout(k) \/ StoreFails(k) PROVE TypeOK'
  BY <1>14 DEF BusyTimeout, StoreFails, EndByError, Answering, Goto, TypeOK, Calls, Phase,
               Answer, db
<1>15. ASSUME NEW k \in Calls, Deliver(k) PROVE TypeOK'
  BY <1>15 DEF Deliver, Goto, TypeOK, Calls, Phase, db, Answered
<1>16. ASSUME NEW k \in Calls, LoseReply(k) PROVE TypeOK'
  BY <1>16 DEF LoseReply, Goto, TypeOK, Calls, Phase, db
<1>17. CASE Tick
  BY <1>17 DEF Tick, TypeOK, db
<1>18. CASE Crash
  BY <1>18 DEF Crash, TypeOK, Phase, db
<1>19. CASE UNCHANGED vars
  BY <1>19 DEF vars, TypeOK
<1>20. QED
  BY <1>1, <1>2, <1>3, <1>4, <1>5, <1>6, <1>7, <1>8, <1>9, <1>10, <1>11, <1>12,
     <1>13, <1>14, <1>15, <1>16, <1>17, <1>18, <1>19
     DEF Next, Arrive, Serve, IssueStep, ExchangeStep, AuthStep, RevokeStep

-----------------------------------------------------------------------------
(* The lock and the open transaction. *)

\* Only BEGIN IMMEDIATE opens a transaction, it waits for the lock to be free,
\* and whatever ends the transaction frees the lock.
LEMMA NextLockOwned == Inv /\ [Next]_vars => LockOwned'
<1> SUFFICES ASSUME Inv, [Next]_vars PROVE LockOwned'
  OBVIOUS
<1>0. TypeOK /\ LockOwned
  BY DEF Inv
<1> USE <1>0, PairingAssumption DEF InTransaction, LockOwned, TypeOK, Calls
<1>1. ASSUME NEW c \in Issues, StartIssue(c) PROVE LockOwned'
  BY <1>1 DEF StartIssue, Start, Goto
<1>2. ASSUME NEW d \in Exchanges, StartExchange(d) PROVE LockOwned'
  BY <1>2 DEF StartExchange, Start, Goto
<1>3. ASSUME NEW a \in Auths, StartAuth(a) PROVE LockOwned'
  BY <1>3 DEF StartAuth, Start, Goto
<1>4. ASSUME NEW r \in Revokes, StartRevoke(r) PROVE LockOwned'
  BY <1>4 DEF StartRevoke, Start, Goto
<1>5. ASSUME NEW c \in Issues, CommitIssue(c) PROVE LockOwned'
  BY <1>5 DEF CommitIssue, Answering, Goto
<1>6. ASSUME NEW d \in Exchanges, BeginExchange(d) PROVE LockOwned'
  BY <1>6 DEF BeginExchange, Goto
<1>7. ASSUME NEW d \in Exchanges, RefuseExchange(d) PROVE LockOwned'
  BY <1>7 DEF RefuseExchange, Refuse, Answering, Goto
<1>8. ASSUME NEW d \in Exchanges, MarkUsed(d) PROVE LockOwned'
  BY <1>8 DEF MarkUsed, Goto
<1>9. ASSUME NEW d \in Exchanges, InsertDevice(d) PROVE LockOwned'
  BY <1>9 DEF InsertDevice, Goto
<1>10. ASSUME NEW d \in Exchanges, CommitExchange(d) PROVE LockOwned'
  BY <1>10 DEF CommitExchange, CommitRows, Answering, Goto
<1>11. ASSUME NEW a \in Auths, SelectDevice(a) PROVE LockOwned'
  BY <1>11 DEF SelectDevice, Select, Answering, Goto
<1>12. ASSUME NEW a \in Auths, TouchDevice(a) PROVE LockOwned'
  BY <1>12 DEF TouchDevice, Touch, Answering, Goto
<1>13. ASSUME NEW r \in Revokes, CommitRevoke(r) PROVE LockOwned'
  BY <1>13 DEF CommitRevoke, Revoke, Answering, Goto
<1>14. ASSUME NEW k \in Calls, BusyTimeout(k) PROVE LockOwned'
  BY <1>14 DEF BusyTimeout, EndByError, Answering, Goto
<1>e. ASSUME NEW k \in Calls, StoreFails(k) PROVE LockOwned'
  BY <1>e DEF StoreFails, EndByError, Answering, Goto
<1>15. ASSUME NEW k \in Calls, Deliver(k) PROVE LockOwned'
  BY <1>15 DEF Deliver, Goto
<1>16. ASSUME NEW k \in Calls, LoseReply(k) PROVE LockOwned'
  BY <1>16 DEF LoseReply, Goto
<1>17. CASE Tick
  BY <1>17 DEF Tick
<1>18. CASE Crash
  BY <1>18 DEF Crash, Running
<1>19. CASE UNCHANGED vars
  BY <1>19 DEF vars
<1>20. QED
  BY <1>1, <1>2, <1>3, <1>4, <1>5, <1>6, <1>7, <1>8, <1>9, <1>10, <1>11, <1>12,
     <1>13, <1>14, <1>e, <1>15, <1>16, <1>17, <1>18, <1>19
     DEF Next, Arrive, Serve, IssueStep, ExchangeStep, AuthStep, RevokeStep

\* Until the transaction ends no other connection writes, so what it has
\* checked stays true; ticks do not matter, its time was sampled at arrival.
LEMMA NextCheckedTicket == Inv /\ [Next]_vars => CheckedTicket'
<1> SUFFICES ASSUME Inv, [Next]_vars, NEW e \in Exchanges,
                    pc'[e] \in {"marked", "inserted"}
             PROVE  Refusal(e)' = "none"
  BY DEF CheckedTicket
<1>0. TypeOK /\ LockOwned /\ CheckedTicket
  BY DEF Inv
<1> USE <1>0, PairingAssumption
    DEF InTransaction, LockOwned, CheckedTicket, TypeOK, Calls, Refusal, CodeOf
<1>1. ASSUME NEW c \in Issues, StartIssue(c) PROVE Refusal(e)' = "none"
  BY <1>1 DEF StartIssue, Start, Goto, db
<1>2. ASSUME NEW d \in Exchanges, StartExchange(d) PROVE Refusal(e)' = "none"
  BY <1>2 DEF StartExchange, Start, Goto, db
<1>3. ASSUME NEW a \in Auths, StartAuth(a) PROVE Refusal(e)' = "none"
  BY <1>3 DEF StartAuth, Start, Goto, db
<1>4. ASSUME NEW r \in Revokes, StartRevoke(r) PROVE Refusal(e)' = "none"
  BY <1>4 DEF StartRevoke, Start, Goto, db
<1>5. ASSUME NEW c \in Issues, CommitIssue(c) PROVE Refusal(e)' = "none"
  <2>1. pc[e] \in {"marked", "inserted"} /\ lock = NULL
    BY <1>5 DEF CommitIssue, Answering, Goto
  <2>2. QED
    BY <2>1
<1>6. ASSUME NEW d \in Exchanges, BeginExchange(d) PROVE Refusal(e)' = "none"
  BY <1>6 DEF BeginExchange, Goto, db
<1>7. ASSUME NEW d \in Exchanges, RefuseExchange(d) PROVE Refusal(e)' = "none"
  BY <1>7 DEF RefuseExchange, Refuse, Answering, Goto, db
<1>8. ASSUME NEW d \in Exchanges, MarkUsed(d) PROVE Refusal(e)' = "none"
  BY <1>8 DEF MarkUsed, Goto, db
<1>9. ASSUME NEW d \in Exchanges, InsertDevice(d) PROVE Refusal(e)' = "none"
  BY <1>9 DEF InsertDevice, Goto, db
<1>10. ASSUME NEW d \in Exchanges, CommitExchange(d) PROVE Refusal(e)' = "none"
  <2>1. pc[e] \in {"marked", "inserted"} /\ e # d /\ pc[d] = "inserted"
    BY <1>10 DEF CommitExchange, CommitRows, Answering, Goto
  <2>2. QED
    BY <2>1
<1>11. ASSUME NEW a \in Auths, SelectDevice(a) PROVE Refusal(e)' = "none"
  BY <1>11 DEF SelectDevice, Select, Answering, Goto, db
<1>12. ASSUME NEW a \in Auths, TouchDevice(a) PROVE Refusal(e)' = "none"
  BY <1>12 DEF TouchDevice, Touch, Answering, Goto
<1>13. ASSUME NEW r \in Revokes, CommitRevoke(r) PROVE Refusal(e)' = "none"
  BY <1>13 DEF CommitRevoke, Revoke, Answering, Goto
<1>14. ASSUME NEW k \in Calls, BusyTimeout(k) \/ StoreFails(k) PROVE Refusal(e)' = "none"
  BY <1>14 DEF BusyTimeout, StoreFails, EndByError, Answering, Goto, db
<1>15. ASSUME NEW k \in Calls, Deliver(k) PROVE Refusal(e)' = "none"
  BY <1>15 DEF Deliver, Goto, db
<1>16. ASSUME NEW k \in Calls, LoseReply(k) PROVE Refusal(e)' = "none"
  BY <1>16 DEF LoseReply, Goto, db
<1>17. CASE Tick
  BY <1>17 DEF Tick, db
<1>18. CASE Crash
  BY <1>18 DEF Crash, Running, db
<1>19. CASE UNCHANGED vars
  BY <1>19 DEF vars
<1>20. QED
  BY <1>1, <1>2, <1>3, <1>4, <1>5, <1>6, <1>7, <1>8, <1>9, <1>10, <1>11, <1>12,
     <1>13, <1>14, <1>15, <1>16, <1>17, <1>18, <1>19
     DEF Next, Arrive, Serve, IssueStep, ExchangeStep, AuthStep, RevokeStep

-----------------------------------------------------------------------------
(* Answers and rows. *)

\* An exchange commits its device and answers "ok" in the same step, and no
\* call is answered twice.
LEMMA NextAnswered == Inv /\ [Next]_vars => Answered'
<1> SUFFICES ASSUME Inv, [Next]_vars PROVE Answered'
  OBVIOUS
<1>0. TypeOK /\ Answered
  BY DEF Inv
<1> USE <1>0, PairingAssumption DEF Answered, TypeOK, Calls, Answer
<1>1. ASSUME NEW c \in Issues, StartIssue(c) PROVE Answered'
  BY <1>1 DEF StartIssue, Start, Goto, db
<1>2. ASSUME NEW d \in Exchanges, StartExchange(d) PROVE Answered'
  BY <1>2 DEF StartExchange, Start, Goto, db
<1>3. ASSUME NEW a \in Auths, StartAuth(a) PROVE Answered'
  BY <1>3 DEF StartAuth, Start, Goto, db
<1>4. ASSUME NEW r \in Revokes, StartRevoke(r) PROVE Answered'
  BY <1>4 DEF StartRevoke, Start, Goto, db
<1>5. ASSUME NEW c \in Issues, CommitIssue(c) PROVE Answered'
  <2>1. DOMAIN tickets' = DOMAIN tickets \cup {c}
    BY <1>5 DEF CommitIssue, Put
  <2>2. QED
    BY <1>5, <2>1 DEF CommitIssue, Answering, Goto
<1>6. ASSUME NEW d \in Exchanges, BeginExchange(d) PROVE Answered'
  BY <1>6 DEF BeginExchange, Goto, db
<1>7. ASSUME NEW d \in Exchanges, RefuseExchange(d) PROVE Answered'
  BY <1>7 DEF RefuseExchange, Refuse, Answering, Goto, db
<1>8. ASSUME NEW d \in Exchanges, MarkUsed(d) PROVE Answered'
  BY <1>8 DEF MarkUsed, Goto, db
<1>9. ASSUME NEW d \in Exchanges, InsertDevice(d) PROVE Answered'
  BY <1>9 DEF InsertDevice, Goto, db
<1>10. ASSUME NEW d \in Exchanges, CommitExchange(d) PROVE Answered'
  <2>1. DOMAIN devices' = DOMAIN devices \cup {d} /\ DOMAIN tickets' = DOMAIN tickets
    BY <1>10 DEF CommitExchange, CommitRows, Put
  <2>2. QED
    BY <1>10, <2>1 DEF CommitExchange, CommitRows, Answering, Goto
<1>11. ASSUME NEW a \in Auths, SelectDevice(a) PROVE Answered'
  BY <1>11 DEF SelectDevice, Select, Answering, Goto, db
<1>12. ASSUME NEW a \in Auths, TouchDevice(a) PROVE Answered'
  <2>1. DOMAIN devices' = DOMAIN devices
    BY <1>12 DEF TouchDevice, Touch
  <2>2. QED
    BY <1>12, <2>1 DEF TouchDevice, Touch, Answering, Goto
<1>13. ASSUME NEW r \in Revokes, CommitRevoke(r) PROVE Answered'
  <2>1. DOMAIN devices' = DOMAIN devices
    BY <1>13 DEF CommitRevoke, Revoke
  <2>2. QED
    BY <1>13, <2>1 DEF CommitRevoke, Revoke, Answering, Goto
<1>14. ASSUME NEW k \in Calls, BusyTimeout(k) \/ StoreFails(k) PROVE Answered'
  BY <1>14 DEF BusyTimeout, StoreFails, EndByError, Answering, Goto, db
<1>15. ASSUME NEW k \in Calls, Deliver(k) PROVE Answered'
  BY <1>15 DEF Deliver, Goto, db
<1>16. ASSUME NEW k \in Calls, LoseReply(k) PROVE Answered'
  BY <1>16 DEF LoseReply, Goto, db
<1>17. CASE Tick
  BY <1>17 DEF Tick, db
<1>18. CASE Crash
  BY <1>18 DEF Crash, Running, db
<1>19. CASE UNCHANGED vars
  BY <1>19 DEF vars
<1>20. QED
  BY <1>1, <1>2, <1>3, <1>4, <1>5, <1>6, <1>7, <1>8, <1>9, <1>10, <1>11, <1>12,
     <1>13, <1>14, <1>15, <1>16, <1>17, <1>18, <1>19
     DEF Next, Arrive, Serve, IssueStep, ExchangeStep, AuthStep, RevokeStep

\* Steps that leave both tables alone.
Silent == UNCHANGED <<input, tickets, devices>>

\* Four steps write the tables; the others are silent.
LEMMA Writers ==
  ASSUME [Next]_vars
  PROVE  \/ Silent
         \/ \E c \in Issues : CommitIssue(c)
         \/ \E d \in Exchanges : CommitExchange(d)
         \/ \E a \in Auths : TouchDevice(a)
         \/ \E r \in Revokes : CommitRevoke(r)
<1> USE DEF Silent, db
<1>1. ASSUME Arrive PROVE Silent
  BY <1>1 DEF Arrive, StartIssue, StartExchange, StartAuth, StartRevoke, Start
<1>2. ASSUME NEW d \in Exchanges, ExchangeStep(d), ~CommitExchange(d) PROVE Silent
  BY <1>2 DEF ExchangeStep, BeginExchange, RefuseExchange, Refuse, MarkUsed, InsertDevice
<1>3. ASSUME NEW a \in Auths, SelectDevice(a) PROVE Silent
  BY <1>3 DEF SelectDevice, Select
<1>4. ASSUME NEW k \in Calls,
             BusyTimeout(k) \/ StoreFails(k) \/ Deliver(k) \/ LoseReply(k)
      PROVE  Silent
  BY <1>4 DEF BusyTimeout, StoreFails, EndByError, Deliver, LoseReply
<1>5. CASE Tick \/ Crash \/ UNCHANGED vars
  BY <1>5 DEF Tick, Crash, vars
<1>6. QED
  BY <1>1, <1>2, <1>3, <1>4, <1>5 DEF Next, Serve, IssueStep, AuthStep, RevokeStep

\* The rows keep their relation: a commit writes ticket and device together,
\* and no other step touches what the relation is about.
LEMMA NextRows ==
  Inv /\ [Next]_vars => CleanScope' /\ SingleUse' /\ TicketMatchesDevice'
<1> SUFFICES ASSUME Inv, [Next]_vars
             PROVE  CleanScope' /\ SingleUse' /\ TicketMatchesDevice'
  OBVIOUS
<1>0. TypeOK /\ LockOwned /\ CheckedTicket /\ Answered /\ CleanScope
        /\ SingleUse /\ TicketMatchesDevice
  BY DEF Inv
<1> USE <1>0, PairingAssumption
<1>1. CASE Silent
  BY <1>1 DEF Silent, CleanScope, SingleUse, TicketMatchesDevice, CodeOf
<1>2. ASSUME NEW c \in Issues, CommitIssue(c)
      PROVE  CleanScope' /\ SingleUse' /\ TicketMatchesDevice'
  <2> DEFINE row == [expires |-> now[c] + input.ttl[c],
                     scope |-> Normalize(input.names[c]), used |-> NULL]
  <2>1. /\ DOMAIN tickets' = DOMAIN tickets \cup {c}
        /\ tickets'[c] = row
        /\ \A x \in DOMAIN tickets \ {c} : tickets'[x] = tickets[x]
        /\ UNCHANGED <<input, devices>>
    BY <1>2 DEF CommitIssue, Put
  <2>2. CleanScope' /\ SingleUse'
    BY <2>1 DEF CleanScope, SingleUse, Normalize, CodeOf
  <2>3. c \notin DOMAIN tickets
    BY <1>2 DEF CommitIssue, Answered, Calls
  <2>4. TicketMatchesDevice'
    BY <2>1, <2>3 DEF TicketMatchesDevice, CodeOf
  <2>5. QED
    BY <2>2, <2>4
<1>3. ASSUME NEW d \in Exchanges, CommitExchange(d)
      PROVE  CleanScope' /\ SingleUse' /\ TicketMatchesDevice'
  <2> DEFINE c == CodeOf(d)
             row == [scope |-> Normalize(tickets[c].scope),
                     created |-> now[d], lastUsed |-> now[d], revoked |-> NULL]
  <2>1. /\ pc[d] = "inserted"
        /\ input' = input
        /\ tickets' = [tickets EXCEPT ![c].used = now[d]]
        /\ DOMAIN devices' = DOMAIN devices \cup {d}
        /\ devices'[d] = row
        /\ \A x \in DOMAIN devices \ {d} : devices'[x] = devices[x]
    BY <1>3 DEF CommitExchange, CommitRows, Put
  <2>2. c \in DOMAIN tickets /\ tickets[c].used = NULL /\ ~(tickets[c].expires <= now[d])
    BY <2>1 DEF CheckedTicket, Refusal
  <2>3. now[d] \in Nat /\ tickets[c] \in Ticket /\ now[d] # NULL
    BY <2>2 DEF TypeOK, Calls
  <2>4. \A x \in DOMAIN devices : CodeOf(x) # c
    \* A device of this code would have its ticket marked used.
    <3> SUFFICES ASSUME NEW x \in DOMAIN devices, CodeOf(x) = c PROVE FALSE
      OBVIOUS
    <3>1. devices[x].created = NULL
      BY <2>2 DEF TicketMatchesDevice
    <3>2. devices[x].created \in Nat
      BY DEF TypeOK, Device
    <3>3. QED
      BY <3>1, <3>2
  <2>5. /\ DOMAIN tickets' = DOMAIN tickets
        /\ tickets'[c] = [tickets[c] EXCEPT !.used = now[d]]
        /\ \A x \in DOMAIN tickets \ {c} : tickets'[x] = tickets[x]
    BY <2>1, <2>2
  <2>6. /\ tickets'[c].used = now[d]
        /\ tickets'[c].scope = tickets[c].scope
        /\ tickets'[c].expires = tickets[c].expires
        /\ now[d] < tickets[c].expires
    BY <2>2, <2>3, <2>5 DEF Ticket
  <2>7. CleanScope'
    BY <2>1, <2>5, <2>6, <2>2 DEF CleanScope, Normalize
  <2>8. SingleUse'
    BY <2>1, <2>4 DEF SingleUse, CodeOf
  <2>9. d \notin DOMAIN devices
    BY <2>1 DEF Answered, Calls, Answer
  <2>10. row.scope = tickets[c].scope /\ row.created = now[d]
    BY <2>2 DEF CleanScope
  <2>11. TicketMatchesDevice'
    <3>1. ASSUME NEW x \in DOMAIN devices
          PROVE  /\ CodeOf(x)' \in DOMAIN tickets'
                 /\ tickets'[CodeOf(x)'].used = devices'[x].created
                 /\ tickets'[CodeOf(x)'].used < tickets'[CodeOf(x)'].expires
                 /\ tickets'[CodeOf(x)'].scope = devices'[x].scope
      BY <2>1, <2>4, <2>5, <2>9 DEF TicketMatchesDevice, CodeOf
    <3>2. /\ CodeOf(d)' = c
          /\ c \in DOMAIN tickets'
          /\ tickets'[c].used = devices'[d].created
          /\ tickets'[c].used < tickets'[c].expires
          /\ tickets'[c].scope = devices'[d].scope
      BY <2>1, <2>2, <2>5, <2>6, <2>10 DEF CodeOf
    <3>3. ASSUME NEW x \in DOMAIN tickets', tickets'[x].used # NULL
          PROVE  \E e \in DOMAIN devices' : CodeOf(e)' = x
      <4>1. CASE x = c
        BY <2>1, <4>1 DEF CodeOf
      <4>2. CASE x # c
        BY <2>1, <2>5, <3>3, <4>2 DEF TicketMatchesDevice, CodeOf
      <4>3. QED
        BY <4>1, <4>2
    <3>4. QED
      BY <2>1, <3>1, <3>2, <3>3 DEF TicketMatchesDevice, CodeOf
  <2>12. QED
    BY <2>7, <2>8, <2>11
<1>4. ASSUME UNCHANGED <<input, tickets>>, DOMAIN devices' = DOMAIN devices,
             \A d \in DOMAIN devices : /\ devices'[d].created = devices[d].created
                                       /\ devices'[d].scope = devices[d].scope
      PROVE  CleanScope' /\ SingleUse' /\ TicketMatchesDevice'
  BY <1>4 DEF CleanScope, SingleUse, TicketMatchesDevice, CodeOf
<1>5. ASSUME NEW a \in Auths, TouchDevice(a)
      PROVE  CleanScope' /\ SingleUse' /\ TicketMatchesDevice'
  <2>1. \A d \in DOMAIN devices : /\ devices'[d].created = devices[d].created
                                  /\ devices'[d].scope = devices[d].scope
    BY <1>5 DEF TouchDevice, Touch, TypeOK, Device
  <2>2. QED
    BY <1>4, <1>5, <2>1 DEF TouchDevice, Touch
<1>6. ASSUME NEW r \in Revokes, CommitRevoke(r)
      PROVE  CleanScope' /\ SingleUse' /\ TicketMatchesDevice'
  <2>1. \A d \in DOMAIN devices : /\ devices'[d].created = devices[d].created
                                  /\ devices'[d].scope = devices[d].scope
    BY <1>6 DEF CommitRevoke, Revoke, TypeOK, Device
  <2>2. QED
    BY <1>4, <1>6, <2>1 DEF CommitRevoke, Revoke
<1>7. QED
  BY <1>1, <1>2, <1>3, <1>5, <1>6, Writers

-----------------------------------------------------------------------------
(* Revocation.  RevokedIsDenied speaks of answers; what makes it inductive   *)
(* is that a late call never gets past the SELECT and that no write clears   *)
(* revoked_at.                                                               *)

LateIsStopped ==
  \A a \in late : /\ IsRevoked(TokenOf(a))
                  /\ pc[a] \notin {"idle", "touch"}
                  /\ reply[a] # "granted"

\* Each write of the device table keeps every revocation it finds.
LEMMA RevocationStays ==
  ASSUME Inv, [Next]_vars, NEW d \in DOMAIN devices, devices[d].revoked # NULL
  PROVE  /\ d \in DOMAIN devices'
         /\ devices'[d].revoked # NULL
<1>0. TypeOK /\ Answered
  BY DEF Inv
<1> USE <1>0, PairingAssumption
<1>1. CASE Silent
  BY <1>1 DEF Silent
<1>2. ASSUME NEW c \in Issues, CommitIssue(c)
      PROVE  d \in DOMAIN devices' /\ devices'[d].revoked # NULL
  BY <1>2 DEF CommitIssue
<1>3. ASSUME NEW e \in Exchanges, CommitExchange(e)
      PROVE  d \in DOMAIN devices' /\ devices'[d].revoked # NULL
  <2>1. e \notin DOMAIN devices
    BY <1>3 DEF CommitExchange, CommitRows, Answered, Calls, Answer
  <2>2. QED
    BY <1>3, <2>1 DEF CommitExchange, CommitRows, Put
<1>4. ASSUME NEW a \in Auths, TouchDevice(a)
      PROVE  d \in DOMAIN devices' /\ devices'[d].revoked # NULL
  BY <1>4 DEF TouchDevice, Touch, TypeOK, Device
<1>5. ASSUME NEW r \in Revokes, CommitRevoke(r)
      PROVE  d \in DOMAIN devices' /\ devices'[d].revoked # NULL
  BY <1>5 DEF CommitRevoke, Revoke, IsRevoked, TypeOK, Device
<1>6. QED
  BY <1>1, <1>2, <1>3, <1>4, <1>5, Writers

LEMMA NextLate == Inv /\ LateIsStopped /\ [Next]_vars => LateIsStopped'
<1> SUFFICES ASSUME Inv, LateIsStopped, [Next]_vars, NEW b \in late'
             PROVE  /\ IsRevoked(TokenOf(b))'
                    /\ pc'[b] \notin {"idle", "touch"}
                    /\ reply'[b] # "granted"
  BY DEF LateIsStopped
<1>0. /\ TypeOK /\ Answered
      /\ input' = input
  BY DEF Inv, Next, Arrive, Serve, IssueStep, ExchangeStep, AuthStep, RevokeStep,
         StartIssue, StartExchange, StartAuth, StartRevoke, Start, CommitIssue,
         BeginExchange, RefuseExchange, Refuse, MarkUsed, InsertDevice,
         CommitExchange, CommitRows, SelectDevice, Select, TouchDevice, Touch,
         CommitRevoke, Revoke, BusyTimeout, StoreFails, EndByError, Deliver, LoseReply, Tick,
         Crash, vars
<1>a. IsRevoked(TokenOf(b)) => IsRevoked(TokenOf(b))'
  BY <1>0, RevocationStays DEF IsRevoked, TokenOf
<1> DEFINE Stopped == pc'[b] \notin {"idle", "touch"} /\ reply'[b] # "granted"
<1>b. ASSUME NEW a \in Auths, StartAuth(a), b \notin late
      PROVE  IsRevoked(TokenOf(b))' /\ Stopped
  <2>1. b = a /\ IsRevoked(TokenOf(a)) /\ pc[a] = "idle"
    BY <1>b DEF StartAuth, Start
  <2>2. reply[a] # "granted"
    BY <1>0, <2>1, PairingAssumption DEF Answered, Calls, Answer
  <2>3. QED
    BY <1>0, <1>a, <1>b, <2>1, <2>2 DEF StartAuth, Start, Goto, TypeOK, Calls
<1>c. ASSUME b \notin late PROVE \E a \in Auths : StartAuth(a)
  BY <1>c DEF Next, Arrive, Serve, IssueStep, ExchangeStep, AuthStep, RevokeStep,
         StartIssue, StartExchange, StartRevoke, CommitIssue,
         BeginExchange, RefuseExchange, Refuse, MarkUsed, InsertDevice,
         CommitExchange, CommitRows, SelectDevice, Select, TouchDevice, Touch,
         CommitRevoke, Revoke, BusyTimeout, StoreFails, EndByError, Deliver, LoseReply, Tick,
         Crash, vars
<1> SUFFICES ASSUME b \in late PROVE Stopped
  BY <1>a, <1>b, <1>c DEF LateIsStopped
<1>d. /\ b \in Auths /\ IsRevoked(TokenOf(b))
      /\ pc[b] \notin {"idle", "touch"} /\ reply[b] # "granted"
  BY <1>0 DEF LateIsStopped, TypeOK
<1> USE <1>0, <1>d, PairingAssumption DEF TypeOK, Calls
<1>1. ASSUME NEW c \in Issues, StartIssue(c) PROVE Stopped
  BY <1>1 DEF StartIssue, Start, Goto
<1>2. ASSUME NEW d \in Exchanges, StartExchange(d) PROVE Stopped
  BY <1>2 DEF StartExchange, Start, Goto
<1>3. ASSUME NEW a \in Auths, StartAuth(a) PROVE Stopped
  BY <1>3 DEF StartAuth, Start, Goto
<1>4. ASSUME NEW r \in Revokes, StartRevoke(r) PROVE Stopped
  BY <1>4 DEF StartRevoke, Start, Goto
<1>5. ASSUME NEW c \in Issues, CommitIssue(c) PROVE Stopped
  BY <1>5 DEF CommitIssue, Answering, Goto
<1>6. ASSUME NEW d \in Exchanges, BeginExchange(d) PROVE Stopped
  BY <1>6 DEF BeginExchange, Goto
<1>7. ASSUME NEW d \in Exchanges, RefuseExchange(d) PROVE Stopped
  BY <1>7 DEF RefuseExchange, Refuse, Answering, Goto
<1>8. ASSUME NEW d \in Exchanges, MarkUsed(d) PROVE Stopped
  BY <1>8 DEF MarkUsed, Goto
<1>9. ASSUME NEW d \in Exchanges, InsertDevice(d) PROVE Stopped
  BY <1>9 DEF InsertDevice, Goto
<1>10. ASSUME NEW d \in Exchanges, CommitExchange(d) PROVE Stopped
  BY <1>10 DEF CommitExchange, CommitRows, Answering, Goto
<1>11. ASSUME NEW a \in Auths, SelectDevice(a) PROVE Stopped
  BY <1>11 DEF SelectDevice, Select, Answering, Goto
<1>12. ASSUME NEW a \in Auths, TouchDevice(a) PROVE Stopped
  BY <1>12 DEF TouchDevice, Touch, Answering, Goto
<1>13. ASSUME NEW r \in Revokes, CommitRevoke(r) PROVE Stopped
  BY <1>13 DEF CommitRevoke, Revoke, Answering, Goto
<1>14. ASSUME NEW k \in Calls, BusyTimeout(k) \/ StoreFails(k) PROVE Stopped
  BY <1>14 DEF BusyTimeout, StoreFails, EndByError, Answering, Goto
<1>15. ASSUME NEW k \in Calls, Deliver(k) PROVE Stopped
  BY <1>15 DEF Deliver, Goto
<1>16. ASSUME NEW k \in Calls, LoseReply(k) PROVE Stopped
  BY <1>16 DEF LoseReply, Goto
<1>17. CASE Tick
  BY <1>17 DEF Tick
<1>18. CASE Crash
  BY <1>18 DEF Crash, Running
<1>19. CASE UNCHANGED vars
  BY <1>19 DEF vars
<1>20. QED
  BY <1>1, <1>2, <1>3, <1>4, <1>5, <1>6, <1>7, <1>8, <1>9, <1>10, <1>11, <1>12,
     <1>13, <1>14, <1>15, <1>16, <1>17, <1>18, <1>19
     DEF Next, Arrive, Serve, IssueStep, ExchangeStep, AuthStep, RevokeStep

-----------------------------------------------------------------------------
(* The theorems. *)

LEMMA InitInv == Init => Inv
<1> SUFFICES ASSUME Init PROVE Inv
  OBVIOUS
<1>1. DOMAIN tickets = {} /\ DOMAIN devices = {} /\ held = {}
  BY DEF Init
<1>2. CleanScope /\ SingleUse /\ TicketMatchesDevice
  BY <1>1 DEF CleanScope, SingleUse, TicketMatchesDevice
<1>3. LockOwned /\ CheckedTicket
  BY PairingAssumption DEF Init, LockOwned, InTransaction, CheckedTicket, Calls
<1>4. Answered
  BY <1>1, PairingAssumption DEF Init, Answered, Calls, Answer
<1>5. QED
  BY <1>2, <1>3, <1>4, InitType DEF Inv

LEMMA NextInv == Inv /\ [Next]_vars => Inv'
  BY NextType, NextLockOwned, NextCheckedTicket, NextAnswered, NextRows DEF Inv

\* The invariant holds in every reachable state of the store.
THEOREM Invariant == Spec => []Inv
  BY InitInv, NextInv, PTL DEF Spec

\* Rows, calls and lock keep their types.
THEOREM TypeCorrect == Spec => []TypeOK
<1>1. Inv => TypeOK
  BY DEF Inv
<1>2. QED
  BY Invariant, <1>1, PTL

\* A pairing code is redeemed at most once: exchange() writes the device of a
\* code in the transaction that found the code unused.
THEOREM CodesAreSingleUse == Spec => []SingleUse
<1>1. Inv => SingleUse
  BY DEF Inv
<1>2. QED
  BY Invariant, <1>1, PTL

\* A ticket is used exactly when its device exists, with the same scope and
\* time and before expiry, through any crash: exchange() is atomic.
THEOREM ExchangeIsAtomic == Spec => []TicketMatchesDevice
<1>1. Inv => TicketMatchesDevice
  BY DEF Inv
<1>2. QED
  BY Invariant, <1>1, PTL

\* A token that reached an App has its row in the database.
THEOREM DeliveredTokensAreDurable == Spec => []TokenBackedByRow
<1>1. Inv => TokenBackedByRow
  BY DEF Inv, Answered, TokenBackedByRow
<1>2. QED
  BY Invariant, <1>1, PTL

\* An authentication that arrives after the revocation of its token is never
\* granted: revoke_device_token() takes effect at once for every later request.
THEOREM RevocationIsImmediate == Spec => []RevokedIsDenied
<1>1. Init => LateIsStopped
  BY DEF Init, LateIsStopped
<1>2. LateIsStopped => RevokedIsDenied
  BY DEF LateIsStopped, RevokedIsDenied
<1>3. QED
  BY Invariant, <1>1, <1>2, NextLate, PTL DEF Spec
=============================================================================
