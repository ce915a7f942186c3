--------------------------- MODULE PairingHistory ---------------------------
(***************************************************************************)
(* Proofs about what the answers of the pairing store mean later on: rows  *)
(* are never taken back, a grant stays within the ticket's scope, one      *)
(* revocation of a token wins, and times of use stay in order although     *)
(* they are sampled before the wait for the write lock.                    *)
(***************************************************************************)
EXTENDS PairingProofs

\* What each step may do to the rows that are there.
RowsAreFinal ==
  /\ \A c \in DOMAIN tickets :
       /\ c \in DOMAIN tickets'
       /\ tickets'[c].scope = tickets[c].scope
       /\ tickets[c].used # NULL => tickets'[c] = tickets[c]
  /\ \A d \in DOMAIN devices :
       /\ d \in DOMAIN devices'
       /\ devices'[d].scope = devices[d].scope
       /\ devices'[d].created = devices[d].created
       /\ devices[d].revoked # NULL => devices'[d].revoked = devices[d].revoked

LEMMA NextIsFinal == Inv /\ [Next]_vars => RowsAreFinal
<1> SUFFICES ASSUME Inv, [Next]_vars PROVE RowsAreFinal
  OBVIOUS
<1>0. TypeOK /\ Answered /\ CheckedTicket
  BY DEF Inv
<1> USE <1>0, PairingAssumption
<1>1. CASE Silent
  BY <1>1 DEF Silent, RowsAreFinal
<1>2. ASSUME NEW c \in Issues, CommitIssue(c) PROVE RowsAreFinal
  <2>1. c \notin DOMAIN tickets
    BY <1>2 DEF CommitIssue, Answered, Calls
  <2> QED BY <1>2, <2>1 DEF CommitIssue, Put, RowsAreFinal
<1>3. ASSUME NEW d \in Exchanges, CommitExchange(d) PROVE RowsAreFinal
  <2> DEFINE c == CodeOf(d)
  <2>1. c \in DOMAIN tickets /\ tickets[c].used = NULL
    BY <1>3 DEF CommitExchange, CommitRows, CheckedTicket, Refusal
  <2>2. d \notin DOMAIN devices
    BY <1>3 DEF CommitExchange, CommitRows, Answered, Calls, Answer
  <2>3. tickets' = [tickets EXCEPT ![c].used = now[d]]
    BY <1>3 DEF CommitExchange, CommitRows
  <2>4. /\ tickets'[c].scope = tickets[c].scope
        /\ \A x \in DOMAIN tickets \ {c} : tickets'[x] = tickets[x]
    BY <2>1, <2>3 DEF TypeOK, Ticket
  <2>5. \A e \in DOMAIN devices : e \in DOMAIN devices' /\ devices'[e] = devices[e]
    BY <1>3, <2>2 DEF CommitExchange, CommitRows, Put
  <2> QED BY <2>1, <2>3, <2>4, <2>5 DEF RowsAreFinal
<1>4. ASSUME NEW a \in Auths, TouchDevice(a) PROVE RowsAreFinal
  BY <1>4 DEF TouchDevice, Touch, TypeOK, Device, RowsAreFinal
<1>5. ASSUME NEW r \in Revokes, CommitRevoke(r) PROVE RowsAreFinal
  BY <1>5 DEF CommitRevoke, Revoke, IsRevoked, TypeOK, Device, RowsAreFinal
<1> QED BY <1>1, <1>2, <1>3, <1>4, <1>5, Writers

\* No step deletes a row, reopens a used code, changes the scope of a device
\* or moves the time of its revocation.
THEOREM RowsAreNeverTakenBack == Spec => HistoryIsFinal
<1> DEFINE Final ==
      /\ \A c \in DOMAIN tickets :
           /\ c \in DOMAIN tickets'
           /\ tickets[c].used # NULL => tickets'[c] = tickets[c]
      /\ \A d \in DOMAIN devices :
           /\ d \in DOMAIN devices'
           /\ devices'[d].scope = devices[d].scope
           /\ devices[d].revoked # NULL => devices'[d].revoked = devices[d].revoked
<1>1. Inv /\ [Next]_vars => [Final]_vars
  BY NextIsFinal DEF RowsAreFinal
<1>2. Spec => [][Final]_vars
  BY <1>1, Invariant, PTL DEF Spec
<1> QED BY <1>2 DEF HistoryIsFinal

-----------------------------------------------------------------------------
(* Which step gives which answer. *)

\* An input never changes.
LEMMA InputFixed == [Next]_vars => input' = input
  BY DEF Next, Arrive, Serve, IssueStep, ExchangeStep, AuthStep, RevokeStep,
         StartIssue, StartExchange, StartAuth, StartRevoke, Start, CommitIssue,
         BeginExchange, RefuseExchange, Refuse, MarkUsed, InsertDevice,
         CommitExchange, CommitRows, SelectDevice, Select, TouchDevice, Touch,
         CommitRevoke, Revoke, BusyTimeout, StoreFails, EndByError, Deliver, LoseReply, Tick,
         Crash, vars

\* The clock goes forward, and a call keeps the time it sampled when it arrived.
LEMMA TimeMoves ==
  ASSUME TypeOK, [Next]_vars, NEW k \in Calls
  PROVE  /\ clock <= clock'
         /\ now'[k] = now[k] \/ (pc[k] = "idle" /\ now'[k] = clock /\ clock' = clock)
         /\ pc[k] # "idle" => pc'[k] # "idle"
<1> USE DEF TypeOK, Calls
<1>1. ASSUME NEW j \in Calls, NEW phase \in {"wait", "read"}, Start(j, phase)
      PROVE  /\ clock <= clock'
             /\ now'[k] = now[k] \/ (pc[k] = "idle" /\ now'[k] = clock /\ clock' = clock)
             /\ pc[k] # "idle" => pc'[k] # "idle"
  BY <1>1 DEF Start, Goto
<1>2. CASE Arrive
  BY <1>1, <1>2 DEF Arrive, StartIssue, StartExchange, StartAuth, StartRevoke
<1>3. CASE Tick
  BY <1>3 DEF Tick
<1>4. CASE Crash
  BY <1>4 DEF Crash, Running
<1>5. CASE UNCHANGED vars
  BY <1>5 DEF vars
<1>6. ASSUME NEW d \in Exchanges, ExchangeStep(d)
      PROVE  UNCHANGED <<clock, now>> /\ (pc[k] # "idle" => pc'[k] # "idle")
  BY <1>6 DEF ExchangeStep, BeginExchange, RefuseExchange, Refuse, MarkUsed, InsertDevice,
     CommitExchange, CommitRows, Answering, Goto
<1>7. ASSUME NEW j \in Calls,
             \/ j \in Issues /\ IssueStep(j)
             \/ j \in Auths /\ AuthStep(j)
             \/ j \in Revokes /\ RevokeStep(j)
      PROVE  UNCHANGED <<clock, now>> /\ (pc[k] # "idle" => pc'[k] # "idle")
  BY <1>7 DEF IssueStep, CommitIssue, AuthStep, SelectDevice, Select, TouchDevice, Touch,
     RevokeStep, CommitRevoke, Revoke, Answering, Goto
<1>8. ASSUME NEW j \in Calls,
             BusyTimeout(j) \/ StoreFails(j) \/ Deliver(j) \/ LoseReply(j)
      PROVE  UNCHANGED <<clock, now>> /\ (pc[k] # "idle" => pc'[k] # "idle")
  BY <1>8 DEF BusyTimeout, StoreFails, EndByError, Deliver, LoseReply, Answering, Goto
<1> QED BY <1>2, <1>3, <1>4, <1>5, <1>6, <1>7, <1>8 DEF Next, Serve

\* Only the UPDATE of a revocation answers "revoked", only that of an
\* authentication answers "granted", and only its SELECT leads there.
LEMMA WhoAnswers ==
  ASSUME TypeOK, [Next]_vars, NEW k \in Calls
  PROVE  /\ reply'[k] = "revoked" => reply[k] = "revoked" \/ (k \in Revokes /\ CommitRevoke(k))
         /\ reply'[k] = "granted" => reply[k] = "granted" \/ (k \in Auths /\ TouchDevice(k))
         /\ k \in Auths /\ pc'[k] = "read" => pc[k] = "read" \/ StartAuth(k)
         /\ pc'[k] = "touch" => pc[k] = "touch" \/ (k \in Auths /\ SelectDevice(k))
<1> DEFINE P ==
      /\ reply'[k] = "revoked" => reply[k] = "revoked" \/ (k \in Revokes /\ CommitRevoke(k))
      /\ reply'[k] = "granted" => reply[k] = "granted" \/ (k \in Auths /\ TouchDevice(k))
      /\ k \in Auths /\ pc'[k] = "read" => pc[k] = "read" \/ StartAuth(k)
      /\ pc'[k] = "touch" => pc[k] = "touch" \/ (k \in Auths /\ SelectDevice(k))
<1> SUFFICES P
  OBVIOUS
<1> USE PairingAssumption DEF TypeOK, Calls
<1>1. ASSUME NEW j \in Issues, StartIssue(j) PROVE P
  BY <1>1 DEF StartIssue, Start, Goto
<1>2. ASSUME NEW j \in Exchanges, StartExchange(j) PROVE P
  BY <1>2 DEF StartExchange, Start, Goto
<1>3. ASSUME NEW j \in Auths, StartAuth(j) PROVE P
  <2>1. pc' = [pc EXCEPT ![j] = "read"] /\ reply' = reply
    BY <1>3 DEF StartAuth, Start, Goto
  <2> QED BY <1>3, <2>1
<1>4. ASSUME NEW j \in Revokes, StartRevoke(j) PROVE P
  BY <1>4 DEF StartRevoke, Start, Goto
<1>5. ASSUME NEW j \in Issues, CommitIssue(j) PROVE P
  BY <1>5 DEF CommitIssue, Answering, Goto
<1>6. ASSUME NEW j \in Exchanges, ExchangeStep(j) PROVE P
  <2>1. \/ \E phase \in {"locked", "marked", "inserted"} :
             pc' = [pc EXCEPT ![j] = phase] /\ reply' = reply
        \/ \E answer \in {"invalid", "used", "expired", "ok"} :
             pc' = [pc EXCEPT ![j] = "reply"] /\ reply' = [reply EXCEPT ![j] = answer]
    BY <1>6 DEF ExchangeStep, BeginExchange, RefuseExchange, Refuse, MarkUsed, InsertDevice,
       CommitExchange, CommitRows, Answering, Goto
  <2> QED BY <2>1
<1>7. ASSUME NEW j \in Auths, SelectDevice(j) PROVE P
  <2>1. \/ pc' = [pc EXCEPT ![j] = "touch"] /\ reply' = reply
        \/ pc' = [pc EXCEPT ![j] = "reply"] /\ reply' = [reply EXCEPT ![j] = "denied"]
    BY <1>7 DEF SelectDevice, Select, Answering, Goto
  <2> QED BY <1>7, <2>1
<1>8. ASSUME NEW j \in Auths, TouchDevice(j) PROVE P
  <2>1. \E answer \in {"granted", "denied"} :
          pc' = [pc EXCEPT ![j] = "reply"] /\ reply' = [reply EXCEPT ![j] = answer]
    BY <1>8 DEF TouchDevice, Touch, Answering, Goto
  <2> QED BY <1>8, <2>1
<1>9. ASSUME NEW j \in Revokes, CommitRevoke(j) PROVE P
  <2>1. \E answer \in {"revoked", "denied"} :
          pc' = [pc EXCEPT ![j] = "reply"] /\ reply' = [reply EXCEPT ![j] = answer]
    BY <1>9 DEF CommitRevoke, Revoke, Answering, Goto
  <2> QED BY <1>9, <2>1
<1>10. ASSUME NEW j \in Calls, BusyTimeout(j) \/ StoreFails(j) PROVE P
  BY <1>10 DEF BusyTimeout, StoreFails, EndByError, Answering, Goto
<1>11. ASSUME NEW j \in Calls, Deliver(j) \/ LoseReply(j) PROVE P
  BY <1>11 DEF Deliver, LoseReply, Goto
<1>12. CASE Tick \/ Crash \/ UNCHANGED vars
  BY <1>12 DEF Tick, Crash, vars
<1> QED BY <1>1, <1>2, <1>3, <1>4, <1>5, <1>6, <1>7, <1>8, <1>9, <1>10, <1>11, <1>12
     DEF Next, Arrive, Serve, IssueStep, AuthStep, RevokeStep
-----------------------------------------------------------------------------
(* Revocations. *)

\* A revocation that matched found the token not revoked, so no other one had
\* matched before, and of two steps only one is taken.
LEMMA NextWins == Inv /\ OneRevokeWins /\ [Next]_vars => OneRevokeWins'
<1> SUFFICES ASSUME Inv, OneRevokeWins, [Next]_vars, NEW r \in Revokes, reply'[r] = "revoked"
             PROVE  /\ IsRevoked(TokenOf(r))'
                    /\ \A s \in Revokes :
                         reply'[s] = "revoked" /\ TokenOf(s)' = TokenOf(r)' => s = r
  BY DEF OneRevokeWins
<1>0. TypeOK /\ input' = input
  BY InputFixed DEF Inv
<1>1. \A s \in Revokes : TokenOf(s)' = TokenOf(s)
  BY <1>0 DEF TokenOf
<1>2. ASSUME NEW s \in Revokes, CommitRevoke(s), reply'[s] = "revoked"
      PROVE  /\ TokenOf(s) \in DOMAIN devices
             /\ ~IsRevoked(TokenOf(s))
             /\ IsRevoked(TokenOf(s))'
             /\ \A j \in Revokes : CommitRevoke(j) => j = s
  <2>1. TokenOf(s) \in DOMAIN devices /\ ~IsRevoked(TokenOf(s))
    BY <1>0, <1>2 DEF CommitRevoke, Revoke, Answering, TypeOK, Calls
  <2>2. devices' = [devices EXCEPT ![TokenOf(s)].revoked = now[s]]
    BY <1>2, <2>1 DEF CommitRevoke, Revoke
  <2>3. now[s] # NULL
    BY <1>0, PairingAssumption DEF TypeOK, Calls
  <2>4. IsRevoked(TokenOf(s))'
    BY <1>0, <1>1, <2>1, <2>2, <2>3 DEF IsRevoked, TypeOK, Device
  <2>5. pc' = [pc EXCEPT ![s] = "reply"]
    BY <1>2 DEF CommitRevoke, Revoke, Answering, Goto
  <2>6. \A j \in Revokes : CommitRevoke(j) => pc[j] = "wait" /\ pc' = [pc EXCEPT ![j] = "reply"]
    BY DEF CommitRevoke, Revoke, Answering, Goto
  <2>7. ASSUME NEW j \in Revokes, CommitRevoke(j) PROVE j = s
    BY <1>0, <2>5, <2>6, <2>7 DEF TypeOK, Calls
  <2> QED BY <2>1, <2>4, <2>7
<1>3. \A s \in Revokes : reply'[s] = "revoked" => reply[s] = "revoked" \/ CommitRevoke(s)
  BY <1>0, WhoAnswers DEF Calls
<1>4. \A s \in Revokes : reply[s] = "revoked" => IsRevoked(TokenOf(s)) /\ IsRevoked(TokenOf(s))'
  BY <1>1, RevocationStays DEF OneRevokeWins, IsRevoked
<1>5. IsRevoked(TokenOf(r))'
  BY <1>2, <1>3, <1>4
<1>6. ASSUME NEW s \in Revokes, reply'[s] = "revoked", TokenOf(s) = TokenOf(r) PROVE s = r
  <2>1. CASE reply[r] = "revoked" /\ reply[s] = "revoked"
    BY <1>6, <2>1 DEF OneRevokeWins
  <2>2. CASE reply[r] # "revoked"
    BY <1>2, <1>3, <1>4, <1>6, <2>2
  <2>3. CASE reply[s] # "revoked"
    BY <1>2, <1>3, <1>4, <1>6, <2>3
  <2> QED BY <2>1, <2>2, <2>3
<1> QED BY <1>1, <1>5, <1>6

\* Of all calls that revoke one token exactly one reports success.
THEOREM OneRevocationWins == Spec => []OneRevokeWins
<1>1. Init => OneRevokeWins
  BY PairingAssumption DEF Init, OneRevokeWins, Calls, Answer
<1> QED BY <1>1, NextWins, Invariant, PTL DEF Spec

-----------------------------------------------------------------------------
(* Authentications. *)

\* An authentication on its way has a device, which was registered before the
\* call sampled its time, and one that was granted had one.
InUse ==
  \A a \in Auths :
    /\ pc[a] \in {"read", "touch"} =>
         /\ TokenOf(a) \in DOMAIN devices
         /\ devices[TokenOf(a)].created <= now[a]
    /\ reply[a] = "granted" => TokenOf(a) \in DOMAIN devices

\* No call is ahead of the clock.
SampledBefore == \A k \in Calls : now[k] <= clock

Uses == SampledBefore /\ LastUseInRange /\ InUse /\ ScopeKept

LEMMA NextSampled == Inv /\ SampledBefore /\ [Next]_vars => SampledBefore'
<1> SUFFICES ASSUME Inv, SampledBefore, [Next]_vars, NEW k \in Calls
             PROVE  now'[k] <= clock'
  BY DEF SampledBefore
<1>1. TypeOK /\ TypeOK'
  BY NextType DEF Inv
<1>2. /\ clock \in Nat /\ clock' \in Nat /\ now[k] \in Nat
      /\ now[k] <= clock
  BY <1>1 DEF TypeOK, SampledBefore
<1>3. /\ clock <= clock'
      /\ now'[k] = now[k] \/ (now'[k] = clock /\ clock' = clock)
  BY <1>1, TimeMoves
<1> QED BY <1>2, <1>3

LEMMA NextUse == Inv /\ Uses /\ [Next]_vars => LastUseInRange'
<1> SUFFICES ASSUME Inv, Uses, [Next]_vars PROVE LastUseInRange'
  OBVIOUS
<1>0. TypeOK /\ SampledBefore /\ LastUseInRange /\ InUse /\ clock' \in Nat
  BY NextType DEF Inv, Uses, TypeOK
<1>a. \A k \in Calls : clock <= clock' /\ now[k] <= clock
  BY <1>0, TimeMoves DEF SampledBefore
<1>1. CASE Silent
  BY <1>0, <1>1, NextType, TimeMoves DEF Silent, LastUseInRange, Inv, TypeOK, Device, Calls
<1>2. ASSUME NEW c \in Issues, CommitIssue(c) PROVE LastUseInRange'
  BY <1>0, <1>2 DEF CommitIssue, LastUseInRange
<1>3. ASSUME NEW d \in Exchanges, CommitExchange(d) PROVE LastUseInRange'
  <2>1. /\ clock' = clock
        /\ DOMAIN devices' = DOMAIN devices \cup {d}
        /\ \A e \in DOMAIN devices \ {d} : devices'[e] = devices[e]
        /\ devices'[d].created = now[d] /\ devices'[d].lastUsed = now[d]
    BY <1>3 DEF CommitExchange, CommitRows, Put
  <2>2. now[d] \in Nat /\ now[d] <= clock
    BY <1>0 DEF TypeOK, Calls, SampledBefore
  <2> QED BY <1>0, <2>1, <2>2 DEF LastUseInRange
<1>4. ASSUME NEW a \in Auths, TouchDevice(a) PROVE LastUseInRange'
  <2> DEFINE d == TokenOf(a)
  <2>1. /\ clock' = clock
        /\ pc[a] = "touch"
        /\ devices' = [devices EXCEPT ![d].lastUsed = now[a]]
    BY <1>4 DEF TouchDevice, Touch
  <2>2. d \in DOMAIN devices /\ devices[d].created <= now[a] /\ now[a] <= clock
    BY <1>0, <2>1 DEF InUse, SampledBefore, Calls
  <2>3. /\ devices'[d].created = devices[d].created /\ devices'[d].lastUsed = now[a]
        /\ DOMAIN devices' = DOMAIN devices
        /\ \A e \in DOMAIN devices \ {d} : devices'[e] = devices[e]
    BY <1>0, <2>1, <2>2 DEF TypeOK, Device
  <2> QED BY <1>0, <2>1, <2>2, <2>3 DEF LastUseInRange
<1>5. ASSUME NEW r \in Revokes, CommitRevoke(r) PROVE LastUseInRange'
  <2>1. /\ clock' = clock
        /\ DOMAIN devices' = DOMAIN devices
        /\ \A e \in DOMAIN devices : /\ devices'[e].created = devices[e].created
                                     /\ devices'[e].lastUsed = devices[e].lastUsed
    BY <1>0, <1>5 DEF CommitRevoke, Revoke, TypeOK, Device
  <2> QED BY <1>0, <2>1 DEF LastUseInRange
<1> QED BY <1>1, <1>2, <1>3, <1>4, <1>5, Writers

LEMMA NextInUse == Inv /\ Uses /\ [Next]_vars => InUse'
<1> SUFFICES ASSUME Inv, Uses, [Next]_vars, NEW a \in Auths
             PROVE  /\ pc'[a] \in {"read", "touch"} =>
                         /\ TokenOf(a)' \in DOMAIN devices'
                         /\ devices'[TokenOf(a)'].created <= now'[a]
                    /\ reply'[a] = "granted" => TokenOf(a)' \in DOMAIN devices'
  BY DEF InUse
<1>0. TypeOK /\ Answered /\ InUse /\ LastUseInRange /\ RowsAreFinal /\ TokenOf(a)' = TokenOf(a)
  BY NextIsFinal, InputFixed DEF Inv, Uses, TokenOf
<1> USE <1>0, PairingAssumption
<1>1. TokenOf(a) \in DOMAIN devices =>
        /\ TokenOf(a) \in DOMAIN devices'
        /\ devices'[TokenOf(a)].created = devices[TokenOf(a)].created
  BY DEF RowsAreFinal
<1>2. ASSUME StartAuth(a)
      PROVE  /\ TokenOf(a) \in DOMAIN devices
             /\ devices[TokenOf(a)].created <= now'[a]
  <2>1. TokenOf(a) \in DOMAIN devices
    BY <1>2 DEF StartAuth, Answered
  <2>2. now'[a] = clock
    BY <1>2 DEF StartAuth, Start, TypeOK, Calls
  <2>3. devices[TokenOf(a)] \in Device
    BY <2>1 DEF TypeOK
  <2> QED BY <2>1, <2>2, <2>3 DEF LastUseInRange, TypeOK, Device
<1>3. ASSUME pc'[a] \in {"read", "touch"}, ~StartAuth(a)
      PROVE  pc[a] \in {"read", "touch"} /\ now'[a] = now[a]
  <2>1. pc[a] \in {"read", "touch"}
    BY <1>3, WhoAnswers DEF Calls, SelectDevice, Select
  <2> QED BY <2>1, TimeMoves DEF Calls
<1>4. reply'[a] = "granted" => reply[a] = "granted" \/ pc[a] = "touch"
  BY WhoAnswers DEF Calls, TouchDevice, Touch
<1> QED BY <1>1, <1>2, <1>3, <1>4 DEF InUse

LEMMA NextScope == Inv /\ Uses /\ [Next]_vars => ScopeKept'
<1> SUFFICES ASSUME Inv, Uses, [Next]_vars, NEW a \in Auths, reply'[a] = "granted"
             PROVE  \/ input.profile[a] \in input.names[CodeOf(TokenOf(a))]
                    \/ Normalize(input.names[CodeOf(TokenOf(a))]) = {}
  BY InputFixed DEF ScopeKept, CodeOf, TokenOf
<1> DEFINE d == TokenOf(a)
<1>0. TypeOK /\ InUse /\ ScopeKept /\ TicketMatchesDevice /\ CleanScope
  BY DEF Inv, Uses
<1>1. CASE reply[a] = "granted"
  BY <1>0, <1>1 DEF ScopeKept
<1>2. CASE reply[a] # "granted"
  <2>1. TouchDevice(a)
    BY <1>0, <1>2, WhoAnswers DEF Calls
  <2>2. InScope(input.profile[a], devices[d].scope)
    BY <1>0, <1>2, <2>1 DEF TouchDevice, Touch, Answering, TypeOK, Calls
  <2>3. d \in DOMAIN devices
    BY <1>0, <2>1 DEF InUse, TouchDevice, Touch
  <2>4. devices[d].scope = Normalize(input.names[CodeOf(d)])
    BY <1>0, <2>3 DEF TicketMatchesDevice, CleanScope
  <2> QED
    BY <2>2, <2>4 DEF InScope, Normalize
<1> QED
  BY <1>1, <1>2

LEMMA UsesInvariant == Spec => []Uses
<1>1. Init => Uses
  BY PairingAssumption DEF Init, Uses, SampledBefore, LastUseInRange, InUse, ScopeKept, Calls, Answer
<1>2. Inv /\ Uses /\ [Next]_vars => Uses'
  BY NextSampled, NextUse, NextInUse, NextScope DEF Uses
<1> QED BY <1>1, <1>2, Invariant, PTL DEF Spec

\* A device's last use lies between its registration and the present, although
\* every call writes the time it sampled before it waited for the lock.
THEOREM LastUseStaysInRange == Spec => []LastUseInRange
<1>1. Uses => LastUseInRange
  BY DEF Uses
<1> QED BY <1>1, UsesInvariant, PTL

\* A granted Profile was typed when the ticket was issued, or nothing that was
\* typed then is a Profile's name: _normalize_profiles, at both places.
THEOREM GrantsStayInScope == Spec => []ScopeKept
<1>1. Uses => ScopeKept
  BY DEF Uses
<1> QED BY <1>1, UsesInvariant, PTL

-----------------------------------------------------------------------------
(* Calls end.  What EveryCallEnds adds to this is fairness.                *)

\* How many steps a call has before it at most.
Rank(k) ==
  CASE pc[k] = "idle" -> 6
    [] pc[k] = "wait" -> 5
    [] pc[k] = "locked" -> 4
    [] pc[k] \in {"marked", "read"} -> 3
    [] pc[k] \in {"inserted", "touch"} -> 2
    [] pc[k] = "reply" -> 1
    [] OTHER -> 0

\* Whoever holds the write lock does not wait for it, and is not done.
HolderNeverWaits ==
  \A k \in Calls : lock = k => k \in Exchanges /\ pc[k] \in InTransaction

\* A step of the server for a call changes the phase of this call only.
LEMMA ServeLowers ==
  ASSUME TypeOK, NEW k \in Calls, Serve(k)
  PROVE  /\ \A j \in Calls \ {k} : pc'[j] = pc[j]
         /\ Rank(k)' < Rank(k)
<1> USE DEF TypeOK, Rank, Goto, Answering
<1>1. CASE k \in Issues /\ IssueStep(k)
  BY <1>1 DEF IssueStep, CommitIssue
<1>2. CASE k \in Exchanges /\ ExchangeStep(k)
  BY <1>2 DEF ExchangeStep, BeginExchange, RefuseExchange, Refuse, MarkUsed, InsertDevice,
              CommitExchange, CommitRows
<1>3. CASE k \in Auths /\ AuthStep(k)
  BY <1>3 DEF AuthStep, SelectDevice, Select, TouchDevice, Touch
<1>4. CASE k \in Revokes /\ RevokeStep(k)
  BY <1>4 DEF RevokeStep, CommitRevoke, Revoke
<1>5. CASE BusyTimeout(k)
  BY <1>5 DEF BusyTimeout, EndByError
<1>6. CASE Deliver(k)
  BY <1>6 DEF Deliver
<1> QED
  BY <1>1, <1>2, <1>3, <1>4, <1>5, <1>6 DEF Serve

\* The other steps start a call, cut calls off, or leave them alone.
LEMMA NothingRaises ==
  ASSUME TypeOK, [Next]_vars, NEW k \in Calls
  PROVE  Rank(k)' <= Rank(k)
<1>1. ASSUME NEW j \in Calls, Serve(j) PROVE Rank(k)' <= Rank(k)
  <2>1. CASE j = k
    <3>1. Rank(k)' < Rank(k) /\ Rank(k) \in Nat /\ Rank(k)' \in Nat
      BY <1>1, <2>1, ServeLowers DEF Rank
    <3> QED
      BY <3>1
  <2>2. CASE j # k
    <3>1. pc'[k] = pc[k]
      BY <1>1, <2>2, ServeLowers
    <3> QED
      BY <3>1 DEF Rank
  <2> QED
    BY <2>1, <2>2
<1>2. CASE Arrive
  <2>1. PICK j \in Calls, phase \in {"wait", "read"} : Start(j, phase)
    BY <1>2 DEF Arrive, StartIssue, StartExchange, StartAuth, StartRevoke, Calls
  <2> QED
    BY <2>1 DEF Start, Goto, Rank, TypeOK
<1>3. ASSUME NEW j \in Calls, StoreFails(j) \/ LoseReply(j) PROVE Rank(k)' <= Rank(k)
  BY <1>3 DEF StoreFails, EndByError, LoseReply, Answering, Goto, Rank, TypeOK
<1>4. CASE Crash
  BY <1>4 DEF Crash, Running, Rank, TypeOK
<1>5. CASE Tick \/ UNCHANGED vars
  BY <1>5 DEF Tick, vars, Rank
<1> QED
  BY <1>1, <1>2, <1>3, <1>4, <1>5 DEF Next

\* Every step the server takes for a call brings it nearer to its end, no step
\* of anybody takes a call back, so that a call has at most five steps; and the
\* lock it may wait for is held by an exchange that can go on without it.
THEOREM CallsTakeBoundedSteps ==
  Spec => /\ []HolderNeverWaits
          /\ [][\A k \in Calls :
                   Rank(k)' <= Rank(k) /\ (Serve(k) => Rank(k)' < Rank(k))]_vars
<1> DEFINE Closer ==
      \A k \in Calls : Rank(k)' <= Rank(k) /\ (Serve(k) => Rank(k)' < Rank(k))
<1>1. Inv => HolderNeverWaits
  BY PairingAssumption DEF Inv, TypeOK, LockOwned, HolderNeverWaits, Calls
<1>2. Inv /\ [Next]_vars => Closer
  BY ServeLowers, NothingRaises DEF Inv
<1>3. Inv /\ [Next]_vars => [Closer]_vars
  BY <1>2
<1>4. Spec => [][Closer]_vars
  BY <1>3, Invariant, PTL DEF Spec
<1>5. Spec => []HolderNeverWaits
  BY <1>1, Invariant, PTL
<1> QED
  BY <1>4, <1>5
=============================================================================
