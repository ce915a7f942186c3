-------------------------- MODULE PairingRefinement --------------------------
(***************************************************************************)
(* Proof that Pairing implements PairingContract.                          *)
(*                                                                         *)
(* Of the four steps that write the tables, three are a step of the        *)
(* contract each: committing a ticket offers its code, committing an       *)
(* exchange redeems it, committing a revocation revokes.  The fourth       *)
(* writes the time of a device's last use, which the contract does not     *)
(* see.  Everything else, locks, clocks, refusals, lost replies and        *)
(* crashes, is a stutter.                                                  *)
(***************************************************************************)
EXTENDS PairingProofs

View == <<Offered, Paired, RevokedDevices>>

\* Steps that write no row, or nothing the contract sees of one.
LEMMA UnseenStep ==
  ASSUME UNCHANGED <<input, tickets>>, DOMAIN devices' = DOMAIN devices,
         \A d \in DOMAIN devices : /\ devices'[d].scope = devices[d].scope
                                   /\ devices'[d].revoked = devices[d].revoked
  PROVE  UNCHANGED View
<1>1. UNCHANGED Offered
  BY DEF Offered
<1>2. UNCHANGED Paired
  BY DEF Paired, CodeOf
<1>3. UNCHANGED RevokedDevices
  BY DEF RevokedDevices
<1> QED BY <1>1, <1>2, <1>3 DEF View

\* create_ticket puts a new code on offer.
LEMMA IssueOffers ==
  ASSUME Inv, NEW c \in Issues, CommitIssue(c)
  PROVE  \E scope \in SUBSET Names : Contract!Offer(c, scope)
<1> DEFINE scope == Normalize(input.names[c])
           row == [expires |-> now[c] + input.ttl[c], scope |-> scope, used |-> NULL]
<1>0. TypeOK /\ Answered /\ TicketMatchesDevice
  BY DEF Inv
<1>1. /\ DOMAIN tickets' = DOMAIN tickets \cup {c}
      /\ tickets'[c] = row
      /\ \A x \in DOMAIN tickets \ {c} : tickets'[x] = tickets[x]
      /\ UNCHANGED <<input, devices>>
  BY DEF CommitIssue, Put
<1>2. c \notin DOMAIN tickets
  BY <1>0 DEF CommitIssue, Answered, Calls
<1>3. scope \in SUBSET Names
  BY <1>0, PairingAssumption DEF TypeOK, Input, Normalize
<1>4. c \notin DOMAIN Offered
  BY <1>2 DEF Offered
<1>5. ~Contract!Redeemed(c)
  BY <1>0, <1>2 DEF Contract!Redeemed, Paired, TicketMatchesDevice
<1>6. Offered' = Contract!Extend(Offered, c, scope)
  <2>1. DOMAIN Offered' = DOMAIN Offered \cup {c}
    BY <1>1, <1>2 DEF Offered
  <2>2. \A x \in DOMAIN Offered' : Offered'[x] = IF x = c THEN scope ELSE Offered[x]
    BY <1>1, <1>2 DEF Offered
  <2>3. Offered' = [x \in DOMAIN Offered' |-> Offered'[x]]
    BY DEF Offered
  <2> QED BY <2>1, <2>2, <2>3 DEF Contract!Extend
<1>7. UNCHANGED <<Paired, RevokedDevices>>
  BY <1>1 DEF Paired, RevokedDevices, CodeOf
<1> QED BY <1>3, <1>4, <1>5, <1>6, <1>7 DEF Contract!Offer

\* exchange takes the code from the offer and registers the device, with the
\* scope that was offered.
LEMMA ExchangeRedeems ==
  ASSUME Inv, NEW d \in Exchanges, CommitExchange(d)
  PROVE  Contract!Redeem(CodeOf(d), d)
<1> DEFINE c == CodeOf(d)
           row == [scope |-> Normalize(tickets[c].scope),
                   created |-> now[d], lastUsed |-> now[d], revoked |-> NULL]
<1>0. TypeOK /\ CheckedTicket /\ Answered /\ CleanScope
  BY DEF Inv
<1>1. /\ pc[d] = "inserted"
      /\ input' = input
      /\ tickets' = [tickets EXCEPT ![c].used = now[d]]
      /\ DOMAIN devices' = DOMAIN devices \cup {d}
      /\ devices'[d] = row
      /\ \A x \in DOMAIN devices \ {d} : devices'[x] = devices[x]
  BY DEF CommitExchange, CommitRows, Put
<1>2. c \in DOMAIN tickets /\ tickets[c].used = NULL
  BY <1>0, <1>1 DEF CheckedTicket, Refusal
<1>3. now[d] # NULL /\ tickets[c] \in Ticket
  BY <1>0, <1>2, PairingAssumption DEF TypeOK, Calls
<1>4. /\ DOMAIN tickets' = DOMAIN tickets
      /\ tickets'[c].used # NULL
      /\ \A x \in DOMAIN tickets \ {c} : tickets'[x] = tickets[x]
  BY <1>1, <1>2, <1>3 DEF Ticket
<1>5. d \notin DOMAIN devices
  BY <1>0, <1>1, PairingAssumption DEF Answered, Calls, Answer
<1>6. c \in DOMAIN Offered /\ d \notin DOMAIN Paired
  BY <1>2, <1>5 DEF Offered, Paired
<1>7. row.scope = Offered[c]
  BY <1>0, <1>2 DEF CleanScope, Offered
<1>8. Offered' = Contract!Drop(Offered, c)
  <2>1. DOMAIN Offered' = DOMAIN Offered \ {c}
    BY <1>4 DEF Offered
  <2>2. \A x \in DOMAIN Offered' : Offered'[x] = Offered[x]
    BY <1>4 DEF Offered
  <2>3. Offered' = [x \in DOMAIN Offered' |-> Offered'[x]]
    BY DEF Offered
  <2> QED BY <2>1, <2>2, <2>3 DEF Contract!Drop
<1>9. Paired' = Contract!Extend(Paired, d, [code |-> c, scope |-> Offered[c]])
  <2>1. DOMAIN Paired' = DOMAIN Paired \cup {d}
    BY <1>1 DEF Paired
  <2>2. \A x \in DOMAIN Paired : Paired'[x] = Paired[x]
    BY <1>1, <1>5 DEF Paired, CodeOf
  <2>3. Paired'[d] = [code |-> c, scope |-> Offered[c]]
    BY <1>1, <1>7 DEF Paired, CodeOf
  <2>4. Paired' = [x \in DOMAIN Paired' |-> Paired'[x]]
    BY DEF Paired
  <2> QED BY <1>6, <2>1, <2>2, <2>3, <2>4 DEF Contract!Extend
<1>10. UNCHANGED RevokedDevices
  BY <1>1, <1>5 DEF RevokedDevices
<1> QED BY <1>6, <1>8, <1>9, <1>10 DEF Contract!Redeem

\* Only revoked_at and last_used_at of a registered device are written later.
LEMMA DeviceWrites ==
  ASSUME Inv, NEW k \in Auths \cup Revokes,
         devices' = devices
         \/ \E time \in Nat : \/ devices' = [devices EXCEPT ![TokenOf(k)].lastUsed = time]
                              \/ devices' = [devices EXCEPT ![TokenOf(k)].revoked = time]
  PROVE  /\ DOMAIN devices' = DOMAIN devices
         /\ \A d \in DOMAIN devices : devices'[d].scope = devices[d].scope
  BY DEF Inv, TypeOK, Device

\* revoke_device_token revokes the device of its token, or changes nothing.
LEMMA RevokeRevokes ==
  ASSUME Inv, NEW r \in Revokes, CommitRevoke(r)
  PROVE  Contract!Revoke(TokenOf(r)) \/ UNCHANGED View
<1> DEFINE d == TokenOf(r)
<1>0. TypeOK
  BY DEF Inv
<1>1. now[r] \in Nat /\ now[r] # NULL
  BY <1>0, PairingAssumption DEF TypeOK, Calls
<1>2. CASE d \in DOMAIN devices /\ ~IsRevoked(d)
  <2>1. devices' = [devices EXCEPT ![d].revoked = now[r]] /\ UNCHANGED <<input, tickets>>
    BY <1>2 DEF CommitRevoke, Revoke
  <2>2. /\ DOMAIN devices' = DOMAIN devices
        /\ \A x \in DOMAIN devices : devices'[x].scope = devices[x].scope
    BY <1>1, <2>1, DeviceWrites
  <2>3. devices'[d].revoked = now[r] /\ \A x \in DOMAIN devices \ {d} : devices'[x] = devices[x]
    BY <1>0, <1>2, <2>1 DEF TypeOK, Device
  <2>4. UNCHANGED <<Offered, Paired>>
    BY <2>1, <2>2 DEF Offered, Paired, CodeOf
  <2>5. RevokedDevices' = RevokedDevices \cup {d}
    BY <1>1, <1>2, <2>2, <2>3 DEF RevokedDevices
  <2>6. d \in DOMAIN Paired \ RevokedDevices
    BY <1>2 DEF Paired, RevokedDevices, IsRevoked
  <2> QED BY <2>4, <2>5, <2>6 DEF Contract!Revoke
<1>3. CASE ~(d \in DOMAIN devices /\ ~IsRevoked(d))
  BY <1>3, UnseenStep DEF CommitRevoke, Revoke
<1> QED BY <1>2, <1>3

\* device_profile_ids writes nothing that the contract sees.
LEMMA TouchIsUnseen ==
  ASSUME Inv, NEW a \in Auths, TouchDevice(a)
  PROVE  UNCHANGED View
<1>1. \A d \in DOMAIN devices : /\ devices'[d].scope = devices[d].scope
                                /\ devices'[d].revoked = devices[d].revoked
  BY DEF TouchDevice, Touch, Inv, TypeOK, Device
<1> QED BY <1>1, UnseenStep DEF TouchDevice, Touch

LEMMA InitMaps == Init => Contract!Init
<1> SUFFICES ASSUME Init PROVE Contract!Init
  OBVIOUS
<1>1. DOMAIN tickets = {} /\ DOMAIN devices = {}
  BY DEF Init
<1>2. Offered = [c \in {} |-> {}] /\ Paired = [d \in {} |-> {}] /\ RevokedDevices = {}
  BY <1>1 DEF Offered, Paired, RevokedDevices
<1> QED BY <1>2 DEF Contract!Init

LEMMA NextMaps == Inv /\ [Next]_vars => [Contract!Next]_Contract!contract
<1> SUFFICES ASSUME Inv, [Next]_vars PROVE Contract!Next \/ UNCHANGED View
  BY DEF View, Contract!contract
<1>1. CASE Silent
  BY <1>1, UnseenStep DEF Silent
<1>2. ASSUME NEW c \in Issues, CommitIssue(c) PROVE Contract!Next
  BY <1>2, IssueOffers DEF Contract!Next
<1>3. ASSUME NEW d \in Exchanges, CommitExchange(d) PROVE Contract!Next
  <2>1. CodeOf(d) \in Issues
    BY DEF Inv, TypeOK, Input, CodeOf
  <2> QED BY <1>3, <2>1, ExchangeRedeems DEF Contract!Next
<1>4. ASSUME NEW a \in Auths, TouchDevice(a) PROVE UNCHANGED View
  BY <1>4, TouchIsUnseen
<1>5. ASSUME NEW r \in Revokes, CommitRevoke(r) PROVE Contract!Next \/ UNCHANGED View
  <2>1. TokenOf(r) \in Exchanges
    BY DEF Inv, TypeOK, Input, TokenOf
  <2> QED BY <1>5, <2>1, RevokeRevokes DEF Contract!Next
<1> QED BY <1>1, <1>2, <1>3, <1>4, <1>5, Writers

\* The store implements the contract: seen through the mapping, every behaviour
\* of tickets, locks, time-outs and crashes offers, redeems and revokes in
\* single steps, each code once.
THEOREM Implements == Spec => KeepsContract
<1>1. Spec => Contract!Init /\ [][Contract!Next]_Contract!contract
  BY InitMaps, NextMaps, Invariant, PTL DEF Spec
<1> QED BY <1>1 DEF KeepsContract, Contract!Spec
=============================================================================
