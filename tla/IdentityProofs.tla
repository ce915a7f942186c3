---------------------------- MODULE IdentityProofs ----------------------------
(***************************************************************************)
(* Proofs about IdentityCloud for any number of requests, configurations,  *)
(* deliveries and restarts.                                                *)
(*                                                                         *)
(* Everything rests on Settled being stable: once there is an identity and *)
(* nobody is about to write another, every later look finds one, so nobody *)
(* starts to.  The invariant follows what a call that arrived after that   *)
(* moment leaves behind, in the configuration and in deliveries.           *)
(***************************************************************************)
EXTENDS IdentityCloud, TLAPS

\* A call holds no identity before it arrives and one when it has looked, and
\* every identity in the process or in a file was on disk.
Known ==
  /\ \A k \in Creators : pc[k] = "idle" => got[k] = NULL
  /\ \A k \in Creators : pc[k] = "have" => got[k] # NULL
  /\ identity \in onFile \cup {NULL}
  /\ KeysAreDurable

\* Calls that arrived late found the identity settled, and it still is.
LateSettled ==
  /\ late # {} => Settled
  /\ \A k \in late : pc[k] # "idle"
  /\ LateAnswersAgree

\* The writers of a configuration that names the Server for sure.
Reliable == late \cup {Installed}

\* What a reliable writer wrote names the identity on file, and whoever reads
\* it arrived late too.
ReliableConfig ==
  /\ config # NULL /\ config.by \in Reliable =>
       Settled /\ config.server = identity
  /\ config # NULL /\ config.by \in Configures => pc[config.by] # "idle"
  /\ \A d \in Deliveries :
       loaded[d] # NULL =>
         /\ loaded[d].by \in Configures => pc[loaded[d].by] # "idle"
         /\ loaded[d].by \in Reliable => d \in late /\ loaded[d].server = identity

\* A delivery that goes on has read a configuration, and one that found a
\* mismatch holds another identity than the one it read.
Mismatched ==
  \A d \in Deliveries :
    /\ pc[d] \in {"look", "create", "have"} => loaded[d] # NULL
    /\ pc[d] = "mismatch" =>
         loaded[d] # NULL /\ got[d] # NULL /\ loaded[d].server # got[d]

\* While the configuration is cleared there is none, nobody writes one, and
\* who starts reads none.
Silent ==
  /\ cleared => config = NULL /\ \A k \in Configures : ~Running(k)
  /\ \A d \in muted : pc[d] # "idle" /\ loaded[d] = NULL

Inv ==
  /\ TypeOK
  /\ Known
  /\ LateSettled
  /\ ReliableConfig
  /\ Mismatched
  /\ Silent
-----------------------------------------------------------------------------
(* Initial states. *)

LEMMA InitInv == Init => Inv
<1> SUFFICES ASSUME Init PROVE Inv
  OBVIOUS
<1> USE IdentityCloudAssumption DEF Init
<1>1. config = NULL \/
         (identity = Installed /\ config = [by |-> Installed, server |-> Installed])
  OBVIOUS
<1>2. TypeOK
  BY <1>1 DEF TypeOK, Calls, Creators, Identities, Config, Phase
<1>3. Known
  BY <1>1 DEF Known, KeysAreDurable, Calls, Creators
<1>4. LateSettled
  BY DEF LateSettled, LateAnswersAgree
<1>5. ReliableConfig
  BY <1>1 DEF ReliableConfig, Reliable, Settled, Calls
<1>6. Mismatched
  BY DEF Mismatched, Calls
<1>7. Silent
  BY DEF Silent
<1> QED BY <1>2, <1>3, <1>4, <1>5, <1>6, <1>7 DEF Inv

-----------------------------------------------------------------------------
(* Steps. *)

\* Every step writes values of the right type.
LEMMA NextType == Inv /\ [Next]_vars => TypeOK'
<1> SUFFICES ASSUME Inv, [Next]_vars PROVE TypeOK'
  OBVIOUS
<1>0. TypeOK /\ Known
  BY DEF Inv
<1> USE <1>0, IdentityCloudAssumption DEF TypeOK, Calls, Creators, Identities, Config, Phase
<1>1. ASSUME NEW a \in Asks, StartAsk(a) PROVE TypeOK'
  BY <1>1 DEF StartAsk, Arrive, Goto
<1>2. ASSUME NEW k \in Configures, StartConfigure(k) PROVE TypeOK'
  <2>1. Heard \subseteq Identities \cup {Foreign, NULL}
    BY DEF Heard
  <2>2. PICK id \in Heard \cup {NULL} : wants' = [wants EXCEPT ![k] = id]
    BY <1>2 DEF StartConfigure
  <2>3. wants' \in [Configures -> Identities \cup {Foreign, NULL}]
    BY <2>1, <2>2
  <2> QED BY <1>2, <2>3 DEF StartConfigure, Arrive, Goto
<1>3. ASSUME NEW d \in Deliveries, StartDelivery(d) PROVE TypeOK'
  BY <1>3 DEF StartDelivery, Arrive, Goto
<1>4. ASSUME NEW x \in Clears, StartClear(x) PROVE TypeOK'
  BY <1>4 DEF StartClear, Arrive, Goto
<1>5. ASSUME NEW k \in Creators, LookForIdentity(k) PROVE TypeOK'
  BY <1>5 DEF LookForIdentity, Look, Goto
<1>6. ASSUME NEW k \in Creators, CreateIdentity(k) PROVE TypeOK'
  BY <1>6 DEF CreateIdentity, Holding, Goto
<1>7. ASSUME NEW a \in Asks, AnswerAsk(a) PROVE TypeOK'
  BY <1>7 DEF AnswerAsk, Ended, Goto
<1>8. ASSUME NEW k \in Configures, SaveConfig(k) PROVE TypeOK'
  <2>1. got[k] \in Identities
    BY <1>8 DEF SaveConfig, SaveFor, Ended, Known
  <2>2. config' \in Config
    BY <1>8, <2>1 DEF SaveConfig, SaveFor
  <2> QED BY <1>8, <2>2 DEF SaveConfig, SaveFor, Ended, Goto
<1>9. ASSUME NEW k \in Configures, RejectConfig(k) PROVE TypeOK'
  BY <1>9 DEF RejectConfig, Ended, Goto
<1>10. ASSUME NEW d \in Deliveries, SendEvent(d) PROVE TypeOK'
  BY <1>10 DEF SendEvent, Ended, Goto
<1>11. ASSUME NEW d \in Deliveries, DropEvent(d) PROVE TypeOK'
  BY <1>11 DEF DropEvent, Ended, Goto
<1>12. ASSUME NEW x \in Clears, ClearConfig(x) PROVE TypeOK'
  BY <1>12 DEF ClearConfig, Unlink, Goto
<1>13. ASSUME NEW k \in Calls, Fail(k) PROVE TypeOK'
  BY <1>13 DEF Fail, Goto, Running
<1>14. CASE Crash
  BY <1>14 DEF Crash, Running
<1>15. CASE UNCHANGED vars
  BY <1>15 DEF vars
<1> QED BY <1>1, <1>2, <1>3, <1>4, <1>5, <1>6, <1>7, <1>8, <1>9, <1>10, <1>11, <1>12,
  <1>13, <1>14, <1>15 DEF Next, GetOrCreate, Creators

\* An identity is on disk before any call holds it.
LEMMA NextKnown == Inv /\ [Next]_vars => Known'
<1> SUFFICES ASSUME Inv, [Next]_vars PROVE Known'
  OBVIOUS
<1>0. TypeOK /\ Known
  BY DEF Inv
<1> USE <1>0, IdentityCloudAssumption DEF TypeOK, Known, KeysAreDurable, Calls, Creators
<1>1. ASSUME NEW a \in Asks, StartAsk(a) PROVE Known'
  BY <1>1 DEF StartAsk, Arrive, Goto
<1>2. ASSUME NEW k \in Configures, StartConfigure(k) PROVE Known'
  BY <1>2 DEF StartConfigure, Arrive, Goto, Heard
<1>3. ASSUME NEW d \in Deliveries, StartDelivery(d) PROVE Known'
  BY <1>3 DEF StartDelivery, Arrive, Goto
<1>4. ASSUME NEW x \in Clears, StartClear(x) PROVE Known'
  BY <1>4 DEF StartClear, Arrive, Goto
<1>5. ASSUME NEW k \in Creators, LookForIdentity(k) PROVE Known'
  BY <1>5 DEF LookForIdentity, Look, Goto
<1>6. ASSUME NEW k \in Creators, CreateIdentity(k) PROVE Known'
  BY <1>6 DEF CreateIdentity, Holding, Goto
<1>7. ASSUME NEW a \in Asks, AnswerAsk(a) PROVE Known'
  BY <1>7 DEF AnswerAsk, Ended, Goto
<1>8. ASSUME NEW k \in Configures, SaveConfig(k) PROVE Known'
  BY <1>8 DEF SaveConfig, SaveFor, Ended, Goto
<1>9. ASSUME NEW k \in Configures, RejectConfig(k) PROVE Known'
  BY <1>9 DEF RejectConfig, Ended, Goto
<1>10. ASSUME NEW d \in Deliveries, SendEvent(d) PROVE Known'
  BY <1>10 DEF SendEvent, Ended, Goto
<1>11. ASSUME NEW d \in Deliveries, DropEvent(d) PROVE Known'
  BY <1>11 DEF DropEvent, Ended, Goto
<1>12. ASSUME NEW x \in Clears, ClearConfig(x) PROVE Known'
  BY <1>12 DEF ClearConfig, Unlink, Goto
<1>13. ASSUME NEW k \in Calls, Fail(k) PROVE Known'
  BY <1>13 DEF Fail, Goto, Running
<1>14. CASE Crash
  BY <1>14 DEF Crash, Running
<1>15. CASE UNCHANGED vars
  BY <1>15 DEF vars
<1> QED BY <1>1, <1>2, <1>3, <1>4, <1>5, <1>6, <1>7, <1>8, <1>9, <1>10, <1>11, <1>12,
  <1>13, <1>14, <1>15 DEF Next, GetOrCreate, Creators

\* A call that arrives and changes nothing but its own place is late only if the
\* identity is settled.
LEMMA ArrivalKeepsLate ==
  ASSUME TypeOK, Known, LateSettled, NEW k \in Calls, NEW phase \in {"look", "unlink", "done"},
         Arrive(k, phase), UNCHANGED <<identity, got>>
  PROVE  LateSettled'
<1> USE IdentityCloudAssumption DEF TypeOK, LateSettled, LateAnswersAgree, Settled, Arrive, Goto
<1>1. Settled => Settled'
  BY DEF Calls
<1>2. late # {} \/ late' # {} => Settled'
  BY <1>1
<1>3. \A j \in late' : pc'[j] # "idle"
  <2>1. \A j \in late : j # k /\ pc'[j] = pc[j]
    BY DEF Calls
  <2> QED BY <2>1 DEF Calls
<1>4. LateAnswersAgree'
  BY DEF Known
<1> QED BY <1>2, <1>3, <1>4

\* The identity stays settled, and late calls get it.
LEMMA NextLate == Inv /\ [Next]_vars => LateSettled'
<1> SUFFICES ASSUME Inv, [Next]_vars PROVE LateSettled'
  OBVIOUS
<1>0. TypeOK /\ Known /\ LateSettled
  BY DEF Inv
<1> USE <1>0, IdentityCloudAssumption DEF TypeOK, LateSettled, LateAnswersAgree, Settled, Calls, Creators
<1>1. ASSUME NEW a \in Asks, StartAsk(a) PROVE LateSettled'
  BY <1>1, ArrivalKeepsLate DEF StartAsk
<1>2. ASSUME NEW k \in Configures, StartConfigure(k) PROVE LateSettled'
  BY <1>2, ArrivalKeepsLate DEF StartConfigure
<1>3. ASSUME NEW d \in Deliveries, StartDelivery(d) PROVE LateSettled'
  BY <1>3, ArrivalKeepsLate DEF StartDelivery
<1>4. ASSUME NEW x \in Clears, StartClear(x) PROVE LateSettled'
  BY <1>4, ArrivalKeepsLate DEF StartClear
<1>5. ASSUME NEW k \in Creators, LookForIdentity(k) PROVE LateSettled'
  BY <1>5 DEF LookForIdentity, Look, Goto
<1>6. ASSUME NEW k \in Creators, CreateIdentity(k) PROVE LateSettled'
  BY <1>6 DEF CreateIdentity, Holding, Goto
<1>7. ASSUME NEW a \in Asks, AnswerAsk(a) PROVE LateSettled'
  BY <1>7 DEF AnswerAsk, Ended, Goto
<1>8. ASSUME NEW k \in Configures, SaveConfig(k) PROVE LateSettled'
  BY <1>8 DEF SaveConfig, SaveFor, Ended, Goto
<1>9. ASSUME NEW k \in Configures, RejectConfig(k) PROVE LateSettled'
  BY <1>9 DEF RejectConfig, Ended, Goto
<1>10. ASSUME NEW d \in Deliveries, SendEvent(d) PROVE LateSettled'
  BY <1>10 DEF SendEvent, Ended, Goto
<1>11. ASSUME NEW d \in Deliveries, DropEvent(d) PROVE LateSettled'
  BY <1>11 DEF DropEvent, Ended, Goto
<1>12. ASSUME NEW x \in Clears, ClearConfig(x) PROVE LateSettled'
  BY <1>12 DEF ClearConfig, Unlink, Goto
<1>13. ASSUME NEW k \in Calls, Fail(k) PROVE LateSettled'
  BY <1>13 DEF Fail, Goto, Running
<1>14. CASE Crash
  BY <1>14 DEF Crash, Running
<1>15. CASE UNCHANGED vars
  BY <1>15 DEF vars
<1> QED BY <1>1, <1>2, <1>3, <1>4, <1>5, <1>6, <1>7, <1>8, <1>9, <1>10, <1>11, <1>12,
  <1>13, <1>14, <1>15 DEF Next, GetOrCreate, Creators

\* A reliable writer holds the settled identity when it saves, and a reader of
\* what it wrote arrives when the identity is settled.
LEMMA NextReliable == Inv /\ [Next]_vars => ReliableConfig'
<1> SUFFICES ASSUME Inv, [Next]_vars PROVE ReliableConfig'
  OBVIOUS
<1>0. TypeOK /\ Known /\ LateSettled /\ ReliableConfig
  BY DEF Inv
<1> USE <1>0, IdentityCloudAssumption DEF TypeOK, Known, LateSettled, LateAnswersAgree,
  ReliableConfig, Reliable, Settled, Calls, Creators, Config, Identities
<1>1. ASSUME NEW a \in Asks, StartAsk(a) PROVE ReliableConfig'
  BY <1>1 DEF StartAsk, Arrive, Goto
<1>2. ASSUME NEW k \in Configures, StartConfigure(k) PROVE ReliableConfig'
  BY <1>2 DEF StartConfigure, Arrive, Goto, Heard
<1>3. ASSUME NEW d \in Deliveries, StartDelivery(d) PROVE ReliableConfig'
  BY <1>3 DEF StartDelivery, Arrive, Goto
<1>4. ASSUME NEW x \in Clears, StartClear(x) PROVE ReliableConfig'
  BY <1>4 DEF StartClear, Arrive, Goto
<1>5. ASSUME NEW k \in Creators, LookForIdentity(k) PROVE ReliableConfig'
  BY <1>5 DEF LookForIdentity, Look, Goto
<1>6. ASSUME NEW k \in Creators, CreateIdentity(k) PROVE ReliableConfig'
  BY <1>6 DEF CreateIdentity, Holding, Goto
<1>7. ASSUME NEW a \in Asks, AnswerAsk(a) PROVE ReliableConfig'
  BY <1>7 DEF AnswerAsk, Ended, Goto
<1>8. ASSUME NEW k \in Configures, SaveConfig(k) PROVE ReliableConfig'
  BY <1>8 DEF SaveConfig, SaveFor, Ended, Goto
<1>9. ASSUME NEW k \in Configures, RejectConfig(k) PROVE ReliableConfig'
  BY <1>9 DEF RejectConfig, Ended, Goto
<1>10. ASSUME NEW d \in Deliveries, SendEvent(d) PROVE ReliableConfig'
  BY <1>10 DEF SendEvent, Ended, Goto
<1>11. ASSUME NEW d \in Deliveries, DropEvent(d) PROVE ReliableConfig'
  BY <1>11 DEF DropEvent, Ended, Goto
<1>12. ASSUME NEW x \in Clears, ClearConfig(x) PROVE ReliableConfig'
  BY <1>12 DEF ClearConfig, Unlink, Goto
<1>13. ASSUME NEW k \in Calls, Fail(k) PROVE ReliableConfig'
  BY <1>13 DEF Fail, Goto, Running
<1>14. CASE Crash
  BY <1>14 DEF Crash, Running
<1>15. CASE UNCHANGED vars
  BY <1>15 DEF vars
<1> QED BY <1>1, <1>2, <1>3, <1>4, <1>5, <1>6, <1>7, <1>8, <1>9, <1>10, <1>11, <1>12,
  <1>13, <1>14, <1>15 DEF Next, GetOrCreate, Creators

\* A delivery keeps what it read until it ends.
LEMMA NextMismatched == Inv /\ [Next]_vars => Mismatched'
<1> SUFFICES ASSUME Inv, [Next]_vars PROVE Mismatched'
  OBVIOUS
<1>0. TypeOK /\ Known /\ Mismatched
  BY DEF Inv
<1> USE <1>0, IdentityCloudAssumption DEF TypeOK, Known, Mismatched, Calls, Creators
<1>1. ASSUME NEW a \in Asks, StartAsk(a) PROVE Mismatched'
  BY <1>1 DEF StartAsk, Arrive, Goto
<1>2. ASSUME NEW k \in Configures, StartConfigure(k) PROVE Mismatched'
  BY <1>2 DEF StartConfigure, Arrive, Goto, Heard
<1>3. ASSUME NEW d \in Deliveries, StartDelivery(d) PROVE Mismatched'
  BY <1>3 DEF StartDelivery, Arrive, Goto
<1>4. ASSUME NEW x \in Clears, StartClear(x) PROVE Mismatched'
  BY <1>4 DEF StartClear, Arrive, Goto
<1>5. ASSUME NEW k \in Creators, LookForIdentity(k) PROVE Mismatched'
  BY <1>5 DEF LookForIdentity, Look, Goto
<1>6. ASSUME NEW k \in Creators, CreateIdentity(k) PROVE Mismatched'
  BY <1>6 DEF CreateIdentity, Holding, Goto
<1>7. ASSUME NEW a \in Asks, AnswerAsk(a) PROVE Mismatched'
  BY <1>7 DEF AnswerAsk, Ended, Goto
<1>8. ASSUME NEW k \in Configures, SaveConfig(k) PROVE Mismatched'
  BY <1>8 DEF SaveConfig, SaveFor, Ended, Goto
<1>9. ASSUME NEW k \in Configures, RejectConfig(k) PROVE Mismatched'
  BY <1>9 DEF RejectConfig, Ended, Goto
<1>10. ASSUME NEW d \in Deliveries, SendEvent(d) PROVE Mismatched'
  BY <1>10 DEF SendEvent, Ended, Goto
<1>11. ASSUME NEW d \in Deliveries, DropEvent(d) PROVE Mismatched'
  BY <1>11 DEF DropEvent, Ended, Goto
<1>12. ASSUME NEW x \in Clears, ClearConfig(x) PROVE Mismatched'
  BY <1>12 DEF ClearConfig, Unlink, Goto
<1>13. ASSUME NEW k \in Calls, Fail(k) PROVE Mismatched'
  BY <1>13 DEF Fail, Goto, Running
<1>14. CASE Crash
  BY <1>14 DEF Crash, Running
<1>15. CASE UNCHANGED vars
  BY <1>15 DEF vars
<1> QED BY <1>1, <1>2, <1>3, <1>4, <1>5, <1>6, <1>7, <1>8, <1>9, <1>10, <1>11, <1>12,
  <1>13, <1>14, <1>15 DEF Next, GetOrCreate, Creators

\* A configuration appears only by the hand of a configure_cloud call that is
\* running, and that ends the silence when it arrives.
LEMMA NextSilent == Inv /\ [Next]_vars => Silent'
<1> SUFFICES ASSUME Inv, [Next]_vars PROVE Silent'
  OBVIOUS
<1>0. TypeOK /\ Silent
  BY DEF Inv
<1> USE <1>0, IdentityCloudAssumption DEF TypeOK, Silent, Running, Calls, Creators
<1>1. ASSUME NEW a \in Asks, StartAsk(a) PROVE Silent'
  BY <1>1 DEF StartAsk, Arrive, Goto
<1>2. ASSUME NEW k \in Configures, StartConfigure(k) PROVE Silent'
  BY <1>2 DEF StartConfigure, Arrive, Goto, Heard
<1>3. ASSUME NEW d \in Deliveries, StartDelivery(d) PROVE Silent'
  <2>1. PICK found \in {config, NULL} :
          loaded' = [loaded EXCEPT ![d] = found] /\ pc[d] = "idle"
    BY <1>3 DEF StartDelivery, Arrive
  <2>2. muted' = muted \/ (muted' = muted \cup {d} /\ config = NULL)
    BY <1>3 DEF StartDelivery
  <2>3. \A e \in muted' : pc'[e] # "idle" /\ loaded'[e] = NULL
    BY <1>3, <2>1, <2>2 DEF StartDelivery, Arrive, Goto
  <2>4. (cleared => config = NULL /\ \A k \in Configures : ~Running(k))'
    BY <1>3 DEF StartDelivery, Arrive, Goto
  <2> QED BY <2>3, <2>4
<1>4. ASSUME NEW x \in Clears, StartClear(x) PROVE Silent'
  BY <1>4 DEF StartClear, Arrive, Goto
<1>5. ASSUME NEW k \in Creators, LookForIdentity(k) PROVE Silent'
  BY <1>5 DEF LookForIdentity, Look, Goto
<1>6. ASSUME NEW k \in Creators, CreateIdentity(k) PROVE Silent'
  BY <1>6 DEF CreateIdentity, Holding, Goto
<1>7. ASSUME NEW a \in Asks, AnswerAsk(a) PROVE Silent'
  BY <1>7 DEF AnswerAsk, Ended, Goto
<1>8. ASSUME NEW k \in Configures, SaveConfig(k) PROVE Silent'
  BY <1>8 DEF SaveConfig, SaveFor, Ended, Goto
<1>9. ASSUME NEW k \in Configures, RejectConfig(k) PROVE Silent'
  BY <1>9 DEF RejectConfig, Ended, Goto
<1>10. ASSUME NEW d \in Deliveries, SendEvent(d) PROVE Silent'
  BY <1>10 DEF SendEvent, Ended, Goto
<1>11. ASSUME NEW d \in Deliveries, DropEvent(d) PROVE Silent'
  BY <1>11 DEF DropEvent, Ended, Goto
<1>12. ASSUME NEW x \in Clears, ClearConfig(x) PROVE Silent'
  BY <1>12 DEF ClearConfig, Unlink, Goto
<1>13. ASSUME NEW k \in Calls, Fail(k) PROVE Silent'
  BY <1>13 DEF Fail, Goto, Running
<1>14. CASE Crash
  BY <1>14 DEF Crash, Running
<1>15. CASE UNCHANGED vars
  BY <1>15 DEF vars
<1> QED BY <1>1, <1>2, <1>3, <1>4, <1>5, <1>6, <1>7, <1>8, <1>9, <1>10, <1>11, <1>12,
  <1>13, <1>14, <1>15 DEF Next, GetOrCreate, Creators

-----------------------------------------------------------------------------
(* The invariant and what follows from it. *)

LEMMA NextInv == Inv /\ [Next]_vars => Inv'
  BY NextType, NextKnown, NextLate, NextReliable, NextMismatched, NextSilent DEF Inv

\* The invariant holds in every reachable state.
THEOREM Invariant == Spec => []Inv
<1>1. Init => Inv
  BY InitInv
<1>2. Inv /\ [Next]_vars => Inv'
  BY NextInv
<1> QED BY <1>1, <1>2, PTL DEF Spec

\* The two files and the calls keep their types.
THEOREM TypeCorrect == Spec => []TypeOK
<1>1. Inv => TypeOK
  BY DEF Inv
<1> QED BY <1>1, Invariant, PTL

\* What get_or_create_identity gives away was on disk before.
THEOREM IdentitiesAreDurable == Spec => []KeysAreDurable
<1>1. Inv => KeysAreDurable
  BY DEF Inv, Known
<1> QED BY <1>1, Invariant, PTL

\* Whoever asks when the identity is settled hears the one on file.
THEOREM LateCallsAgree == Spec => []LateAnswersAgree
<1>1. Inv => LateAnswersAgree
  BY DEF Inv, LateSettled
<1> QED BY <1>1, Invariant, PTL

\* A configuration made when the identity was settled never causes a delivery
\* to drop its event as meant for another Server.
THEOREM ConfigurationsNameThisServer == Spec => []DropsOnlyAfterRace
<1>1. Inv => DropsOnlyAfterRace
  <2> SUFFICES ASSUME Inv, NEW d \in Deliveries, pc[d] = "mismatch",
                      loaded[d].by \in late \cup {Installed}
               PROVE  FALSE
    BY DEF DropsOnlyAfterRace
  <2>1. loaded[d] # NULL /\ got[d] # NULL /\ loaded[d].server # got[d]
    BY DEF Inv, Mismatched
  <2>2. d \in late /\ loaded[d].server = identity
    BY <2>1 DEF Inv, ReliableConfig, Reliable
  <2>3. got[d] = identity
    BY <2>1, <2>2 DEF Inv, LateSettled, LateAnswersAgree, Creators
  <2> QED BY <2>1, <2>2, <2>3
<1> QED BY <1>1, Invariant, PTL

\* A delivery that starts after the configuration was cleared sends nothing.
THEOREM ClearIsEffective == Spec => []ClearStopsDelivery
<1>1. Inv => ClearStopsDelivery
  BY DEF Inv, Silent, ClearStopsDelivery
<1> QED BY <1>1, Invariant, PTL

\* Only get_or_create_identity writes the identity, only a call that found none
\* does so, and no call finds none once there is one.
LEMMA NextSettled == Inv /\ [Next]_vars /\ Settled => Settled' /\ identity' = identity
<1> SUFFICES ASSUME Inv, [Next]_vars, Settled
             PROVE  Settled' /\ identity' = identity
  OBVIOUS
<1>0. TypeOK
  BY DEF Inv
<1> USE <1>0, IdentityCloudAssumption DEF TypeOK, Settled, Calls, Creators
<1>1. \A k \in Creators : ~CreateIdentity(k)
  BY DEF CreateIdentity, Holding
<1>2. ASSUME NEW k \in Creators, LookForIdentity(k)
      PROVE  Settled' /\ identity' = identity
  BY <1>2 DEF LookForIdentity, Look, Goto
<1>3. ASSUME identity' = identity,
             \A k \in Calls : pc'[k] = pc[k] \/ pc'[k] # "create"
      PROVE  Settled' /\ identity' = identity
  BY <1>3
<1>6. ASSUME NEW a \in Asks, StartAsk(a) \/ AnswerAsk(a)
      PROVE  Settled' /\ identity' = identity
  BY <1>3, <1>6 DEF StartAsk, AnswerAsk, Ended, Arrive, Goto
<1>7. ASSUME NEW k \in Configures, StartConfigure(k) \/ SaveConfig(k) \/ RejectConfig(k)
      PROVE  Settled' /\ identity' = identity
  BY <1>3, <1>7 DEF StartConfigure, SaveConfig, SaveFor, RejectConfig, Ended, Arrive, Goto
<1>8. ASSUME NEW d \in Deliveries, StartDelivery(d) \/ SendEvent(d) \/ DropEvent(d)
      PROVE  Settled' /\ identity' = identity
  BY <1>3, <1>8 DEF StartDelivery, SendEvent, DropEvent, Ended, Arrive, Goto
<1>9. ASSUME NEW k \in Clears, StartClear(k) \/ ClearConfig(k)
      PROVE  Settled' /\ identity' = identity
  BY <1>3, <1>9 DEF StartClear, ClearConfig, Unlink, Arrive, Goto
<1>10. ASSUME NEW k \in Calls, Fail(k)
      PROVE  Settled' /\ identity' = identity
  BY <1>3, <1>10 DEF Fail, Goto
<1>4. CASE Crash
  BY <1>4 DEF Crash, Running
<1>5. CASE UNCHANGED vars
  BY <1>5 DEF vars
<1> QED BY <1>1, <1>2, <1>4, <1>5, <1>6, <1>7, <1>8, <1>9, <1>10 DEF Next, GetOrCreate

\* Once settled, the server id never changes.
THEOREM IdentityIsImmutable == Spec => SettledForGood
<1>1. Inv /\ [Next]_vars => [Settled => Settled' /\ identity' = identity]_vars
  BY NextSettled
<1>2. Spec => [][Settled => Settled' /\ identity' = identity]_vars
  BY <1>1, Invariant, PTL DEF Spec
<1> QED BY <1>2 DEF SettledForGood
=============================================================================
