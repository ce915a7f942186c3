----------------------------- MODULE AgentProofs -----------------------------
(***************************************************************************)
(* Proofs about AgentAccess, and with it ChatRelay: for any number of       *)
(* requests, deployments and crashes, any length of a chat, any scopes.     *)
(*                                                                         *)
(* What the App and the notifications see follows one chat through the      *)
(* relay; what the Agent lets through follows the numbers of the            *)
(* credentials through a deployment.                                        *)
(***************************************************************************)
EXTENDS AgentAccess, TLAPS

\* What was written to the App is what the relay handled while it was there.
Written ==
  \A c \in Chats :
    /\ Len(sent[c]) <= read[c]
    /\ connected[c] \/ pc[c] = "idle" => Len(sent[c]) = read[c]
    /\ \A i \in 1..Len(sent[c]) : sent[c][i] = emitted[c][i]

\* Of the terminal blocks among the first n the last one completes the chat.
LastCompletes(c, n) ==
  \E i \in 1..n :
    /\ emitted[c][i] \in {"stop", "DONE"}
    /\ \A j \in 1..n : j > i => emitted[c][j] # "error"

\* A chat is completed because of the blocks that the relay has handled.
CompletedBy ==
  \A c \in Chats : terminal[c] = "completed" => LastCompletes(c, read[c])

\* The relay has seen the end of the chat and how it ended.
Ended(c) ==
  /\ agent[c] = "closed"
  /\ read[c] = Len(emitted[c])
  /\ LastCompletes(c, read[c])

\* Only an ended chat comes to its notifications.
EndedFirst ==
  \A c \in Chats :
    \/ pc[c] \in {"publishing", "cloud"}
    \/ notice[c] # "none"
    \/ cloud[c] # "none"
    => Ended(c)

\* Each of them has its turn, and had none before; an App is there at first.
InTurn ==
  \A c \in Chats :
    /\ pc[c] \in {"idle", "relaying", "publishing"} => notice[c] = "none"
    /\ pc[c] \in {"idle", "relaying", "publishing", "cloud"} => cloud[c] = "none"
    /\ pc[c] = "idle" => connected[c]

ChatInv == TypeOK /\ Written /\ CompletedBy /\ EndedFirst /\ InTurn

-----------------------------------------------------------------------------
(* The relay. *)

\* A step of one chat that neither emits nor handles a block.
LEMMA Elsewhere ==
  ASSUME ChatInv, NEW c \in Chats,
         UNCHANGED <<named, emitted, read, terminal, sent, crashes>>,
         NEW where \in Phase \ {"idle"}, pc' = [pc EXCEPT ![c] = where],
         where \notin {"relaying", "cloud"},
         where = "publishing" => pc[c] = "relaying" /\ Ended(c),
         agent' = agent, connected' = connected,
         UNCHANGED <<notice, cloud>>
  PROVE  ChatInv'
<1> USE DEF ChatInv
<1>1. TypeOK'
  BY DEF TypeOK
<1>2. Written' /\ CompletedBy'
  BY DEF TypeOK, Written, CompletedBy, LastCompletes
<1>3. EndedFirst'
  <2> SUFFICES ASSUME NEW d \in Chats,
                      \/ pc'[d] \in {"publishing", "cloud"}
                      \/ notice[d] # "none"
                      \/ cloud[d] # "none"
               PROVE  Ended(d)
    BY DEF EndedFirst, Ended, LastCompletes
  <2>1. pc'[d] = IF d = c THEN where ELSE pc[d]
    BY DEF TypeOK
  <2>2. EndedFirst
    OBVIOUS
  <2> HIDE DEF ChatInv
  <2> QED
    BY <2>1, <2>2 DEF EndedFirst
<1>4. InTurn'
  <2>1. \A d \in Chats \ {c} : pc'[d] = pc[d]
    BY DEF TypeOK
  <2>2. pc'[c] = where
    BY DEF TypeOK
  <2> QED
    BY <2>1, <2>2 DEF InTurn, Phase
<1> QED
  BY <1>1, <1>2, <1>3, <1>4

LEMMA EmitKeeps ==
  ASSUME ChatInv, NEW c \in Chats, NEW block \in Block, NEW next \in AgentState,
         agent[c] # "closed", Emit(c, block, next)
  PROVE  ChatInv'
<1> USE DEF ChatInv, Emit
<1>1. /\ emitted' \in [Chats -> Seq(Block)]
      /\ agent' \in [Chats -> AgentState]
      /\ emitted'[c] = Append(emitted[c], block)
      /\ \A d \in Chats \ {c} : emitted'[d] = emitted[d] /\ agent'[d] = agent[d]
  BY DEF TypeOK
<1>2. \A d \in Chats :
        /\ Len(emitted[d]) \in Nat
        /\ Len(emitted[d]) <= Len(emitted'[d])
        /\ \A i \in 1..Len(emitted[d]) : emitted'[d][i] = emitted[d][i]
  <2> TAKE d \in Chats
  <2>1. emitted[d] \in Seq(Block)
    BY DEF TypeOK
  <2>2. CASE d = c
    BY <1>1, <2>1, <2>2
  <2>3. CASE d # c
    BY <1>1, <2>1, <2>3
  <2> QED
    BY <2>2, <2>3
<1>3. \A d \in Chats : read[d] \in Nat /\ read[d] <= Len(emitted[d])
  BY DEF TypeOK
<1>4. TypeOK'
  <2>1. \A d \in Chats : read'[d] <= Len(emitted'[d])
    <3>1. \A d \in Chats : Len(emitted'[d]) \in Nat
      BY <1>1
    <3> QED
      BY <1>2, <1>3, <3>1
  <2> QED
    BY <1>1, <2>1 DEF TypeOK
<1>5. Written'
  <2>1. \A d \in Chats : Len(sent[d]) \in Nat
    BY DEF TypeOK
  <2>2. \A d \in Chats : \A i \in 1..Len(sent[d]) : i \in 1..Len(emitted[d])
    BY <1>2, <1>3, <2>1 DEF Written
  <2> QED
    BY <1>2, <2>2 DEF Written
<1>6. CompletedBy'
  <2>1. \A d \in Chats : \A i \in 1..read[d] : i \in 1..Len(emitted[d])
    BY <1>2, <1>3
  <2> QED
    BY <1>2, <2>1 DEF CompletedBy, LastCompletes
<1>7. EndedFirst' /\ InTurn'
  BY <1>1 DEF EndedFirst, Ended, LastCompletes, InTurn
<1> QED
  BY <1>4, <1>5, <1>6, <1>7

\* The Agent's side of a chat ends, by itself or because the Agent does.
LEMMA CutKeeps ==
  ASSUME ChatInv, crashes' \in Nat,
         UNCHANGED <<named, emitted, pc, read, terminal, connected, sent, notice, cloud>>,
         agent' \in [Chats -> AgentState],
         \A c \in Chats : agent[c] = "closed" => agent'[c] = agent[c]
  PROVE  ChatInv'
<1> USE DEF ChatInv
<1>1. TypeOK'
  BY DEF TypeOK
<1>2. Written' /\ CompletedBy'
  BY DEF Written, CompletedBy, LastCompletes
<1>3. EndedFirst' /\ InTurn'
  BY DEF EndedFirst, Ended, LastCompletes, InTurn
<1> QED
  BY <1>1, <1>2, <1>3

LEMMA AgentStepKeeps ==
  ASSUME ChatInv, NEW c \in Chats, AgentStep(c)
  PROVE  ChatInv'
<1>1. CASE EmitContent(c)
  <2>1. agent[c] = "answering" /\ Emit(c, "content", "answering")
    BY <1>1 DEF EmitContent
  <2> QED
    BY <2>1, EmitKeeps DEF Block, AgentState
<1>2. CASE EmitFinish(c)
  <2>1. agent[c] = "answering" /\ \E block \in Block : Emit(c, block, "finished")
    BY <1>2 DEF EmitFinish, Block
  <2> QED
    BY <2>1, EmitKeeps DEF AgentState
<1>3. CASE EmitDone(c)
  <2>1. agent[c] # "closed" /\ Emit(c, "DONE", "closed")
    BY <1>3 DEF EmitDone
  <2> QED
    BY <2>1, EmitKeeps DEF Block, AgentState
<1>4. CASE CutOff(c)
  <2>1. /\ UNCHANGED <<named, emitted, pc, read, terminal, connected, sent, notice, cloud>>
        /\ crashes' \in Nat
    BY <1>4 DEF CutOff, ChatInv, TypeOK
  <2>2. /\ agent' \in [Chats -> AgentState]
        /\ \A d \in Chats : agent[d] = "closed" => agent'[d] = agent[d]
    BY <1>4 DEF CutOff, ChatInv, TypeOK, AgentState
  <2> QED
    BY <2>1, <2>2, CutKeeps
<1> QED
  BY <1>1, <1>2, <1>3, <1>4 DEF AgentStep

\* Numbers up to n and one more.
LEMMA OneMore ==
  ASSUME NEW n \in Nat
  PROVE  1..(n + 1) = 1..n \cup {n + 1}
  OBVIOUS

\* One block is handled: noted, and written to an App that is there.
LEMMA RelayKeeps ==
  ASSUME ChatInv, NEW c \in Chats, Relay(c)
  PROVE  ChatInv'
<1> DEFINE block == emitted[c][read[c] + 1]
<1>1. /\ read' = [read EXCEPT ![c] = @ + 1]
      /\ terminal' = [terminal EXCEPT ![c] = After(@, block)]
      /\ read[c] < Len(emitted[c]) /\ pc[c] = "relaying"
      /\ UNCHANGED <<named, agent, emitted, notice, cloud, crashes>>
  BY DEF Relay, Handle
<1>2. \/ /\ connected[c]
         /\ sent' = [sent EXCEPT ![c] = Append(@, block)]
         /\ UNCHANGED <<pc, connected>>
      \/ /\ connected' = [connected EXCEPT ![c] = FALSE]
         /\ pc' = [pc EXCEPT ![c] = "relaying"]
         /\ sent' = sent
      \/ ~connected[c] /\ UNCHANGED <<pc, connected, sent>>
  BY DEF Relay, Handle, Goto
<1>3. emitted[c] \in Seq(Block) /\ sent[c] \in Seq(Block) /\ read[c] \in Nat
  BY DEF ChatInv, TypeOK
<1>4. block \in Block /\ read[c] + 1 \in 1..Len(emitted[c])
  BY <1>1, <1>3
<1>5. pc' = pc
  BY <1>1, <1>2 DEF ChatInv, TypeOK
<1>6. TypeOK'
  <2>1. read' \in [Chats -> Nat] /\ \A d \in Chats : read'[d] <= Len(emitted'[d])
    BY <1>1, <1>3 DEF ChatInv, TypeOK
  <2>2. terminal' \in [Chats -> {"none", "completed", "failed"}]
    BY <1>1 DEF ChatInv, TypeOK, After, StateOf
  <2>3. sent' \in [Chats -> Seq(Block)]
    <3>1. Append(sent[c], block) \in Seq(Block)
      BY <1>3, <1>4
    <3>2. sent \in [Chats -> Seq(Block)]
      BY DEF ChatInv, TypeOK
    <3>3. CASE sent' = [sent EXCEPT ![c] = Append(@, block)]
      BY <3>1, <3>2, <3>3
    <3> QED
      BY <1>2, <3>2, <3>3
  <2>4. connected' \in [Chats -> BOOLEAN]
    BY <1>2, Zenon DEF ChatInv, TypeOK
  <2> QED
    BY <1>1, <1>5, <2>1, <2>2, <2>3, <2>4 DEF ChatInv, TypeOK
<1>7. Written'
  <2> SUFFICES ASSUME NEW d \in Chats
               PROVE  /\ Len(sent'[d]) <= read'[d]
                      /\ connected'[d] \/ pc[d] = "idle" => Len(sent'[d]) = read'[d]
                      /\ \A i \in 1..Len(sent'[d]) : sent'[d][i] = emitted'[d][i]
    BY <1>5 DEF Written
  <2>1. CASE d # c
    <3>1. sent'[d] = sent[d] /\ read'[d] = read[d] /\ connected'[d] = connected[d]
      BY <1>1, <1>2, <2>1 DEF ChatInv, TypeOK
    <3> QED
      BY <1>1, <3>1 DEF ChatInv, Written
  <2>2. CASE d = c /\ connected[c] /\ sent' = [sent EXCEPT ![c] = Append(@, block)]
    <3>1. /\ sent'[c] = Append(sent[c], block) /\ Len(sent[c]) = read[c]
          /\ read'[c] = read[c] + 1
      BY <1>1, <2>2 DEF ChatInv, TypeOK, Written
    <3>2. \A i \in 1..Len(sent[c]) : sent[c][i] = emitted[c][i]
      BY DEF ChatInv, Written
    <3>3. \A i \in 1..Len(sent'[c]) : sent'[c][i] = emitted[c][i]
      BY <1>3, <3>1, <3>2
    <3> QED
      BY <1>1, <1>3, <2>2, <3>1, <3>3
  <2>3. CASE d = c /\ sent' = sent
    <3>1. ~connected'[c] /\ read'[c] = read[c] + 1
      <4>1. ~connected'[c]
        <5>1. CASE connected' = [connected EXCEPT ![c] = FALSE]
          BY <5>1 DEF ChatInv, TypeOK
        <5>2. CASE ~connected[c] /\ connected' = connected
          BY <5>2
        <5>3. CASE sent' = [sent EXCEPT ![c] = Append(@, block)]
          <6>1. sent'[c] = Append(sent[c], block)
            BY <5>3 DEF ChatInv, TypeOK
          <6> QED
            BY <1>3, <1>4, <2>3, <6>1
        <5> QED
          BY <1>2, <5>1, <5>2, <5>3
      <4> QED
        BY <1>1, <4>1 DEF ChatInv, TypeOK
    <3>2. Len(sent[c]) <= read[c] /\ \A i \in 1..Len(sent[c]) : sent[c][i] = emitted[c][i]
      BY DEF ChatInv, Written
    <3> QED
      BY <1>1, <1>3, <2>3, <3>1, <3>2
  <2> QED
    BY <1>2, <2>1, <2>2, <2>3
<1>8. CompletedBy'
  <2> SUFFICES ASSUME NEW d \in Chats, terminal'[d] = "completed"
               PROVE  LastCompletes(d, read[d])'
    BY DEF CompletedBy
  <2>1. CASE d # c
    BY <1>1, <2>1 DEF ChatInv, TypeOK, CompletedBy, LastCompletes
  <2>2. CASE d = c
    <3>1. read'[c] = read[c] + 1
      BY <1>1 DEF ChatInv, TypeOK
    <3>2. terminal'[c] = After(terminal[c], block)
      BY <1>1 DEF ChatInv, TypeOK
    <3>3. CASE block \in {"stop", "DONE"}
      <4>1. read[c] + 1 \in 1..read'[c] /\ \A j \in 1..read'[c] : ~ (j > read[c] + 1)
        BY <1>3, <3>1
      <4> QED
        BY <1>1, <2>2, <3>1, <3>3, <4>1 DEF LastCompletes
    <3>4. CASE block \notin {"stop", "DONE"}
      <4>1. terminal[c] = "completed" /\ block # "error"
        BY <2>2, <3>2, <3>4 DEF After, StateOf
      <4>2. PICK i \in 1..read[c] :
              /\ emitted[c][i] \in {"stop", "DONE"}
              /\ \A j \in 1..read[c] : j > i => emitted[c][j] # "error"
        BY <4>1 DEF ChatInv, CompletedBy, LastCompletes
      <4>3. 1..read'[c] = 1..read[c] \cup {read[c] + 1}
        BY <1>3, <3>1, OneMore
      <4>4. i \in 1..read'[c] /\ \A j \in 1..read'[c] : j \in 1..read[c] \/ j = read[c] + 1
        BY <4>3
      <4> QED
        BY <1>1, <2>2, <3>1, <4>1, <4>2, <4>4 DEF LastCompletes
    <3> QED
      BY <3>3, <3>4
  <2> QED
    BY <2>1, <2>2
<1>9. EndedFirst'
  <2> SUFFICES ASSUME NEW d \in Chats,
                      \/ pc[d] \in {"publishing", "cloud"}
                      \/ notice[d] # "none"
                      \/ cloud[d] # "none"
               PROVE  Ended(d)'
    BY <1>1, <1>5 DEF EndedFirst
  <2>1. Ended(d)
    BY DEF ChatInv, EndedFirst
  <2>2. d # c
    BY <1>1, <1>3, <2>1 DEF Ended
  <2> QED
    BY <1>1, <2>1, <2>2 DEF Ended, LastCompletes, ChatInv, TypeOK
<1>10. InTurn'
  <2>1. pc'[c] = "relaying" /\ \A d \in Chats \ {c} : connected'[d] = connected[d]
    BY <1>1, <1>2, <1>5 DEF ChatInv, TypeOK
  <2> QED
    BY <1>1, <1>5, <2>1 DEF ChatInv, InTurn
<1> QED
  BY <1>6, <1>7, <1>8, <1>9, <1>10 DEF ChatInv

\* The thread goes on, or ends, without a block.
LEMMA ThreadKeeps ==
  ASSUME ChatInv, NEW c \in Chats, Thread(c)
  PROVE  ChatInv'
<1>1. CASE Relay(c)
  BY <1>1, RelayKeeps
<1>2. CASE EndRelay(c)
  <2> DEFINE next == IF terminal[c] = "completed" THEN "publishing" ELSE "done"
  <2>1. /\ pc' = [pc EXCEPT ![c] = next]
        /\ read[c] = Len(emitted[c]) /\ agent[c] = "closed"
        /\ UNCHANGED <<named, emitted, read, terminal, sent, crashes, agent, connected,
                      notice, cloud>>
    BY <1>2 DEF EndRelay, Goto
  <2>2. next \in Phase \ {"idle"}
    BY DEF Phase
  <2>3. next = "publishing" => Ended(c)
    BY <2>1 DEF ChatInv, CompletedBy, Ended
  <2>4. next \notin {"relaying", "cloud"} /\ pc[c] = "relaying"
    BY <1>2 DEF EndRelay
  <2> QED
    BY <2>1, <2>2, <2>3, <2>4, Elsewhere
<1>3. CASE AbortRelay(c)
  <2>1. /\ pc' = [pc EXCEPT ![c] = "aborted"]
        /\ UNCHANGED <<named, emitted, read, terminal, sent, crashes, agent, connected,
                      notice, cloud>>
    BY <1>3 DEF AbortRelay, Goto
  <2> QED
    BY <2>1, Elsewhere DEF Phase
<1>4. ASSUME Ended(c),
             UNCHANGED <<named, agent, emitted, read, terminal, connected, sent, crashes>>,
             pc' \in [Chats -> Phase],
             notice' \in [Chats -> {"none", "stored", "swallowed"}],
             cloud' \in [Chats -> {"none", "started", "sent", "dropped"}],
             pc'[c] \in {"cloud", "done"}, pc'[c] = "cloud" => cloud'[c] = "none",
             \A d \in Chats \ {c} :
               pc'[d] = pc[d] /\ notice'[d] = notice[d] /\ cloud'[d] = cloud[d]
      PROVE  ChatInv'
  <2>1. TypeOK'
    BY <1>4 DEF ChatInv, TypeOK
  <2>2. Written' /\ CompletedBy'
    BY <1>4 DEF ChatInv, Written, CompletedBy, LastCompletes
  <2>3. EndedFirst'
    <3> SUFFICES ASSUME NEW d \in Chats,
                        \/ pc'[d] \in {"publishing", "cloud"}
                        \/ notice'[d] # "none"
                        \/ cloud'[d] # "none"
                 PROVE  Ended(d)'
      BY DEF EndedFirst
    <3>1. Ended(d)
      <4>1. CASE d = c
        BY <1>4, <4>1
      <4>2. CASE d # c
        BY <1>4, <4>2 DEF ChatInv, EndedFirst
      <4> QED
        BY <4>1, <4>2
    <3> QED
      BY <1>4, <3>1 DEF Ended, LastCompletes
  <2>4. InTurn'
    BY <1>4 DEF ChatInv, InTurn
  <2> QED
    BY <2>1, <2>2, <2>3, <2>4 DEF ChatInv
<1>5. CASE PublishDirect(c)
  <2>1. Ended(c)
    BY <1>5 DEF PublishDirect, ChatInv, EndedFirst
  <2>2. UNCHANGED <<named, agent, emitted, read, terminal, connected, sent, crashes, cloud>>
    BY <1>5 DEF PublishDirect
  <2>3. /\ pc' = [pc EXCEPT ![c] = "done"] \/ pc' = [pc EXCEPT ![c] = "cloud"]
        /\ \/ notice' = notice
           \/ notice' = [notice EXCEPT ![c] = "stored"]
           \/ notice' = [notice EXCEPT ![c] = "swallowed"]
    BY <1>5 DEF PublishDirect, Goto
  <2>4. /\ pc' \in [Chats -> Phase] /\ pc'[c] \in {"cloud", "done"}
        /\ cloud'[c] = "none"
        /\ notice' \in [Chats -> {"none", "stored", "swallowed"}]
        /\ cloud' \in [Chats -> {"none", "started", "sent", "dropped"}]
        /\ \A d \in Chats \ {c} :
             pc'[d] = pc[d] /\ notice'[d] = notice[d] /\ cloud'[d] = cloud[d]
    BY <1>5, <2>2, <2>3 DEF PublishDirect, ChatInv, InTurn, TypeOK, Phase
  <2> QED
    BY <1>4, <2>1, <2>2, <2>4
<1>6. CASE StartCloud(c)
  <2>1. Ended(c)
    BY <1>6 DEF StartCloud, ChatInv, EndedFirst
  <2>2. /\ UNCHANGED <<named, agent, emitted, read, terminal, connected, sent, notice, crashes>>
        /\ pc' = [pc EXCEPT ![c] = "done"] /\ cloud' = [cloud EXCEPT ![c] = "started"]
    BY <1>6 DEF StartCloud, Goto
  <2>3. /\ pc' \in [Chats -> Phase] /\ pc'[c] = "done"
        /\ notice' \in [Chats -> {"none", "stored", "swallowed"}]
        /\ cloud' \in [Chats -> {"none", "started", "sent", "dropped"}]
        /\ \A d \in Chats \ {c} :
             pc'[d] = pc[d] /\ notice'[d] = notice[d] /\ cloud'[d] = cloud[d]
    BY <2>2 DEF ChatInv, TypeOK, Phase
  <2> QED
    BY <1>4, <2>1, <2>2, <2>3
<1> QED
  BY <1>1, <1>2, <1>3, <1>5, <1>6 DEF Thread

LEMMA CloudKeeps ==
  ASSUME ChatInv, NEW c \in Chats, PublishCloud(c)
  PROVE  ChatInv'
<1>1. /\ cloud[c] = "started"
      /\ UNCHANGED <<named, agent, emitted, pc, read, terminal, connected, sent,
                    notice, crashes>>
      /\ \/ cloud' = [cloud EXCEPT ![c] = "sent"]
         \/ cloud' = [cloud EXCEPT ![c] = "dropped"]
  BY DEF PublishCloud
<1>2. TypeOK'
  BY <1>1 DEF ChatInv, TypeOK
<1>3. Written' /\ CompletedBy'
  BY <1>1 DEF ChatInv, Written, CompletedBy, LastCompletes
<1>4. EndedFirst' /\ InTurn'
  BY <1>1 DEF ChatInv, TypeOK, EndedFirst, Ended, LastCompletes, InTurn
<1> QED
  BY <1>2, <1>3, <1>4 DEF ChatInv

LEMMA DieKeeps ==
  ASSUME ChatInv, Die, crashes' \in Nat
  PROVE  ChatInv'
<1>1. /\ UNCHANGED <<named, agent, emitted, read, terminal, connected, sent, notice>>
      /\ \A c \in Chats :
           /\ pc'[c] = pc[c] \/ pc'[c] = "lost"
           /\ cloud'[c] = cloud[c] \/ cloud[c] = "started"
      /\ pc' \in [Chats -> Phase]
      /\ cloud' \in [Chats -> {"none", "started", "sent", "dropped"}]
  BY DEF Die, ChatInv, TypeOK, Phase
<1>2. TypeOK'
  BY <1>1 DEF ChatInv, TypeOK
<1>3. Written' /\ CompletedBy'
  BY <1>1 DEF ChatInv, Written, CompletedBy, LastCompletes
<1>4. EndedFirst' /\ InTurn'
  BY <1>1 DEF ChatInv, EndedFirst, Ended, LastCompletes, InTurn
<1> QED
  BY <1>2, <1>3, <1>4 DEF ChatInv

LEMMA OpenKeeps ==
  ASSUME ChatInv, NEW c \in Chats, Open(c) \/ OpenOther(c)
  PROVE  ChatInv'
<1>1. CASE OpenOther(c)
  <2>1. /\ pc' = [pc EXCEPT ![c] = "done"]
        /\ UNCHANGED <<named, emitted, read, terminal, sent, crashes, agent, connected,
                      notice, cloud>>
    BY <1>1 DEF OpenOther, Goto
  <2> QED
    BY <2>1, Elsewhere DEF Phase
<1>2. CASE Open(c)
  <2>1. /\ pc[c] = "idle" /\ pc' = [pc EXCEPT ![c] = "relaying"]
        /\ UNCHANGED <<named, agent, emitted, read, terminal, sent, notice, cloud, crashes>>
        /\ \E ok \in BOOLEAN : connected' = [connected EXCEPT ![c] = ok]
    BY <1>2 DEF Open, Goto
  <2>2. connected' \in [Chats -> BOOLEAN]
    BY <2>1, Zenon DEF ChatInv, TypeOK
  <2>3. TypeOK'
    BY <2>1, <2>2 DEF ChatInv, TypeOK, Phase
  <2>4. CompletedBy'
    BY <2>1 DEF ChatInv, CompletedBy, LastCompletes
  <2>5. EndedFirst' /\ InTurn'
    BY <2>1 DEF ChatInv, TypeOK, EndedFirst, Ended, LastCompletes, InTurn
  <2>6. Written'
    BY <2>1 DEF ChatInv, TypeOK, Written
  <2> QED
    BY <2>3, <2>4, <2>5, <2>6 DEF ChatInv
<1> QED
  BY <1>1, <1>2
-----------------------------------------------------------------------------
(* Requests and credentials. *)

\* A device's request that went on, or was told a configuration, came before the
\* revocation and was checked for a Profile of its scope; and whatever asks who
\* is there answers nobody whose token was revoked before.
Checked ==
  \A c \in Chats :
    LET r == request[c] IN
    r.bearer = "device" =>
      /\ \/ gate[c] \in {"authorised", "rejected", "accepted"}
         \/ gate[c] = "answered" /\ AsksConfig(r)
         => ~late[c] /\ InScope(CheckedProfile(r))
      /\ gate[c] = "answered" /\ At(r) \notin OpenPaths => ~late[c]

\* Unless a deployment is under way or failed, the file, the Agent and the
\* server hold one credential; the Agent has it when the server's turn comes.
Current ==
  /\ deploy # "idle" => outcome = "running"
  /\ deploy = "server" => agentKey = credential
  /\ outcome \in {"none", "ready"} => agentKey = credential /\ serverKey = credential

\* A request on its way holds the key of the server that it is in, or the first.
KeyInUse ==
  \A c \in Chats :
    gate[c] = "authorised" =>
      key[c] = IF request[c].bearer = "device" THEN serverKey ELSE 1

AccessInv == AccessTypeOK /\ ChatInv /\ Checked /\ Current /\ KeyInUse

\* The types of the variables that AgentAccess adds.
AccessTypes ==
  /\ request \in [Chats -> Requests]
  /\ gate \in [Chats -> Gate]
  /\ key \in [Chats -> 0..credential \cup {1}]
  /\ scope \in Scopes
  /\ revoked \in BOOLEAN
  /\ late \in [Chats -> BOOLEAN]
  /\ kind \in {"docker", "native"}
  /\ credential \in Nat
  /\ agentKey \in 0..credential
  /\ serverKey \in 0..credential
  /\ deploy \in {"idle", "agent", "server"}
  /\ outcome \in {"none", "running", "ready", "failed"}
  /\ deploys \in Nat

LEMMA Parts ==
  /\ AccessInv <=> AccessTypes /\ ChatInv /\ Checked /\ Current /\ KeyInUse
  /\ AccessInv' <=> AccessTypes' /\ ChatInv' /\ Checked' /\ Current' /\ KeyInUse'
  BY DEF AccessInv, AccessTypeOK, AccessTypes, ChatInv

LEMMA AccessInitInv == AccessInit => AccessInv
<1> SUFFICES ASSUME AccessInit PROVE AccessInv
  OBVIOUS
<1>1. ChatInv
  <2>1. TypeOK
    BY ChatRelayAssumption DEF AccessInit, Init, TypeOK, AgentState, Phase
  <2>2. Written /\ CompletedBy /\ EndedFirst /\ InTurn
    BY DEF AccessInit, Init, Written, CompletedBy, EndedFirst, InTurn
  <2> QED
    BY <2>1, <2>2 DEF ChatInv
<1>2. AccessTypes
  <2>1. credential \in {0, 1}
    BY DEF AccessInit
  <2>2. key \in [Chats -> 0..credential \cup {1}]
    BY <2>1 DEF AccessInit
  <2>3. agentKey \in 0..credential /\ serverKey \in 0..credential /\ credential \in Nat
        /\ deploys \in Nat
    BY <2>1 DEF AccessInit
  <2> QED
    BY <2>2, <2>3 DEF AccessInit, AccessTypes, Gate
<1>3. Checked /\ KeyInUse
  BY DEF AccessInit, Checked, KeyInUse
<1>4. Current
  BY DEF AccessInit, Current
<1> QED
  BY <1>1, <1>2, <1>3, <1>4, Parts

\* What a request does to the chat that stands for it.
LEMMA LeaveKeeps ==
  ASSUME ChatInv, NEW c \in Chats, NEW next, Leave(c, next)
  PROVE  ChatInv' /\ gate' = [gate EXCEPT ![c] = next]
  BY OpenKeeps DEF Leave, Pass

LEMMA StillKeeps ==
  ASSUME ChatInv, UNCHANGED vars
  PROVE  ChatInv'
<1>1. TypeOK'
  BY DEF ChatInv, TypeOK, vars
<1>2. Written' /\ CompletedBy' /\ EndedFirst' /\ InTurn'
  BY DEF ChatInv, Written, CompletedBy, EndedFirst, Ended, LastCompletes, InTurn, vars
<1> QED
  BY <1>1, <1>2 DEF ChatInv

\* What the bridge lets in by itself.
LEMMA LetIn ==
  ASSUME NEW r \in Request, ServedHere(r), "answered" \in LocalAnswers(r)
  PROVE  /\ r.bearer = "device" /\ AsksConfig(r) => DeviceAllowed(r)
         /\ r.bearer = "device" /\ At(r) \notin OpenPaths => ~revoked
         /\ r.bearer = "legacy" /\ At(r) \notin OpenPaths => serverKey = 1
<1>1. r.bearer \in {"device", "legacy"} /\ r.bearer # "none"
  BY DEF Request
<1>2. CASE AsksConfig(r)
  <2>1. "answered" \in ConfigAnswers(r)
    BY <1>2 DEF LocalAnswers
  <2>2. /\ r.bearer = "device" => DeviceAllowed(r)
        /\ r.bearer = "legacy" => serverKey = 1
    BY <1>1, <2>1 DEF ConfigAnswers
  <2> QED
    BY <2>2 DEF DeviceAllowed
<1>3. CASE ~AsksConfig(r) /\ RevokesItself(r)
  <2>1. r.bearer = "device"
    BY <1>3 DEF RevokesItself
  <2>2. ~revoked
    BY <1>3 DEF LocalAnswers
  <2> QED
    BY <1>3, <2>1, <2>2
<1>4. CASE ~AsksConfig(r) /\ ~RevokesItself(r) /\ At(r) \in ControlPaths
  <2>1. "answered" \in ControlAnswers(r)
    BY <1>4, Zenon DEF LocalAnswers
  <2>2. "answered" # "denied"
    OBVIOUS
  <2>3. /\ r.bearer = "device" => ~revoked
        /\ r.bearer = "legacy" => serverKey = 1
    BY <2>1, <2>2, Zenon DEF ControlAnswers
  <2> QED
    BY <1>4, <2>3
<1>5. CASE ~AsksConfig(r) /\ ~RevokesItself(r) /\ At(r) \notin ControlPaths
  <2>1. At(r) \in OpenPaths
    BY <1>5, Zenon DEF ServedHere
  <2> QED
    BY <1>5, <2>1
<1> QED
  BY <1>2, <1>3, <1>4, <1>5

\* It answers with no word of the Agent's.
LEMMA AnswersAreLocal ==
  ASSUME NEW r \in Request, ServedHere(r)
  PROVE  LocalAnswers(r) \subseteq {"answered", "not found", "bad request", "denied", "no key",
                                   "unsupported", "unavailable"}
<1> DEFINE Words == {"answered", "not found", "bad request", "denied", "no key",
                     "unsupported", "unavailable"}
<1>1. CASE AsksConfig(r)
  <2>1. ConfigAnswers(r) \subseteq Words
    BY DEF ConfigAnswers
  <2> QED
    BY <1>1, <2>1 DEF LocalAnswers
<1>2. CASE ~AsksConfig(r)
  <2>1. ControlAnswers(r) \subseteq Words
    BY DEF ControlAnswers
  <2>2. \/ LocalAnswers(r) = {IF revoked THEN "denied" ELSE "answered"}
        \/ LocalAnswers(r) = ControlAnswers(r)
        \/ LocalAnswers(r) = {"answered"}
    BY <1>2, Zenon DEF LocalAnswers
  <2> QED
    BY <2>1, <2>2
<1> QED
  BY <1>1, <1>2

LEMMA ServeKeeps ==
  ASSUME AccessInv, NEW c \in Chats, ServeLocally(c)
  PROVE  AccessInv'
<1> DEFINE r == request[c]
<1>1. /\ UNCHANGED <<request, key, scope, keyVars>>
      /\ revoked' = (revoked \/ RevokesItself(r))
      /\ late' = [late EXCEPT ![c] = revoked]
  BY DEF ServeLocally, Arrives
<1>2. PICK next \in LocalAnswers(r) : Leave(c, next)
  BY Zenon DEF ServeLocally
<1>3. r \in Request /\ ServedHere(r)
  BY AgentAccessAssumption, Parts DEF ServeLocally, AccessTypes
<1>4. next \in Gate /\ next \notin {"authorised", "rejected", "accepted"}
  BY <1>2, <1>3, AnswersAreLocal DEF Gate
<1>5. ChatInv' /\ gate' = [gate EXCEPT ![c] = next]
  BY <1>2, LeaveKeeps, Parts
<1>6. gate'[c] = next /\ late'[c] = revoked
      /\ \A d \in Chats \ {c} : gate'[d] = gate[d] /\ late'[d] = late[d]
  BY <1>1, <1>5, Parts DEF AccessTypes
<1>7. AccessTypes'
  <2>1. gate' \in [Chats -> Gate]
    BY <1>4, <1>5, Parts DEF AccessTypes
  <2>2. late' \in [Chats -> BOOLEAN] /\ revoked' \in BOOLEAN
    BY <1>1, Parts, Zenon DEF AccessTypes
  <2> QED
    BY <1>1, <2>1, <2>2, Parts DEF AccessTypes, keyVars
<1>8. Checked'
  <2> SUFFICES ASSUME NEW d \in Chats, request[d].bearer = "device"
               PROVE  /\ \/ gate'[d] \in {"authorised", "rejected", "accepted"}
                         \/ gate'[d] = "answered" /\ AsksConfig(request[d])
                         => ~late'[d] /\ InScope(CheckedProfile(request[d]))
                      /\ gate'[d] = "answered" /\ At(request[d]) \notin OpenPaths
                         => ~late'[d]
    BY <1>1 DEF Checked, InScope
  <2>1. CASE d = c
    BY <1>2, <1>3, <1>4, <1>6, <2>1, LetIn DEF DeviceAllowed
  <2>2. CASE d # c
    BY <1>6, <2>2, Parts DEF Checked
  <2> QED
    BY <2>1, <2>2
<1>9. Current'
  BY <1>1, Parts DEF Current, keyVars
<1>10. KeyInUse'
  BY <1>1, <1>4, <1>6, Parts DEF KeyInUse, keyVars
<1> QED
  BY <1>5, <1>7, <1>8, <1>9, <1>10, Parts

LEMMA AuthoriseKeeps ==
  ASSUME AccessInv, NEW c \in Chats, Authorise(c)
  PROVE  AccessInv'
<1>1. /\ UNCHANGED <<request, scope, revoked, keyVars>>
      /\ late' = [late EXCEPT ![c] = revoked]
  BY DEF Authorise, Arrives
<1>2. late' \in [Chats -> BOOLEAN]
  BY <1>1, Parts, Zenon DEF AccessTypes
<1>3. Current'
  BY <1>1, Parts DEF Current, keyVars
<1>4. CASE /\ gate' = [gate EXCEPT ![c] = "authorised"]
           /\ request[c].bearer = "device" => DeviceAllowed(request[c])
           /\ key' = [key EXCEPT ![c] = UpstreamKey(request[c])]
           /\ UNCHANGED vars
  <2>1. ChatInv'
    BY <1>4, StillKeeps, Parts
  <2>2. AccessTypes'
    <3>1. gate' \in [Chats -> Gate]
      BY <1>4, Parts DEF AccessTypes, Gate
    <3>2. key' \in [Chats -> 0..credential \cup {1}]
      BY <1>4, Parts DEF AccessTypes, UpstreamKey
    <3> QED
      BY <1>1, <1>2, <3>1, <3>2, Parts DEF AccessTypes, keyVars
  <2>3. Checked'
    <3> SUFFICES ASSUME NEW d \in Chats, request[d].bearer = "device"
                 PROVE  /\ \/ gate'[d] \in {"authorised", "rejected", "accepted"}
                           \/ gate'[d] = "answered" /\ AsksConfig(request[d])
                           => ~late'[d] /\ InScope(CheckedProfile(request[d]))
                        /\ gate'[d] = "answered" /\ At(request[d]) \notin OpenPaths
                           => ~late'[d]
      BY <1>1 DEF Checked, InScope
    <3>1. CASE d = c
      <4>1. late'[c] = revoked /\ gate'[c] = "authorised"
        BY <1>1, <1>4, Parts DEF AccessTypes
      <4> QED
        BY <1>4, <3>1, <4>1 DEF DeviceAllowed
    <3>2. CASE d # c
      <4>1. gate'[d] = gate[d] /\ late'[d] = late[d]
        BY <1>1, <1>4, <3>2, Parts DEF AccessTypes
      <4> QED
        BY <4>1, Parts DEF Checked
    <3> QED
      BY <3>1, <3>2
  <2>4. KeyInUse'
    BY <1>1, <1>4, Parts DEF KeyInUse, AccessTypes, keyVars, UpstreamKey
  <2> QED
    BY <1>3, <2>1, <2>2, <2>3, <2>4, Parts
<1>5. ASSUME NEW next \in {"not found", "bad request", "denied", "no key"},
             Leave(c, next), UNCHANGED key
      PROVE  AccessInv'
  <2>1. ChatInv' /\ gate' = [gate EXCEPT ![c] = next]
    BY <1>5, LeaveKeeps, Parts
  <2>2. AccessTypes'
    <3>1. gate' \in [Chats -> Gate]
      BY <2>1, Parts DEF AccessTypes, Gate
    <3> QED
      BY <1>1, <1>2, <1>5, <3>1, Parts DEF AccessTypes, keyVars
  <2>3. Checked' /\ KeyInUse'
    BY <1>1, <1>5, <2>1, Parts DEF Checked, KeyInUse, InScope, AccessTypes, keyVars
  <2> QED
    BY <1>3, <2>1, <2>2, <2>3, Parts
<1>6. \/ /\ gate' = [gate EXCEPT ![c] = "authorised"]
         /\ request[c].bearer = "device" => DeviceAllowed(request[c])
         /\ key' = [key EXCEPT ![c] = UpstreamKey(request[c])]
         /\ UNCHANGED vars
      \/ \E next \in {"not found", "bad request", "denied", "no key"} :
           Leave(c, next) /\ UNCHANGED key
  BY Zenon DEF Authorise, Pass
<1> QED
  BY <1>4, <1>5, <1>6

LEMMA ForwardKeeps ==
  ASSUME AccessInv, NEW c \in Chats, Forward(c)
  PROVE  AccessInv'
<1>1. gate[c] = "authorised" /\ UNCHANGED <<request, key, scope, revoked, late, keyVars>>
  BY DEF Forward
<1>2. ChatInv' /\ \E next \in {"unavailable", "rejected", "accepted"} :
                    gate' = [gate EXCEPT ![c] = next]
  BY LeaveKeeps, OpenKeeps, Parts DEF Forward, Pass
<1>3. AccessTypes'
  <2>1. gate' \in [Chats -> Gate]
    BY <1>2, Parts DEF AccessTypes, Gate
  <2> QED
    BY <1>1, <2>1, Parts DEF AccessTypes, keyVars
<1>4. Checked'
  BY <1>1, <1>2, Parts DEF Checked, InScope, AccessTypes
<1>5. Current' /\ KeyInUse'
  BY <1>1, <1>2, Parts DEF Current, KeyInUse, AccessTypes, keyVars
<1> QED
  BY <1>2, <1>3, <1>4, <1>5, Parts

\* Steps of the processes and of the script: of the requests only those that a
\* server worked on may be lost with it.
LEMMA ProcessesKeep ==
  ASSUME AccessInv, ChatInv', Current', AccessTypes',
         UNCHANGED <<request, key, scope, late>>,
         \A c \in Chats : gate'[c] = gate[c] \/ gate'[c] = "lost",
         serverKey' = serverKey \/ \A c \in Chats : gate'[c] # "authorised"
  PROVE  AccessInv'
<1>1. Checked'
  BY Parts DEF Checked, InScope
<1>2. KeyInUse'
  BY Parts DEF KeyInUse
<1> QED
  BY <1>1, <1>2, Parts

LEMMA ServerEndsKeeps ==
  ASSUME AccessInv, ServerEnds, crashes' \in Nat
  PROVE  /\ ChatInv'
         /\ gate' \in [Chats -> Gate]
         /\ \A c \in Chats : gate'[c] = gate[c] \/ gate'[c] = "lost"
         /\ \A c \in Chats : gate'[c] # "authorised"
         /\ UNCHANGED <<request, key, scope, revoked, late>>
<1>1. ChatInv'
  BY DieKeeps, Parts DEF ServerEnds
<1>2. gate' = [c \in Chats |-> IF gate[c] = "authorised" THEN "lost" ELSE gate[c]]
      /\ UNCHANGED <<request, key, scope, revoked, late>>
  BY DEF ServerEnds
<1> QED
  BY <1>1, <1>2, Parts DEF AccessTypes, Gate

LEMMA AgentStartsKeeps ==
  ASSUME AccessInv, AgentStarts, crashes' \in Nat
  PROVE  ChatInv' /\ UNCHANGED accessVars /\ agentKey' = credential
<1>1. /\ agent' \in [Chats -> AgentState]
      /\ \A c \in Chats : agent[c] = "closed" => agent'[c] = agent[c]
  BY Parts DEF AgentStarts, ChatInv, TypeOK, AgentState
<1>2. UNCHANGED <<named, emitted, pc, read, terminal, connected, sent, notice, cloud>>
  BY DEF AgentStarts
<1> QED
  BY <1>1, <1>2, CutKeeps, Parts DEF AgentStarts
\* The crashes are counted beside what they do to the chats.
LEMMA Counted ==
  ASSUME AccessInv, UNCHANGED crashes \/ crashes' = crashes + 1
  PROVE  crashes' \in Nat
  BY Parts DEF ChatInv, TypeOK

LEMMA RevokeKeeps ==
  ASSUME AccessInv, RevokeDevice
  PROVE  AccessInv'
<1>1. UNCHANGED <<vars, request, gate, key, scope, late, keyVars>> /\ revoked' = TRUE
  BY DEF RevokeDevice
<1>2. ChatInv'
  BY <1>1, StillKeeps, Parts
<1>3. Current'
  BY <1>1, Parts DEF Current, keyVars
<1>4. AccessTypes'
  BY <1>1, Parts DEF AccessTypes, keyVars
<1> QED
  BY <1>1, <1>2, <1>3, <1>4, ProcessesKeep DEF keyVars

LEMMA RelayStepKeeps ==
  ASSUME AccessInv, RelayStep
  PROVE  AccessInv'
<1>1. UNCHANGED <<accessVars, keyVars>>
  BY DEF RelayStep
<1>2. ChatInv'
  BY AgentStepKeeps, ThreadKeeps, CloudKeeps, Parts DEF RelayStep
<1>3. Current'
  BY <1>1, Parts DEF Current, keyVars
<1>4. AccessTypes'
  BY <1>1, Parts DEF AccessTypes, accessVars, keyVars
<1> QED
  BY <1>1, <1>2, <1>3, <1>4, ProcessesKeep DEF accessVars, keyVars

LEMMA CrashServerKeeps ==
  ASSUME AccessInv, CrashServer
  PROVE  AccessInv'
<1>1. /\ ServerEnds /\ crashes' = crashes + 1
      /\ serverKey' = IF kind = "native" THEN credential ELSE serverKey
      /\ UNCHANGED <<kind, credential, agentKey, deploy, outcome, deploys>>
  BY DEF CrashServer, KeyAfterRestart
<1>2. /\ ChatInv'
      /\ gate' \in [Chats -> Gate]
      /\ \A c \in Chats : gate'[c] = gate[c] \/ gate'[c] = "lost"
      /\ \A c \in Chats : gate'[c] # "authorised"
      /\ UNCHANGED <<request, key, scope, revoked, late>>
  BY <1>1, Counted, ServerEndsKeeps
<1>3. AccessTypes'
  BY <1>1, <1>2, Parts DEF AccessTypes
<1>4. Current'
  BY <1>1, Parts DEF Current
<1> QED
  BY <1>2, <1>3, <1>4, ProcessesKeep

LEMMA CrashAgentKeeps ==
  ASSUME AccessInv, CrashAgent
  PROVE  AccessInv'
<1>1. /\ AgentStarts /\ crashes' = crashes + 1
      /\ UNCHANGED <<kind, credential, serverKey, deploy, outcome, deploys>>
  BY DEF CrashAgent
<1>2. ChatInv' /\ UNCHANGED accessVars /\ agentKey' = credential
  BY <1>1, Counted, AgentStartsKeeps
<1>3. AccessTypes'
  BY <1>1, <1>2, Parts DEF AccessTypes, accessVars
<1>4. Current'
  BY <1>1, <1>2, Parts DEF Current
<1> QED
  BY <1>1, <1>2, <1>3, <1>4, ProcessesKeep DEF accessVars

LEMMA RebootKeeps ==
  ASSUME AccessInv, Reboot
  PROVE  AccessInv'
<1>1. /\ ServerEnds /\ crashes' = crashes + 1
      /\ agentKey' = credential
      /\ serverKey' = IF kind = "native" THEN credential ELSE serverKey
      /\ deploy' = "idle"
      /\ outcome' = IF deploy = "idle" THEN outcome ELSE "failed"
      /\ UNCHANGED <<kind, credential, deploys>>
  BY DEF Reboot, KeyAfterRestart
<1>2. /\ ChatInv'
      /\ gate' \in [Chats -> Gate]
      /\ \A c \in Chats : gate'[c] = gate[c] \/ gate'[c] = "lost"
      /\ \A c \in Chats : gate'[c] # "authorised"
      /\ UNCHANGED <<request, key, scope, revoked, late>>
  BY <1>1, Counted, ServerEndsKeeps
<1>3. AccessTypes'
  BY <1>1, <1>2, Parts DEF AccessTypes
<1>4. Current'
  BY <1>1, Parts DEF Current
<1> QED
  BY <1>2, <1>3, <1>4, ProcessesKeep

LEMMA WriteKeeps ==
  ASSUME AccessInv, WriteCredential
  PROVE  AccessInv'
<1>1. /\ UNCHANGED <<vars, accessVars, kind, agentKey, serverKey>>
      /\ deploy = "idle" /\ deploys' = deploys + 1
      /\ \/ UNCHANGED <<credential, deploy, outcome>>
         \/ credential' = credential + 1 /\ deploy' = "agent" /\ outcome' = "running"
  BY DEF WriteCredential
<1>2. ChatInv'
  BY <1>1, StillKeeps, Parts
<1>3. AccessTypes'
  <2>1. /\ credential' \in Nat /\ deploys' \in Nat
        /\ 0..credential \subseteq 0..credential'
    BY <1>1, Parts DEF AccessTypes
  <2>2. key' \in [Chats -> 0..credential' \cup {1}]
    BY <1>1, <2>1, Parts DEF AccessTypes, accessVars
  <2> QED
    BY <1>1, <2>1, <2>2, Parts DEF AccessTypes, accessVars
<1>4. Current'
  BY <1>1, Parts DEF Current
<1> QED
  BY <1>1, <1>2, <1>3, <1>4, ProcessesKeep DEF accessVars

LEMMA RestartAgentKeeps ==
  ASSUME AccessInv, RestartAgent
  PROVE  AccessInv'
<1>1. /\ AgentStarts /\ deploy = "agent" /\ deploy' = "server"
      /\ UNCHANGED <<crashes, kind, credential, serverKey, outcome, deploys>>
  BY DEF RestartAgent
<1>2. ChatInv' /\ UNCHANGED accessVars /\ agentKey' = credential
  BY <1>1, Counted, AgentStartsKeeps
<1>3. AccessTypes'
  BY <1>1, <1>2, Parts DEF AccessTypes, accessVars
<1>4. Current'
  BY <1>1, <1>2, Parts DEF Current
<1> QED
  BY <1>1, <1>2, <1>3, <1>4, ProcessesKeep DEF accessVars

LEMMA ReplaceServerKeeps ==
  ASSUME AccessInv, ReplaceServer
  PROVE  AccessInv'
<1>1. /\ ServerEnds /\ UNCHANGED crashes
      /\ deploy = "server" /\ deploy' = "idle" /\ outcome' = "ready"
      /\ serverKey' = credential
      /\ UNCHANGED <<kind, credential, agentKey, deploys>>
  BY DEF ReplaceServer, ReplaceServerBy
<1>2. /\ ChatInv'
      /\ gate' \in [Chats -> Gate]
      /\ \A c \in Chats : gate'[c] = gate[c] \/ gate'[c] = "lost"
      /\ \A c \in Chats : gate'[c] # "authorised"
      /\ UNCHANGED <<request, key, scope, revoked, late>>
  BY <1>1, Counted, ServerEndsKeeps
<1>3. AccessTypes'
  BY <1>1, <1>2, Parts DEF AccessTypes
<1>4. Current'
  BY <1>1, Parts DEF Current
<1> QED
  BY <1>2, <1>3, <1>4, ProcessesKeep

LEMMA FailDeployKeeps ==
  ASSUME AccessInv, FailDeploy
  PROVE  AccessInv'
<1>1. /\ UNCHANGED <<vars, accessVars, kind, credential, agentKey, serverKey, deploys>>
      /\ deploy' = "idle" /\ outcome' = "failed"
  BY DEF FailDeploy
<1>2. ChatInv'
  BY <1>1, StillKeeps, Parts
<1>3. AccessTypes'
  BY <1>1, Parts DEF AccessTypes, accessVars
<1>4. Current'
  BY <1>1, Parts DEF Current
<1> QED
  BY <1>1, <1>2, <1>3, <1>4, ProcessesKeep DEF accessVars

LEMMA AccessNextInv ==
  ASSUME AccessInv, [AccessNext]_allVars
  PROVE  AccessInv'
<1>1. CASE \E c \in Chats : ServeLocally(c) \/ Authorise(c) \/ Forward(c)
  BY <1>1, ServeKeeps, AuthoriseKeeps, ForwardKeeps
<1>2. CASE RelayStep \/ RevokeDevice
  BY <1>2, RelayStepKeeps, RevokeKeeps
<1>3. CASE CrashServer \/ CrashAgent \/ Reboot
  BY <1>3, CrashServerKeeps, CrashAgentKeeps, RebootKeeps
<1>4. CASE Deployment
  BY <1>4, WriteKeeps, RestartAgentKeeps, ReplaceServerKeeps, FailDeployKeeps
     DEF Deployment
<1>5. CASE UNCHANGED allVars
  <2>1. UNCHANGED vars /\ UNCHANGED accessVars /\ UNCHANGED keyVars
    BY <1>5 DEF allVars
  <2>2. ChatInv'
    BY <2>1, StillKeeps, Parts
  <2>3. AccessTypes' /\ Current'
    BY <2>1, Parts DEF AccessTypes, Current, accessVars, keyVars
  <2> QED
    BY <2>1, <2>2, <2>3, ProcessesKeep DEF accessVars, keyVars
<1> QED
  BY <1>1, <1>2, <1>3, <1>4, <1>5 DEF AccessNext

LEMMA AccessInvariance == AccessSpec => []AccessInv
  BY AccessInitInv, AccessNextInv, PTL DEF AccessSpec

-----------------------------------------------------------------------------
(* The theorems. *)

\* Types of the chats, the requests and the credentials: no process holds a
\* credential that was never written.
THEOREM AccessTypesHold == AccessSpec => []AccessTypeOK
<1>1. AccessInv => AccessTypeOK
  BY DEF AccessInv
<1> QED
  BY <1>1, AccessInvariance, PTL

\* The App sees the Agent's blocks in order and without a hole.
AppSeesPrefix == \A c \in Chats : IsPrefix(sent[c], emitted[c])

LEMMA WrittenIsPrefix ==
  ASSUME ChatInv
  PROVE  AppSeesPrefix
<1> SUFFICES ASSUME NEW c \in Chats PROVE IsPrefix(sent[c], emitted[c])
  BY DEF AppSeesPrefix
<1>1. /\ sent[c] \in Seq(Block) /\ emitted[c] \in Seq(Block)
      /\ read[c] \in Nat /\ read[c] <= Len(emitted[c])
      /\ Len(sent[c]) <= read[c]
      /\ \A i \in 1..Len(sent[c]) : sent[c][i] = emitted[c][i]
  BY DEF ChatInv, TypeOK, Written
<1>2. Len(sent[c]) \in Nat /\ Len(emitted[c]) \in Nat /\ Len(sent[c]) <= Len(emitted[c])
  BY <1>1
<1>3. SubSeq(sent[c], 1, Len(sent[c])) = SubSeq(emitted[c], 1, Len(sent[c]))
  BY <1>1, <1>2
<1> QED
  BY <1>2, <1>3 DEF IsPrefix

\* However the stream of the Agent ends, whenever the App goes away and whoever
\* dies, what was written to the App is the beginning of what the Agent sent.
THEOREM RelayIsFaithful == AccessSpec => []AppSeesPrefix
<1>1. AccessInv => AppSeesPrefix
  BY WrittenIsPrefix DEF AccessInv
<1> QED
  BY <1>1, AccessInvariance, PTL

\* A chat is notified, by DIRECT or by the Cloud, only after the relay has seen
\* the end of its stream and a block in it that completes a chat.
THEOREM NotificationsComeLast == AccessSpec => []NotifiedAfterEnd
<1>1. ASSUME ChatInv PROVE NotifiedAfterEnd
  <2> SUFFICES ASSUME NEW c \in Chats, notice[c] # "none" \/ cloud[c] # "none"
               PROVE  /\ agent[c] = "closed"
                      /\ read[c] = Len(emitted[c])
                      /\ Contract!Completed(emitted[c])
    BY DEF NotifiedAfterEnd
  <2>1. Ended(c) /\ emitted[c] \in Seq(Block)
    BY <1>1 DEF ChatInv, EndedFirst, TypeOK
  <2> QED
    BY <2>1 DEF Ended, LastCompletes, Contract!Completed
<1>2. AccessInv => NotifiedAfterEnd
  BY <1>1 DEF AccessInv
<1> QED
  BY <1>2, AccessInvariance, PTL

-----------------------------------------------------------------------------
(* The contract.                                                           *)
(*                                                                         *)
(* Threads, buffers and credentials are stutters: the relay's steps are    *)
(* seen where a block arrives, is written or finds the App gone, and where *)
(* a notification has reached the store or the Cloud.                      *)

Seen == <<emitted, Over, connected, sent, Told>>

LEMMA ContractInit == Init => Contract!Init
  BY DEF Init, Contract!Init, Over, Told

\* Steps that the contract does not see.
LEMMA Unseen ==
  ASSUME UNCHANGED <<emitted, agent, connected, sent>>,
         \A c \in Chats : notice'[c] = "stored" <=> notice[c] = "stored",
         \A c \in Chats : cloud'[c] = "sent" <=> cloud[c] = "sent"
  PROVE  UNCHANGED Seen
<1>1. UNCHANGED Over
  BY DEF Over
<1>2. UNCHANGED Told
  BY DEF Told
<1> QED
  BY <1>1, <1>2 DEF Seen

\* The Agent says a block, after which it may be at its end.
LEMMA EmitSays ==
  ASSUME ChatInv, NEW c \in Chats, NEW block \in Block, NEW next \in AgentState,
         agent[c] \in {"answering", "finished"}, next # "broken", Emit(c, block, next)
  PROVE  Contract!Say(c, block)
<1>1. /\ emitted' = [emitted EXCEPT ![c] = Append(@, block)]
      /\ agent' = [agent EXCEPT ![c] = next]
      /\ UNCHANGED <<connected, sent, notice, cloud>>
  BY DEF Emit
<1>2. Over[c] = "open"
  BY DEF Over
<1>3. \E end \in {"open", "closed"} : Over' = [Over EXCEPT ![c] = end]
  <2> DEFINE end == IF next = "closed" THEN "closed" ELSE "open"
  <2>1. \A d \in Chats : agent'[d] = IF d = c THEN next ELSE agent[d]
    BY <1>1 DEF ChatInv, TypeOK
  <2>2. Over' = [Over EXCEPT ![c] = end]
    BY <2>1 DEF Over, AgentState
  <2> QED
    BY <2>2
<1>4. UNCHANGED Told
  BY <1>1 DEF Told
<1> QED
  BY <1>1, <1>2, <1>3, <1>4 DEF Contract!Say

\* Streams end, one or those of an Agent that is started anew.
LEMMA CutEnds ==
  ASSUME ChatInv, NEW ending \in SUBSET Chats, NEW end \in {"closed", "broken"},
         \A c \in ending : agent[c] \in {"answering", "finished"},
         agent' = [c \in Chats |-> IF c \in ending THEN end ELSE agent[c]],
         UNCHANGED <<emitted, connected, sent, notice, cloud>>
  PROVE  Contract!End(ending)
<1>1. \A c \in ending : Over[c] = "open"
  BY DEF Over
<1>2. Over' = [c \in Chats |-> IF c \in ending THEN end ELSE Over[c]]
  BY DEF Over
<1>3. UNCHANGED Told
  BY DEF Told
<1> QED
  BY <1>1, <1>2, <1>3 DEF Contract!End

LEMMA AgentStepSeen ==
  ASSUME ChatInv, NEW c \in Chats, AgentStep(c)
  PROVE  Contract!Next
<1>1. CASE EmitContent(c) \/ EmitFinish(c) \/ EmitDone(c)
  <2>1. \E block \in Block, next \in AgentState \ {"broken"} :
          agent[c] \in {"answering", "finished"} /\ Emit(c, block, next)
    BY <1>1 DEF EmitContent, EmitFinish, EmitDone, Block, AgentState
  <2> QED
    BY <2>1, EmitSays DEF Contract!Next
<1>2. CASE CutOff(c)
  <2>1. PICK end \in {"closed", "broken"} : agent' = [agent EXCEPT ![c] = end]
    BY <1>2 DEF CutOff
  <2>2. agent' = [d \in Chats |-> IF d \in {c} THEN end ELSE agent[d]]
    BY <2>1 DEF ChatInv, TypeOK
  <2>3. /\ agent[c] \in {"answering", "finished"}
        /\ UNCHANGED <<emitted, connected, sent, notice, cloud>>
    BY <1>2 DEF CutOff
  <2>4. Contract!End({c})
    BY <2>2, <2>3, CutEnds
  <2> QED
    BY <2>4 DEF Contract!Next
<1> QED
  BY <1>1, <1>2 DEF AgentStep

LEMMA AgentStartsSeen ==
  ASSUME ChatInv, AgentStarts
  PROVE  Contract!Next
<1> DEFINE ending == {c \in Chats : pc[c] = "relaying" /\ agent[c] \in {"answering", "finished"}}
<1>1. PICK end \in {"closed", "broken"} :
        agent' = [c \in Chats |-> IF pc[c] = "relaying" /\ agent[c] \in {"answering", "finished"}
                                  THEN end ELSE agent[c]]
  BY DEF AgentStarts
<1>2. agent' = [c \in Chats |-> IF c \in ending THEN end ELSE agent[c]]
  BY <1>1
<1>3. UNCHANGED <<emitted, connected, sent, notice, cloud>>
  BY DEF AgentStarts
<1>4. Contract!End(ending)
  BY <1>2, <1>3, CutEnds
<1> QED
  BY <1>4 DEF Contract!Next

\* The App is gone: a header or a block could not be written.
LEMMA Leaves ==
  ASSUME ChatInv, NEW c \in Chats, connected' = [connected EXCEPT ![c] = FALSE],
         UNCHANGED <<emitted, agent, sent, notice, cloud>>
  PROVE  Contract!Leave(c)
  BY DEF Contract!Leave, Over, Told

LEMMA OpenSeen ==
  ASSUME ChatInv, NEW c \in Chats, Open(c) \/ OpenOther(c)
  PROVE  [Contract!Next]_Seen
<1>1. CASE OpenOther(c)
  BY <1>1, Unseen DEF OpenOther
<1>2. CASE Open(c)
  <2>1. /\ UNCHANGED <<emitted, agent, sent, notice, cloud>>
        /\ \/ connected' = [connected EXCEPT ![c] = TRUE]
           \/ connected' = [connected EXCEPT ![c] = FALSE]
    BY <1>2 DEF Open
  <2>2. CASE connected' = [connected EXCEPT ![c] = TRUE]
    <3>1. connected[c] /\ connected \in [Chats -> BOOLEAN]
      BY <1>2 DEF Open, ChatInv, InTurn, TypeOK
    <3>2. connected' = connected
      BY <2>2, <3>1
    <3> QED
      BY <2>1, <3>2, Unseen
  <2>3. CASE connected' = [connected EXCEPT ![c] = FALSE]
    BY <2>1, <2>3, Leaves DEF Contract!Next
  <2> QED
    BY <2>1, <2>2, <2>3
<1> QED
  BY <1>1, <1>2

\* A block that is handled is shown, finds the App gone, or is not seen.
LEMMA RelaySeen ==
  ASSUME ChatInv, NEW c \in Chats, Relay(c)
  PROVE  [Contract!Next]_Seen
<1> DEFINE block == emitted[c][read[c] + 1]
<1>1. read[c] < Len(emitted[c]) /\ UNCHANGED <<emitted, agent, notice, cloud>>
  BY DEF Relay, Handle
<1>2. CASE connected[c] /\ sent' = [sent EXCEPT ![c] = Append(@, block)]
           /\ UNCHANGED connected
  <2>1. Len(sent[c]) = read[c]
    BY <1>2 DEF ChatInv, Written
  <2>2. sent' = [sent EXCEPT ![c] = Append(@, emitted[c][Len(@) + 1])]
    BY <1>2, <2>1
  <2>3. UNCHANGED <<Over, Told>>
    BY <1>1 DEF Over, Told
  <2>4. Contract!Show(c)
    BY <1>1, <1>2, <2>1, <2>2, <2>3 DEF Contract!Show
  <2> QED
    BY <2>4 DEF Contract!Next
<1>3. CASE connected' = [connected EXCEPT ![c] = FALSE] /\ UNCHANGED sent
  BY <1>1, <1>3, Leaves DEF Contract!Next
<1>4. CASE UNCHANGED <<connected, sent>>
  BY <1>1, <1>4, Unseen
<1> QED
  BY <1>2, <1>3, <1>4 DEF Relay, Handle

\* An ended chat is completed, and an App that is there has seen all of it.
LEMMA EndedIsSeen ==
  ASSUME ChatInv, NEW c \in Chats, Ended(c)
  PROVE  /\ Over[c] = "closed"
         /\ Contract!Completed(emitted[c])
         /\ sent[c] = emitted[c] \/ ~connected[c]
<1>1. emitted[c] \in Seq(Block) /\ sent[c] \in Seq(Block)
  BY DEF ChatInv, TypeOK
<1>2. Over[c] = "closed"
  BY DEF Ended, Over
<1>3. Contract!Completed(emitted[c])
  BY <1>1 DEF Ended, LastCompletes, Contract!Completed
<1>4. ASSUME connected[c]
      PROVE  sent[c] = emitted[c]
  <2>1. /\ Len(sent[c]) = Len(emitted[c])
        /\ \A i \in 1..Len(sent[c]) : sent[c][i] = emitted[c][i]
    BY <1>4 DEF ChatInv, Written, Ended
  <2> QED
    BY <1>1, <2>1
<1> QED
  BY <1>2, <1>3, <1>4

\* A notification that has arrived is told, for the first time.
LEMMA Tells ==
  ASSUME ChatInv, NEW c \in Chats, Ended(c), NEW way \in {"direct", "cloud"},
         way \notin Told[c], Told' = [Told EXCEPT ![c] = @ \cup {way}],
         UNCHANGED <<emitted, agent, connected, sent>>
  PROVE  Contract!Next
<1>1. UNCHANGED Over
  BY DEF Over
<1>2. Contract!Tell(c, way)
  BY <1>1, EndedIsSeen DEF Contract!Tell
<1> QED
  BY <1>2 DEF Contract!Next

LEMMA ThreadSeen ==
  ASSUME ChatInv, NEW c \in Chats, Thread(c)
  PROVE  [Contract!Next]_Seen
<1>1. CASE Relay(c)
  BY <1>1, RelaySeen
<1>2. CASE EndRelay(c) \/ AbortRelay(c)
  BY <1>2, Unseen DEF EndRelay, AbortRelay
<1>3. CASE PublishDirect(c)
  <2>1. Ended(c) /\ notice[c] = "none"
    BY <1>3 DEF PublishDirect, ChatInv, EndedFirst, InTurn
  <2>2. UNCHANGED <<emitted, agent, connected, sent, cloud>>
    BY <1>3 DEF PublishDirect
  <2>3. CASE notice' = [notice EXCEPT ![c] = "stored"]
    <3>1. \A d \in Chats : notice'[d] = IF d = c THEN "stored" ELSE notice[d]
      BY <2>3 DEF ChatInv, TypeOK
    <3>2. "direct" \notin Told[c] /\ Told' = [Told EXCEPT ![c] = @ \cup {"direct"}]
      BY <2>1, <2>2, <3>1 DEF Told
    <3> QED
      BY <2>1, <2>2, <3>2, Tells
  <2>4. CASE notice' = [notice EXCEPT ![c] = "swallowed"] \/ notice' = notice
    <3>1. \A d \in Chats : notice'[d] = "stored" <=> notice[d] = "stored"
      BY <2>1, <2>4 DEF ChatInv, TypeOK
    <3> QED
      BY <2>2, <3>1, Unseen
  <2> QED
    BY <1>3, <2>3, <2>4 DEF PublishDirect
<1>4. CASE StartCloud(c)
  <2>1. /\ cloud[c] = "none" /\ cloud' = [cloud EXCEPT ![c] = "started"]
        /\ UNCHANGED <<emitted, agent, connected, sent, notice>>
    BY <1>4 DEF StartCloud, ChatInv, InTurn
  <2>2. \A d \in Chats : cloud'[d] = "sent" <=> cloud[d] = "sent"
    BY <2>1 DEF ChatInv, TypeOK
  <2> QED
    BY <2>1, <2>2, Unseen
<1> QED
  BY <1>1, <1>2, <1>3, <1>4 DEF Thread

LEMMA CloudSeen ==
  ASSUME ChatInv, NEW c \in Chats, PublishCloud(c)
  PROVE  [Contract!Next]_Seen
<1>1. /\ cloud[c] = "started"
      /\ UNCHANGED <<emitted, agent, connected, sent, notice>>
  BY DEF PublishCloud
<1>2. CASE cloud' = [cloud EXCEPT ![c] = "sent"]
  <2>1. \A d \in Chats : cloud'[d] = IF d = c THEN "sent" ELSE cloud[d]
    BY <1>2 DEF ChatInv, TypeOK
  <2>2. "cloud" \notin Told[c] /\ Told' = [Told EXCEPT ![c] = @ \cup {"cloud"}]
    BY <1>1, <2>1 DEF Told
  <2>3. Ended(c)
    BY <1>1 DEF ChatInv, EndedFirst
  <2> QED
    BY <1>1, <2>2, <2>3, Tells
<1>3. CASE cloud' = [cloud EXCEPT ![c] = "dropped"]
  <2>1. \A d \in Chats : cloud'[d] = "sent" <=> cloud[d] = "sent"
    BY <1>1, <1>3 DEF ChatInv, TypeOK
  <2> QED
    BY <1>1, <2>1, Unseen
<1> QED
  BY <1>2, <1>3 DEF PublishCloud

LEMMA DieSeen ==
  ASSUME ChatInv, Die
  PROVE  UNCHANGED Seen
<1>1. \A c \in Chats : cloud'[c] = "sent" <=> cloud[c] = "sent"
  BY DEF Die
<1> QED
  BY <1>1, Unseen DEF Die

\* A step of a request is a step of the chat that stands for it, or none.
LEMMA AccessSeen ==
  ASSUME AccessInv, [AccessNext]_allVars
  PROVE  [Contract!Next]_Seen
<1> ChatInv
  BY Parts
<1>1. ASSUME UNCHANGED vars PROVE UNCHANGED Seen
  BY <1>1 DEF vars, Seen, Over, Told
<1>2. ASSUME NEW c \in Chats, NEW next, Leave(c, next) PROVE [Contract!Next]_Seen
  BY <1>2, OpenSeen DEF Leave
<1>3. CASE \E c \in Chats : ServeLocally(c) \/ Authorise(c) \/ Forward(c)
  BY <1>1, <1>2, <1>3, OpenSeen, Zenon DEF ServeLocally, Authorise, Forward
<1>4. CASE RelayStep
  BY <1>4, AgentStepSeen, ThreadSeen, CloudSeen DEF RelayStep
<1>5. CASE RevokeDevice \/ WriteCredential \/ FailDeploy \/ UNCHANGED allVars
  BY <1>1, <1>5 DEF RevokeDevice, WriteCredential, FailDeploy, allVars
<1>6. CASE CrashServer \/ Reboot \/ ReplaceServer
  BY <1>6, DieSeen DEF CrashServer, Reboot, ReplaceServer, ReplaceServerBy, ServerEnds
<1>7. CASE CrashAgent \/ RestartAgent
  BY <1>7, AgentStartsSeen DEF CrashAgent, RestartAgent
<1> QED
  BY <1>3, <1>4, <1>5, <1>6, <1>7 DEF AccessNext, Deployment

\* Under every request, revocation, rotation and crash the relay keeps the
\* contract: an App that is there sees what the Agent said, one that is gone sees
\* nothing more, and a completed chat is told at most once by each way, at its end.
THEOREM RelayKeepsContract == AccessSpec => KeepsChatContract
<1>1. AccessInit => Contract!Init
  BY ContractInit DEF AccessInit
<1>2. AccessInv /\ [AccessNext]_allVars => [Contract!Next]_Contract!contract
  BY AccessSeen DEF Seen, Contract!contract
<1> QED
  BY <1>1, <1>2, AccessInvariance, PTL DEF AccessSpec, KeepsChatContract, Contract!Spec

-----------------------------------------------------------------------------
(* Completed chats are published: what CompletedIsPublished says of the      *)
(* threads that have ended.                                                 *)

HasDone(c) == \E i \in 1..Len(emitted[c]) : emitted[c][i] = "DONE"

\* [DONE] is the Agent's last block, and once it was read the chat is completed.
DoneIsLast ==
  \A c \in Chats :
    /\ \A i \in 1..Len(emitted[c]) :
         emitted[c][i] = "DONE" => i = Len(emitted[c]) /\ agent[c] = "closed"
    /\ read[c] > 0 /\ emitted[c][read[c]] = "DONE" => terminal[c] = "completed"

\* A thread that has come to its end published such a chat, if it has a name.
DoneIsPublished ==
  \A c \in Chats :
    /\ pc[c] = "idle" => emitted[c] = <<>>
    /\ pc[c] = "cloud" => notice[c] # "none"
    /\ pc[c] = "done" /\ named[c] /\ HasDone(c) => notice[c] # "none" /\ cloud[c] # "none"

Finished == DoneIsLast /\ DoneIsPublished

LEMMA EmitFinishes ==
  ASSUME ChatInv, Finished, NEW c \in Chats, NEW block \in Block, NEW next \in AgentState,
         agent[c] # "closed", block = "DONE" => next = "closed", Emit(c, block, next)
  PROVE  Finished'
<1>1. /\ pc[c] = "relaying" /\ UNCHANGED <<pc, named, read, terminal, notice, cloud>>
      /\ agent'[c] = next /\ emitted'[c] = Append(emitted[c], block)
      /\ \A d \in Chats \ {c} : agent'[d] = agent[d] /\ emitted'[d] = emitted[d]
  BY DEF Emit, ChatInv, TypeOK
<1>2. emitted[c] \in Seq(Block) /\ read[c] \in Nat /\ read[c] <= Len(emitted[c])
  BY DEF ChatInv, TypeOK
<1>3. /\ Len(emitted'[c]) = Len(emitted[c]) + 1 /\ emitted'[c][Len(emitted[c]) + 1] = block
      /\ \A i \in 1..Len(emitted[c]) : emitted'[c][i] = emitted[c][i]
  BY <1>1, <1>2
<1>4. \A i \in 1..Len(emitted[c]) : emitted[c][i] # "DONE"
  BY DEF Finished, DoneIsLast
<1>5. DoneIsLast'
  <2> SUFFICES ASSUME NEW d \in Chats
               PROVE  /\ \A i \in 1..Len(emitted'[d]) :
                           emitted'[d][i] = "DONE" =>
                             i = Len(emitted'[d]) /\ agent'[d] = "closed"
                      /\ read'[d] > 0 /\ emitted'[d][read'[d]] = "DONE" =>
                           terminal'[d] = "completed"
    BY DEF DoneIsLast
  <2>1. CASE d = c
    <3>1. \A i \in 1..Len(emitted'[c]) :
            emitted'[c][i] = "DONE" => i = Len(emitted'[c]) /\ agent'[c] = "closed"
      BY <1>1, <1>2, <1>3, <1>4
    <3>2. read[c] > 0 => emitted'[c][read[c]] # "DONE"
      BY <1>2, <1>3, <1>4
    <3> QED
      BY <1>1, <2>1, <3>1, <3>2
  <2>2. CASE d # c
    BY <1>1, <2>2 DEF Finished, DoneIsLast
  <2> QED
    BY <2>1, <2>2
<1>6. DoneIsPublished'
  BY <1>1 DEF Finished, DoneIsPublished, HasDone
<1> QED
  BY <1>5, <1>6 DEF Finished

\* Steps that touch no block and end no thread.
LEMMA QuietFinishes ==
  ASSUME ChatInv, Finished, UNCHANGED <<named, emitted, read, terminal, notice>>,
         \A c \in Chats : cloud'[c] = "none" => cloud[c] = "none",
         \A c \in Chats : agent[c] = "closed" => agent'[c] = "closed",
         \A c \in Chats : pc'[c] = pc[c] \/ pc'[c] \in {"relaying", "publishing", "aborted", "lost"}
  PROVE  Finished'
<1>1. DoneIsLast'
  BY DEF Finished, DoneIsLast
<1>2. DoneIsPublished'
  BY DEF Finished, DoneIsPublished, HasDone
<1> QED
  BY <1>1, <1>2 DEF Finished

LEMMA RelayFinishes ==
  ASSUME ChatInv, Finished, NEW c \in Chats, Relay(c)
  PROVE  Finished'
<1> DEFINE block == emitted[c][read[c] + 1]
<1>1. /\ pc[c] = "relaying" /\ UNCHANGED <<pc, named, emitted, agent, notice, cloud>>
      /\ read'[c] = read[c] + 1 /\ terminal'[c] = After(terminal[c], block)
      /\ \A d \in Chats \ {c} : read'[d] = read[d] /\ terminal'[d] = terminal[d]
  <2>1. pc' = pc
    BY DEF Relay, Handle, Goto, ChatInv, TypeOK
  <2> QED
    BY <2>1 DEF Relay, Handle, ChatInv, TypeOK
<1>2. block = "DONE" => terminal'[c] = "completed"
  BY <1>1 DEF After, StateOf
<1>3. DoneIsLast'
  <2> SUFFICES ASSUME NEW d \in Chats, read'[d] > 0, emitted[d][read'[d]] = "DONE"
               PROVE  terminal'[d] = "completed"
    BY <1>1 DEF Finished, DoneIsLast
  <2>1. CASE d = c
    BY <1>1, <1>2, <2>1
  <2>2. CASE d # c
    BY <1>1, <2>2 DEF Finished, DoneIsLast
  <2> QED
    BY <2>1, <2>2
<1>4. DoneIsPublished'
  BY <1>1 DEF Finished, DoneIsPublished, HasDone
<1> QED
  BY <1>3, <1>4 DEF Finished

\* The end of the stream: a chat with [DONE] goes on to be published.
LEMMA EndFinishes ==
  ASSUME ChatInv, Finished, NEW c \in Chats, EndRelay(c)
  PROVE  Finished'
<1>1. /\ read[c] = Len(emitted[c])
      /\ UNCHANGED <<named, emitted, agent, read, terminal, notice, cloud>>
      /\ \A d \in Chats \ {c} : pc'[d] = pc[d]
      /\ pc'[c] = IF terminal[c] = "completed" THEN "publishing" ELSE "done"
  BY DEF EndRelay, Goto, ChatInv, TypeOK
<1>2. HasDone(c) => terminal[c] = "completed"
  BY <1>1 DEF HasDone, Finished, DoneIsLast, ChatInv, TypeOK
<1>3. DoneIsLast'
  BY <1>1 DEF Finished, DoneIsLast
<1>4. DoneIsPublished'
  BY <1>1, <1>2 DEF Finished, DoneIsPublished, HasDone
<1> QED
  BY <1>3, <1>4 DEF Finished

LEMMA ThreadFinishes ==
  ASSUME ChatInv, Finished, NEW c \in Chats, Thread(c)
  PROVE  Finished'
<1>1. CASE Relay(c)
  BY <1>1, RelayFinishes
<1>2. CASE EndRelay(c)
  BY <1>2, EndFinishes
<1>3. CASE AbortRelay(c)
  BY <1>3, QuietFinishes DEF AbortRelay, Goto, ChatInv, TypeOK
<1>4. CASE PublishDirect(c) \/ StartCloud(c)
  <2>1. UNCHANGED <<named, emitted, agent, read, terminal>>
    BY <1>4 DEF PublishDirect, StartCloud
  <2>2. /\ \A d \in Chats \ {c} :
             pc'[d] = pc[d] /\ notice'[d] = notice[d] /\ cloud'[d] = cloud[d]
        /\ pc'[c] \in {"cloud", "done"}
        /\ notice'[c] # "none" \/ (~named[c] /\ pc'[c] = "done")
        /\ pc'[c] = "done" => cloud'[c] # "none" \/ ~named[c]
    <3>1. CASE PublishDirect(c)
      BY <3>1 DEF PublishDirect, Goto, ChatInv, TypeOK
    <3>2. CASE StartCloud(c)
      <4>1. notice[c] # "none"
        BY <3>2 DEF StartCloud, Finished, DoneIsPublished
      <4> QED
        BY <3>2, <4>1 DEF StartCloud, Goto, ChatInv, TypeOK
    <3> QED
      BY <1>4, <3>1, <3>2
  <2>3. DoneIsLast'
    BY <2>1 DEF Finished, DoneIsLast
  <2>4. DoneIsPublished'
    BY <2>1, <2>2 DEF Finished, DoneIsPublished, HasDone
  <2> QED
    BY <2>3, <2>4 DEF Finished
<1> QED
  BY <1>1, <1>2, <1>3, <1>4 DEF Thread

LEMMA AgentStepFinishes ==
  ASSUME ChatInv, Finished, NEW c \in Chats, AgentStep(c)
  PROVE  Finished'
<1>1. CASE EmitContent(c) \/ EmitFinish(c) \/ EmitDone(c)
  <2>1. \E block \in Block, next \in AgentState :
          /\ agent[c] # "closed" /\ (block = "DONE" => next = "closed")
          /\ Emit(c, block, next)
    BY <1>1 DEF EmitContent, EmitFinish, EmitDone, Block, AgentState
  <2> QED
    BY <2>1, EmitFinishes
<1>2. CASE CutOff(c)
  <2>1. /\ UNCHANGED <<named, emitted, pc, read, terminal, notice, cloud>>
        /\ \A d \in Chats : agent[d] = "closed" => agent'[d] = "closed"
    BY <1>2 DEF CutOff, ChatInv, TypeOK
  <2> QED
    BY <2>1, QuietFinishes
<1> QED
  BY <1>1, <1>2 DEF AgentStep

\* The Agent refuses or accepts: nothing was said before.
LEMMA OpenFinishes ==
  ASSUME ChatInv, Finished, NEW c \in Chats, Open(c) \/ OpenOther(c)
  PROVE  Finished'
<1>1. /\ pc[c] = "idle" /\ UNCHANGED <<named, emitted, agent, read, terminal, notice, cloud>>
      /\ \A d \in Chats \ {c} : pc'[d] = pc[d]
      /\ pc'[c] \in {"relaying", "done"}
  BY DEF Open, OpenOther, Goto, ChatInv, TypeOK
<1>2. ~HasDone(c)
  BY <1>1 DEF Finished, DoneIsPublished, HasDone
<1>3. DoneIsLast'
  BY <1>1 DEF Finished, DoneIsLast
<1>4. DoneIsPublished'
  BY <1>1, <1>2 DEF Finished, DoneIsPublished, HasDone
<1> QED
  BY <1>3, <1>4 DEF Finished

LEMMA AccessFinishes ==
  ASSUME AccessInv, Finished, [AccessNext]_allVars
  PROVE  Finished'
<1> ChatInv
  BY Parts
<1>1. ASSUME UNCHANGED vars PROVE Finished'
  BY <1>1, QuietFinishes DEF vars
<1>2. ASSUME NEW c \in Chats, NEW next, Leave(c, next) PROVE Finished'
  BY <1>2, OpenFinishes DEF Leave
<1>3. CASE \E c \in Chats : ServeLocally(c) \/ Authorise(c) \/ Forward(c)
  BY <1>1, <1>2, <1>3, OpenFinishes, Zenon DEF ServeLocally, Authorise, Forward
<1>4. ASSUME NEW c \in Chats, PublishCloud(c) PROVE Finished'
  BY <1>4, QuietFinishes DEF PublishCloud
<1>5. CASE RelayStep
  BY <1>4, <1>5, AgentStepFinishes, ThreadFinishes DEF RelayStep
<1>6. CASE RevokeDevice \/ WriteCredential \/ FailDeploy \/ UNCHANGED allVars
  BY <1>1, <1>6 DEF RevokeDevice, WriteCredential, FailDeploy, allVars
<1>7. CASE CrashServer \/ Reboot \/ ReplaceServer
  <2>1. Die
    BY <1>7 DEF CrashServer, Reboot, ReplaceServer, ReplaceServerBy, ServerEnds
  <2> QED
    BY <2>1, QuietFinishes DEF Die
<1>8. CASE CrashAgent \/ RestartAgent
  <2>1. AgentStarts
    BY <1>8 DEF CrashAgent, RestartAgent
  <2>2. /\ UNCHANGED <<named, emitted, pc, read, terminal, notice, cloud>>
        /\ \A c \in Chats : agent[c] = "closed" => agent'[c] = "closed"
    BY <2>1 DEF AgentStarts
  <2> QED
    BY <2>2, QuietFinishes
<1> QED
  BY <1>3, <1>5, <1>6, <1>7, <1>8 DEF AccessNext, Deployment

\* The safety half of CompletedIsPublished: the thread of a chat that the Agent
\* ended with [DONE] does not end without having handed its notification to the
\* store and to the Cloud's thread, whether or not the App is still there, and
\* to the second also when the first failed.
THEOREM CompletedChatsAreNotified ==
  AccessSpec => [](\A c \in Chats :
                     pc[c] = "done" /\ named[c] /\ HasDone(c)
                       => notice[c] # "none" /\ cloud[c] # "none")
<1>1. AccessInit => Finished
  BY DEF AccessInit, Init, Finished, DoneIsLast, DoneIsPublished, HasDone
<1>2. AccessSpec => []Finished
  BY <1>1, AccessFinishes, AccessInvariance, PTL DEF AccessSpec
<1>3. Finished => \A c \in Chats :
                    pc[c] = "done" /\ named[c] /\ HasDone(c)
                      => notice[c] # "none" /\ cloud[c] # "none"
  BY DEF Finished, DoneIsPublished
<1> QED
  BY <1>2, <1>3, PTL

-----------------------------------------------------------------------------
(* The credentials. *)

\* The path that the Agent gets names the Profile that was checked.
LEMMA OneProfile ==
  ASSUME NEW r \in Request
  PROVE  /\ AgentReads(AgentPath(r)) = CheckedProfile(r)
         /\ r.path = "models/config" => ConfigProfile(r) = CheckedProfile(r)
<1>1. AgentReads(AgentPath(r)) = CheckedProfile(r)
  <2>1. CASE r.profile = Unprefixed
    <3>1. AgentPath(r) = <<r.path>> /\ r.path # "p"
      BY <2>1 DEF AgentPath, Request, Paths, ExactPaths, PrefixPaths
    <3> QED
      BY <2>1, <3>1 DEF AgentReads, CheckedProfile
  <2>2. CASE r.profile # Unprefixed
    <3>1. AgentPath(r) = <<"p", r.profile, r.path>>
      BY <2>2 DEF AgentPath
    <3> QED
      BY <2>2, <3>1 DEF AgentReads, CheckedProfile
  <2> QED
    BY <2>1, <2>2
<1>2. r.path = "models/config" => ConfigProfile(r) = CheckedProfile(r)
  BY DEF ConfigProfile, CheckedProfile
<1> QED
  BY <1>1, <1>2

\* What the Agent is asked for a device, and the configurations that models/config
\* tells it, are of a Profile of the device's scope, and nothing that is guarded
\* is had by a request from after the revocation.  The query of model-config is
\* not in it: ToldIsAuthorised is violated there.
THEOREM ScopeReachesTheAgent == AccessSpec => []ForwardedIsAuthorised
<1>1. ASSUME AccessInv PROVE ForwardedIsAuthorised
  <2> SUFFICES ASSUME NEW c \in Chats, request[c].bearer = "device"
               PROVE  /\ gate[c] \in {"rejected", "accepted"}
                           => AgentReads(AgentPath(request[c])) \in Permitted
                      /\ (gate[c] = "answered" /\ AsksConfig(request[c])
                          /\ request[c].path = "models/config")
                           => ConfigProfile(request[c]) \in Permitted
                      /\ late[c] => /\ gate[c] \notin {"rejected", "accepted"}
                                    /\ gate[c] = "answered"
                                         => At(request[c]) \in OpenPaths
    BY DEF ForwardedIsAuthorised
  <2>1. request[c] \in Request
    BY <1>1, AgentAccessAssumption, Parts DEF AccessTypes
  <2>2. InScope(CheckedProfile(request[c])) => CheckedProfile(request[c]) \in Permitted
    BY DEF InScope, Permitted
  <2>3. Checked
    BY <1>1, Parts
  <2>4. gate[c] \in {"rejected", "accepted"}
          => AgentReads(AgentPath(request[c])) \in Permitted
    BY <2>1, <2>2, <2>3, OneProfile DEF Checked
  <2>5. (gate[c] = "answered" /\ AsksConfig(request[c]) /\ request[c].path = "models/config")
          => ConfigProfile(request[c]) \in Permitted
    BY <2>1, <2>2, <2>3, OneProfile DEF Checked
  <2>6. late[c] => /\ gate[c] \notin {"rejected", "accepted"}
                   /\ gate[c] = "answered" => At(request[c]) \in OpenPaths
    BY <2>3 DEF Checked
  <2> QED
    BY <2>4, <2>5, <2>6, Zenon
<1> QED
  BY <1>1, AccessInvariance, PTL

\* What became of one request that was on its way or arrived.
LEMMA GateMoves ==
  ASSUME AccessInv, [AccessNext]_allVars, NEW c \in Chats, gate'[c] # gate[c]
  PROVE  \/ Forward(c)
         \/ ServeLocally(c)
         \/ gate'[c] \in {"authorised", "not found", "bad request", "denied", "no key", "lost"}
<1>1. ASSUME NEW d \in Chats, NEW next, gate' = [gate EXCEPT ![d] = next]
      PROVE  d = c /\ gate'[c] = next
  BY <1>1, Parts DEF AccessTypes
<1>2. CASE \E d \in Chats : Forward(d) \/ ServeLocally(d)
  <2>1. PICK d \in Chats : Forward(d) \/ ServeLocally(d)
    BY <1>2
  <2>2. \E next : gate' = [gate EXCEPT ![d] = next]
    BY <2>1, Zenon DEF Forward, ServeLocally, Leave, Pass
  <2> QED
    BY <1>1, <2>1, <2>2
<1>3. CASE \E d \in Chats : Authorise(d)
  <2>1. PICK d \in Chats : Authorise(d)
    BY <1>3
  <2>2. \E next \in {"authorised", "not found", "bad request", "denied", "no key"} :
          gate' = [gate EXCEPT ![d] = next]
    BY <2>1, Zenon DEF Authorise, Leave, Pass
  <2> QED
    BY <1>1, <2>2
<1>4. CASE \/ RelayStep \/ RevokeDevice \/ CrashAgent \/ WriteCredential
           \/ RestartAgent \/ FailDeploy \/ UNCHANGED allVars
  <2>1. gate' = gate
    BY <1>4 DEF RelayStep, RevokeDevice, CrashAgent, WriteCredential, RestartAgent,
                FailDeploy, AgentStarts, accessVars, allVars
  <2> QED
    BY <2>1
<1>5. CASE CrashServer \/ Reboot \/ ReplaceServer
  <2>1. gate' = [d \in Chats |-> IF gate[d] = "authorised" THEN "lost" ELSE gate[d]]
    BY <1>5 DEF CrashServer, Reboot, ReplaceServer, ReplaceServerBy, ServerEnds
  <2> QED
    BY <2>1
<1> QED
  BY <1>2, <1>3, <1>4, <1>5 DEF AccessNext, Deployment

\* The Agent refuses a device's request only during a rotation or after one that
\* failed, and lets nobody in with a credential that a finished one replaced,
\* whatever was restarted and in which order.
THEOREM RotationsEnd == AccessSpec => RotationTakesEffect
<1>1. ASSUME AccessInv, [AccessNext]_allVars, NEW c \in Chats, gate'[c] # gate[c],
             Forward(c)
      PROVE  /\ gate'[c] = "rejected" => agentKey # key[c]
             /\ gate'[c] = "accepted" => agentKey = key[c]
             /\ gate'[c] # "answered"
             /\ gate[c] = "authorised"
  <2>1. \/ gate' = [gate EXCEPT ![c] = "unavailable"]
        \/ gate' = [gate EXCEPT ![c] = "rejected"] /\ agentKey # key[c]
        \/ gate' = [gate EXCEPT ![c] = "accepted"] /\ agentKey = key[c]
    BY <1>1 DEF Forward, Leave, Pass
  <2> QED
    BY <1>1, <2>1, Parts DEF AccessTypes, Forward
<1>2. ASSUME AccessInv, [AccessNext]_allVars, NEW c \in Chats, gate'[c] # gate[c],
             ServeLocally(c)
      PROVE  /\ (gate'[c] = "answered" /\ request[c].bearer = "legacy"
                 /\ At(request[c]) \notin OpenPaths)
                  => serverKey = 1
             /\ gate'[c] \notin {"rejected", "accepted"}
  <2>1. PICK next \in LocalAnswers(request[c]) : gate' = [gate EXCEPT ![c] = next]
    BY <1>2, Zenon DEF ServeLocally, Leave, Pass
  <2>2. gate'[c] = next
    BY <1>2, <2>1, Parts DEF AccessTypes
  <2>3. request[c] \in Request /\ ServedHere(request[c])
    BY <1>2, AgentAccessAssumption, Parts DEF ServeLocally, AccessTypes
  <2>4. next \notin {"rejected", "accepted"}
    BY <2>1, <2>3, AnswersAreLocal
  <2>5. (next = "answered" /\ request[c].bearer = "legacy" /\ At(request[c]) \notin OpenPaths)
          => serverKey = 1
    BY <2>1, <2>3, LetIn
  <2>6. gate'[c] \notin {"rejected", "accepted"}
    BY <2>2, <2>4
  <2> QED
    BY <2>2, <2>5, <2>6, Zenon
<1>3. ASSUME AccessInv, [AccessNext]_allVars, NEW c \in Chats,
             request[c].bearer = "device", gate[c] = "authorised", gate'[c] = "rejected"
      PROVE  outcome \in {"running", "failed"}
  <2>1. agentKey # key[c]
    BY <1>1, <1>2, <1>3, GateMoves
  <2>2. agentKey # serverKey
    BY <1>3, <2>1, Parts DEF KeyInUse
  <2> QED
    BY <1>3, <2>2, Parts DEF Current, AccessTypes
<1>4. ASSUME AccessInv, [AccessNext]_allVars, NEW c \in Chats,
             request[c].bearer = "legacy", gate'[c] # gate[c], outcome = "ready",
             \/ gate'[c] = "accepted"
             \/ gate'[c] = "answered" /\ At(request[c]) \notin OpenPaths
      PROVE  credential = 1
  <2>1. agentKey = credential /\ serverKey = credential
    BY <1>4, Parts DEF Current
  <2>2. CASE Forward(c)
    <3>1. gate[c] = "authorised" /\ agentKey = key[c]
      BY <1>1, <1>4, <2>2
    <3> QED
      BY <1>4, <2>1, <3>1, Parts DEF KeyInUse
  <2>3. CASE ServeLocally(c)
    BY <1>2, <1>4, <2>1, <2>3
  <2> QED
    BY <1>4, <2>2, <2>3, GateMoves
<1>5. AccessInv /\ [AccessNext]_allVars =>
        [\A c \in Chats :
           LET r == request[c]
               opened == \/ gate'[c] = "accepted"
                         \/ gate'[c] = "answered" /\ At(r) \notin OpenPaths IN
           /\ r.bearer = "device" /\ gate[c] = "authorised" /\ gate'[c] = "rejected"
                => outcome \in {"running", "failed"}
           /\ r.bearer = "legacy" /\ gate'[c] # gate[c] /\ opened
                => outcome # "ready" \/ credential = 1]_allVars
  BY <1>3, <1>4
<1> QED
  BY <1>5, AccessInvariance, PTL DEF AccessSpec, RotationTakesEffect
=============================================================================
