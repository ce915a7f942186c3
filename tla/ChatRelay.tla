------------------------------ MODULE ChatRelay ------------------------------
(***************************************************************************)
(* The chat proxy: the bridge relays one Agent's event stream to the App   *)
(* and, when the chat ended well, publishes a chat.completed notification. *)
(*                                                                         *)
(* The relay keeps draining the Agent after the App went away, so that an  *)
(* App that was closed is still notified.  Every chat has a thread of its  *)
(* own; chats share nothing but the process.                               *)
(*                                                                         *)
(* The Agent's bytes are blocks (server-sent events).  How they are cut    *)
(* into chunks of 1024 bytes does not matter to the relay, and a block     *)
(* torn by the end of the stream counts as content: it is forwarded and    *)
(* has no terminal state.                                                  *)
(***************************************************************************)
EXTENDS Naturals, Sequences, SequencesExt

CONSTANTS
  Chats,        \* chat requests of Apps
  MaxContent,   \* bound: content blocks the Agent sends in one chat
  MaxCrashes    \* bound: how many times the server process dies

ASSUME ChatRelayAssumption == MaxContent \in Nat /\ MaxCrashes \in Nat

VARIABLES
  named,      \* does the request carry a session id and a valid Profile?
  agent,      \* the Agent's end of the stream of each chat
  emitted,    \* the blocks the Agent sent
  pc,         \* where the thread of each chat is
  read,       \* how many of the emitted blocks the relay has handled
  terminal,   \* chat_terminal_state, "none" before the first
  connected,  \* client_connected
  sent,       \* the blocks written to the App
  notice,     \* what became of the chat's DIRECT notification
  cloud,      \* the thread that sends the chat's notification to the Cloud
  crashes     \* how often the process has died

vars == <<named, agent, emitted, pc, read, terminal, connected, sent,
          notice, cloud, crashes>>

\* "stop" and "error" stand for blocks with a finish_reason, by its class, "DONE"
\* for the last one, whose data is [DONE].
Block == {"content", "stop", "error", "DONE"}

AgentState == {"answering", "finished", "closed", "broken"}

Phase == {"idle", "relaying", "publishing", "cloud", "done", "aborted", "lost"}

Running(c) == pc[c] \in {"relaying", "publishing", "cloud"}

\* _chat_stream_terminal_state.
StateOf(block) ==
  CASE block \in {"stop", "DONE"} -> "completed"
    [] block = "error" -> "failed"
    [] OTHER -> "none"

\* Mutated forms: every block that is no error counts as completed; the state
\* is the finish reason itself.
AfterAny(state, block) == IF block = "error" THEN "failed" ELSE "completed"
AfterRaw(state, block) == IF StateOf(block) # "none" THEN block ELSE state

\* The last terminal block decides.
After(state, block) == IF StateOf(block) # "none" THEN StateOf(block) ELSE state

-----------------------------------------------------------------------------
Init ==
  /\ named \in [Chats -> BOOLEAN]
  /\ agent = [c \in Chats |-> "answering"]
  /\ emitted = [c \in Chats |-> <<>>]
  /\ pc = [c \in Chats |-> "idle"]
  /\ read = [c \in Chats |-> 0]
  /\ terminal = [c \in Chats |-> "none"]
  /\ connected = [c \in Chats |-> TRUE]
  /\ sent = [c \in Chats |-> <<>>]
  /\ notice = [c \in Chats |-> "none"]
  /\ cloud = [c \in Chats |-> "none"]
  /\ crashes = 0

Goto(c, phase) == pc' = [pc EXCEPT ![c] = phase]

-----------------------------------------------------------------------------
(* The Agent: content, a block with the finish reason, [DONE], the end.    *)
(* What it does when nobody relays it is seen by nobody.                   *)

Emit(c, block, next) ==
  /\ pc[c] = "relaying"
  /\ emitted' = [emitted EXCEPT ![c] = Append(@, block)]
  /\ agent' = [agent EXCEPT ![c] = next]
  /\ UNCHANGED <<named, pc, read, terminal, connected, sent, notice, cloud, crashes>>

EmitContent(c) ==
  /\ agent[c] = "answering"
  /\ Len(SelectSeq(emitted[c], LAMBDA b : b = "content")) < MaxContent
  /\ Emit(c, "content", "answering")

EmitFinish(c) ==
  /\ agent[c] = "answering"
  /\ \E block \in {"stop", "error"} : Emit(c, block, "finished")

EmitDone(c) ==
  /\ agent[c] \in {"answering", "finished"}
  /\ Emit(c, "DONE", "closed")

\* The stream ends early: cleanly, or with an error for the reader.
CutOff(c) ==
  /\ pc[c] = "relaying"
  /\ agent[c] \in {"answering", "finished"}
  /\ \E end \in {"closed", "broken"} : agent' = [agent EXCEPT ![c] = end]
  /\ UNCHANGED <<named, emitted, pc, read, terminal, connected, sent, notice,
                 cloud, crashes>>

-----------------------------------------------------------------------------
(* The relay. *)

\* The Agent answers with an event stream; sending the response headers and
\* the "accepted" event may already find the App gone.
Open(c) ==
  /\ pc[c] = "idle"
  /\ Goto(c, "relaying")
  /\ \E ok \in BOOLEAN : connected' = [connected EXCEPT ![c] = ok]
  /\ UNCHANGED <<named, agent, emitted, read, terminal, sent, notice, cloud, crashes>>

\* The Agent is unavailable, refuses, or answers without a stream.
OpenOther(c) ==
  /\ pc[c] = "idle"
  /\ Goto(c, "done")
  /\ UNCHANGED <<named, agent, emitted, read, terminal, connected, sent, notice,
                 cloud, crashes>>

\* Handle one block: note its terminal state, forward it to an App that is
\* there; a failed write is noticed once and ends the forwarding.
Handle(c, phaseOnFailure, stillConnected) ==
  LET block == emitted[c][read[c] + 1] IN
  /\ pc[c] = "relaying"
  /\ read[c] < Len(emitted[c])
  /\ read' = [read EXCEPT ![c] = @ + 1]
  /\ terminal' = [terminal EXCEPT ![c] = After(@, block)]
  /\ \/ /\ connected[c]
        /\ sent' = [sent EXCEPT ![c] = Append(@, block)]
        /\ UNCHANGED <<pc, connected>>
     \/ /\ connected[c]
        /\ connected' = [connected EXCEPT ![c] = stillConnected]
        /\ Goto(c, phaseOnFailure)
        /\ UNCHANGED sent
     \/ ~connected[c] /\ UNCHANGED <<pc, connected, sent>>
  /\ UNCHANGED <<named, agent, emitted, notice, cloud, crashes>>

\* Mutated forms: the relay stops with the App; the failed write is ignored.
RelayWhileConnected(c) == Handle(c, "done", FALSE)
RelayIgnoringFailure(c) == Handle(c, "relaying", TRUE)

Relay(c) == Handle(c, "relaying", FALSE)

\* Mutated form: published as soon as a terminal block was seen.
EndRelayEarly(c) ==
  /\ pc[c] = "relaying"
  /\ \/ terminal[c] = "completed" /\ Goto(c, "publishing")
     \/ /\ terminal[c] # "completed"
        /\ read[c] = Len(emitted[c])
        /\ agent[c] = "closed"
        /\ Goto(c, "done")
  /\ UNCHANGED <<named, agent, emitted, read, terminal, connected, sent, notice,
                 cloud, crashes>>

\* The Agent's stream is at its end.
EndRelay(c) ==
  /\ pc[c] = "relaying"
  /\ read[c] = Len(emitted[c])
  /\ agent[c] = "closed"
  /\ Goto(c, IF terminal[c] = "completed" THEN "publishing" ELSE "done")
  /\ UNCHANGED <<named, agent, emitted, read, terminal, connected, sent, notice,
                 cloud, crashes>>

\* Mutated form: no time-out.
AbortWhenBroken(c) ==
  /\ pc[c] = "relaying"
  /\ read[c] = Len(emitted[c])
  /\ agent[c] = "broken"
  /\ Goto(c, "aborted")
  /\ UNCHANGED <<named, agent, emitted, read, terminal, connected, sent, notice,
                 cloud, crashes>>

\* Reading fails, because the stream broke or nothing came for an hour: the
\* exception leaves the handler and nothing is published.
AbortRelay(c) ==
  /\ pc[c] = "relaying"
  /\ read[c] = Len(emitted[c])
  /\ agent[c] # "closed"
  /\ Goto(c, "aborted")
  /\ UNCHANGED <<named, agent, emitted, read, terminal, connected, sent, notice,
                 cloud, crashes>>

-----------------------------------------------------------------------------
(* Publishing. *)

\* _chat_completed_event and _publish_direct_event: no event for a request
\* without a session id; an error of the store is swallowed.
PublishDirect(c) ==
  /\ pc[c] = "publishing"
  /\ \/ ~named[c] /\ Goto(c, "done") /\ UNCHANGED notice
     \/ /\ named[c]
        /\ \E outcome \in {"stored", "swallowed"} :
             notice' = [notice EXCEPT ![c] = outcome]
        /\ Goto(c, "cloud")
  /\ UNCHANGED <<named, agent, emitted, read, terminal, connected, sent, cloud, crashes>>

\* The Cloud thread is started, whatever became of the DIRECT event.
StartCloud(c) ==
  /\ pc[c] = "cloud"
  /\ Goto(c, "done")
  /\ cloud' = [cloud EXCEPT ![c] = "started"]
  /\ UNCHANGED <<named, agent, emitted, read, terminal, connected, sent, notice, crashes>>

\* _publish_cloud_event: one attempt; no configuration, another server id and
\* every error of the transport end it silently.
PublishCloud(c) ==
  /\ cloud[c] = "started"
  /\ \E outcome \in {"sent", "dropped"} : cloud' = [cloud EXCEPT ![c] = outcome]
  /\ UNCHANGED <<named, agent, emitted, pc, read, terminal, connected, sent,
                 notice, crashes>>

\* The process dies with all its threads.
Die ==
  /\ pc' = [c \in Chats |-> IF Running(c) THEN "lost" ELSE pc[c]]
  /\ cloud' = [c \in Chats |-> IF cloud[c] = "started" THEN "dropped" ELSE cloud[c]]
  /\ UNCHANGED <<named, agent, emitted, read, terminal, connected, sent, notice>>

Crash == crashes < MaxCrashes /\ crashes' = crashes + 1 /\ Die

-----------------------------------------------------------------------------
AgentStep(c) == EmitContent(c) \/ EmitFinish(c) \/ EmitDone(c) \/ CutOff(c)

Thread(c) ==
  \/ Relay(c) \/ EndRelay(c) \/ AbortRelay(c) \/ PublishDirect(c) \/ StartCloud(c)

Next ==
  \/ \E c \in Chats : Open(c) \/ OpenOther(c) \/ AgentStep(c) \/ Thread(c)
  \/ \E c \in Chats : PublishCloud(c)
  \/ Crash

Spec == Init /\ [][Next]_vars

\* The steps that a thread takes without an App that is there: a read times out
\* after an hour, the store and the Cloud after seconds.  Writing to an App has
\* no time-out: such a step is taken when the App reads, or when it goes away.
ThreadAlone(c) ==
  \/ ~connected[c] /\ Relay(c)
  \/ EndRelay(c) \/ AbortRelay(c) \/ PublishDirect(c) \/ StartCloud(c)

\* Threads run.  Neither the Agent nor the App owes anything.
FairSpec ==
  Spec /\ \A c \in Chats : WF_vars(ThreadAlone(c)) /\ WF_vars(PublishCloud(c))

\* The thread is in a write to the App, which lasts as long as the App neither
\* reads nor goes away.
Writing(c) == pc[c] = "relaying" /\ connected[c] /\ read[c] < Len(emitted[c])

-----------------------------------------------------------------------------
(* Properties. *)

\* Types of the chats.
TypeOK ==
  /\ named \in [Chats -> BOOLEAN]
  /\ agent \in [Chats -> AgentState]
  /\ emitted \in [Chats -> Seq(Block)]
  /\ pc \in [Chats -> Phase]
  /\ read \in [Chats -> Nat]
  /\ \A c \in Chats : read[c] <= Len(emitted[c])
  /\ terminal \in [Chats -> {"none", "completed", "failed"}]
  /\ connected \in [Chats -> BOOLEAN]
  /\ sent \in [Chats -> Seq(Block)]
  /\ notice \in [Chats -> {"none", "stored", "swallowed"}]
  /\ cloud \in [Chats -> {"none", "started", "sent", "dropped"}]
  /\ crashes \in Nat

Over ==
  [c \in Chats |-> IF agent[c] \in {"answering", "finished"} THEN "open" ELSE agent[c]]

\* An App is told what is in the store, or what the Cloud has taken.
Told ==
  [c \in Chats |-> (IF notice[c] = "stored" THEN {"direct"} ELSE {})
                   \cup IF cloud[c] = "sent" THEN {"cloud"} ELSE {}]

Contract == INSTANCE ChatContract WITH
  Blocks <- Block, Completing <- {"stop", "DONE"}, Failing <- {"error"},
  Ways <- {"direct", "cloud"},
  said <- emitted, over <- Over, present <- connected, shown <- sent, told <- Told

\* The relay keeps the contract: whoever leaves, breaks or dies, the App sees the
\* Agent's blocks in order and without a hole, and is told at most once by each
\* way, when it has seen all of them or is gone.
KeepsChatContract == Contract!Spec

\* Nothing is published, by either way, of a chat whose stream broke, is still
\* running, or did not end well: of its terminal blocks the last one completes it.
NotifiedAfterEnd ==
  \A c \in Chats :
    notice[c] # "none" \/ cloud[c] # "none" =>
      /\ agent[c] = "closed"
      /\ read[c] = Len(emitted[c])
      /\ Contract!Completed(emitted[c])

\* A chat that ended with an error or a cancellation is not notified as
\* completed: only successful terminal chunks are notifiable.
FailedIsSilent ==
  \A c \in Chats : Contains(emitted[c], "error") => notice[c] # "stored"

\* A chat the Agent completed while it was relayed is published both ways, also
\* when the App went away meanwhile: it is handed to the DIRECT store, and when
\* that fails to the Cloud all the same; unless the process dies, the read timed
\* out before the end, or the App neither reads nor goes away.
CompletedIsPublished ==
  \A c \in Chats :
    []<>~Writing(c) =>
      (Running(c) /\ named[c] /\ Contains(emitted[c], "DONE")
         ~> \/ notice[c] # "none" /\ cloud[c] # "none"
            \/ pc[c] \in {"aborted", "lost"})

\* Only an App that neither reads nor goes away keeps a chat's thread for ever:
\* not an Agent that says nothing, an App that is gone, the store or the Cloud,
\* whose own thread ends too.
EveryThreadEnds ==
  \A c \in Chats :
    []<>~Writing(c) =>
      (Running(c) \/ cloud[c] = "started" ~> ~Running(c) /\ cloud[c] # "started")
=============================================================================
