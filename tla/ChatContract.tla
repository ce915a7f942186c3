---------------------------- MODULE ChatContract ----------------------------
(***************************************************************************)
(* What the chat proxy promises, without threads, buffers, crashes or      *)
(* credentials: an App that is there is shown what the Agent said, in      *)
(* order and without a hole; an App that is gone is shown nothing more;    *)
(* and that a chat is completed is told, by each way at most once, when    *)
(* the Agent has ended it well and the App has seen all of it or is gone.  *)
(* Module ChatRelay implements this contract.                              *)
(***************************************************************************)
EXTENDS Naturals, Sequences

CONSTANTS
  Chats,
  Blocks,      \* what an Agent may say
  Completing,  \* the blocks that complete a chat
  Failing,     \* the blocks that fail it
  Ways         \* the ways of notifying

VARIABLES
  said,     \* what the Agent has said in each chat
  over,     \* did it end the chat ("closed"), or did the stream break?
  present,  \* is the App there?
  shown,    \* what the App was shown
  told      \* the ways by which the chat was notified

contract == <<said, over, present, shown, told>>

Init ==
  /\ said = [c \in Chats |-> <<>>]
  /\ over = [c \in Chats |-> "open"]
  /\ present = [c \in Chats |-> TRUE]
  /\ shown = [c \in Chats |-> <<>>]
  /\ told = [c \in Chats |-> {}]

\* Of the blocks that end a chat the last one says how.
Completed(blocks) ==
  \E i \in DOMAIN blocks :
    /\ blocks[i] \in Completing
    /\ \A j \in DOMAIN blocks : j > i => blocks[j] \notin Failing

Say(c, block) ==
  /\ over[c] = "open"
  /\ said' = [said EXCEPT ![c] = Append(@, block)]
  /\ \E end \in {"open", "closed"} : over' = [over EXCEPT ![c] = end]
  /\ UNCHANGED <<present, shown, told>>

\* An Agent that dies ends all its chats at once.
End(ending) ==
  /\ \A c \in ending : over[c] = "open"
  /\ \E end \in {"closed", "broken"} :
       over' = [c \in Chats |-> IF c \in ending THEN end ELSE over[c]]
  /\ UNCHANGED <<said, present, shown, told>>

Show(c) ==
  /\ present[c]
  /\ Len(shown[c]) < Len(said[c])
  /\ shown' = [shown EXCEPT ![c] = Append(@, said[c][Len(@) + 1])]
  /\ UNCHANGED <<said, over, present, told>>

Leave(c) ==
  /\ present' = [present EXCEPT ![c] = FALSE]
  /\ UNCHANGED <<said, over, shown, told>>

Tell(c, way) ==
  /\ over[c] = "closed"
  /\ Completed(said[c])
  /\ shown[c] = said[c] \/ ~present[c]
  /\ way \notin told[c]
  /\ told' = [told EXCEPT ![c] = @ \cup {way}]
  /\ UNCHANGED <<said, over, present, shown>>

Next ==
  \/ \E c \in Chats, block \in Blocks : Say(c, block)
  \/ \E ending \in SUBSET Chats : End(ending)
  \/ \E c \in Chats : Show(c) \/ Leave(c)
  \/ \E c \in Chats, way \in Ways : Tell(c, way)

Spec == Init /\ [][Next]_contract
=============================================================================
