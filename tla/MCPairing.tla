------------------------------ MODULE MCPairing ------------------------------
(* A small instance of Pairing: two exchanges race for one code, and an       *)
(* authentication races two revocations of the token of the first.            *)
EXTENDS Pairing

CONSTANT e1

\* Of all inputs, those where the calls meet on the token of e1.  One of the
\* names typed is no Profile's: beside "work" it is dropped, alone it leaves
\* the list empty.  The revocations join in where the Profile asked for is
\* granted; where it is not typed, they are of the other exchange's token.
MeetingInit ==
  /\ Init
  /\ \A c \in Issues, a \in Auths :
       /\ <<input.names[c], input.profile[a]>> \in
            {<<{"work", "no name"}, "work">>, <<{"work", "no name"}, "home">>,
             <<{"no name"}, "home">>}
       /\ TokenOf(a) = e1
       /\ \A r \in Revokes : TokenOf(r) = e1 <=> input.profile[a] = "work"

\* FairSpec from these states.
MeetingSpec ==
  MeetingInit /\ [][Next]_vars /\ \A k \in Calls : WF_vars(Serve(k))
=============================================================================
