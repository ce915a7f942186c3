--------------------------- MODULE PairingContract ---------------------------
(***************************************************************************)
(* What pairing promises to Apps and operators, without threads, clocks,   *)
(* locks or crashes: a code offered with a Profile scope is redeemed at    *)
(* most once, redeeming it registers one device with that very scope in    *)
(* the same step, and revoking a device concerns that device alone.        *)
(* Module Pairing implements this contract.                                *)
(***************************************************************************)
CONSTANTS Codes, Devices, Scopes

VARIABLES
  offered,   \* codes that can be redeemed, as a function to their scope
  paired,    \* registered devices, as a function to their code and scope
  revoked    \* devices whose token is no longer accepted

contract == <<offered, paired, revoked>>

Extend(f, x, v) == [y \in DOMAIN f \cup {x} |-> IF y = x THEN v ELSE f[y]]

Drop(f, x) == [y \in DOMAIN f \ {x} |-> f[y]]

Init ==
  /\ offered = [c \in {} |-> {}]
  /\ paired = [d \in {} |-> {}]
  /\ revoked = {}

Redeemed(c) == \E d \in DOMAIN paired : paired[d].code = c

Offer(c, scope) ==
  /\ c \notin DOMAIN offered
  /\ ~Redeemed(c)
  /\ offered' = Extend(offered, c, scope)
  /\ UNCHANGED <<paired, revoked>>

Redeem(c, d) ==
  /\ c \in DOMAIN offered
  /\ d \notin DOMAIN paired
  /\ offered' = Drop(offered, c)
  /\ paired' = Extend(paired, d, [code |-> c, scope |-> offered[c]])
  /\ UNCHANGED revoked

Revoke(d) ==
  /\ d \in DOMAIN paired \ revoked
  /\ revoked' = revoked \cup {d}
  /\ UNCHANGED <<offered, paired>>

Next ==
  \/ \E c \in Codes, scope \in Scopes : Offer(c, scope)
  \/ \E c \in Codes, d \in Devices : Redeem(c, d)
  \/ \E d \in Devices : Revoke(d)

Spec == Init /\ [][Next]_contract
=============================================================================
