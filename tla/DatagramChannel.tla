-------------------------- MODULE DatagramChannel --------------------------
(***************************************************************************)
(* What the application is promised when transparent mode is switched on   *)
(* underneath it: still UDP.  Datagrams may be lost, duplicated and        *)
(* reordered, and each one that arrives is one that was sent, with the     *)
(* same bytes and the same length.                                         *)
(***************************************************************************)
CONSTANT Messages

VARIABLES
  sent,  \* messages handed to the socket
  got    \* messages read from the peer's socket

vars == <<sent, got>>

Init == sent = {} /\ got = {}

Send(m) == sent' = sent \union {m} /\ UNCHANGED got

Deliver(m) == m \in sent /\ got' = got \union {m} /\ UNCHANGED sent

Next == \E m \in Messages : Send(m) \/ Deliver(m)

Spec == Init /\ [][Next]_vars
=============================================================================
