--------------------------- MODULE MCTransparent ---------------------------
(***************************************************************************)
(* Small instances of Transparent.  Lengths sit on the boundaries of the   *)
(* padding, of the trailer (24 bytes) and of the payload limit.            *)
(***************************************************************************)
EXTENDS Transparent

Udp(port, linear) == [proto |-> "ip", ihl |-> 5, frag |-> FALSE, l4 |-> "udp",
                      dport |-> port, linear |-> linear]

PlainShapes == {Udp(7777, TRUE)}

\* Traffic the hook must refuse or leave alone as well.
MixedShapes ==
  {Udp(7777, TRUE), Udp(7777, FALSE), Udp(53, TRUE),
   [Udp(7777, TRUE) EXCEPT !.ihl = 6], [Udp(7777, TRUE) EXCEPT !.frag = TRUE],
   [Udp(7777, TRUE) EXCEPT !.l4 = "other"], [Udp(7777, TRUE) EXCEPT !.proto = "other"]}

Cfg(action, algo, key) == [action |-> action, algo |-> algo, port |-> 7777, key |-> key]

EncryptCbc == {Cfg(ENCRYPT, CBC, "k1")}
DecryptCbc == {Cfg(DECRYPT, CBC, "k1")}

AnyConfig == {Cfg(a, CBC, k) : a \in Actions, k \in {"k1", "k2"}}
               \union {Cfg(ENCRYPT, CHACHA, "k1")}
=============================================================================
