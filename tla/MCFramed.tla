------------------------------ MODULE MCFramed ------------------------------
(***************************************************************************)
(* Small instances of Framed.                                              *)
(***************************************************************************)
EXTENDS Framed

Cfg(action, algo, key) == [action |-> action, algo |-> algo, port |-> 7777, key |-> key]

Pair(host, peer) == [side \in Sides |-> IF side = "host" THEN host ELSE peer]

CbcPair == {Pair(Cfg(ENCRYPT, CBC, "k1"), Cfg(DECRYPT, CBC, "k1"))}

ChachaPair == {Pair(Cfg(ENCRYPT, CHACHA, "k1"), Cfg(DECRYPT, CHACHA, "k1"))}

AnyPair == {Pair(Cfg(a, g, "k1"), Cfg(b, h, "k2")) :
              a \in Actions, b \in Actions, g \in Algos, h \in Algos}

AllPairs == AnyPair \union CbcPair

Way(host, peer) == Pair(host, peer)

OneTc == {Way(<<"tc">>, <<"tc">>)}

\* With and without a loader on either side, one or both hooks on the peer.
AnyWay == {Way(h, p) : h \in {<<>>, <<"tc">>}, p \in HookPaths}

----------------------------------------------------------------------------
(* Frames built by hand, as the integration tests build them: one deviation *)
(* from a good frame each.                                                  *)

Good == ChatFrame([data |-> "hi", len |-> 15], 1, 7777)

Sized(body, claim) ==
  [Good EXCEPT !.udp_len = UdpBytes + HdrBytes + body, !.lin = 66 + body,
               !.hdr.payload_len = Htons(claim)]

Wrong ==
  {[Good EXCEPT !.hdr.magic = "other"], [Good EXCEPT !.hdr.magic = "FABE"],
   [Good EXCEPT !.hdr.version = 2], Sized(16, 8), Sized(15, 15), Sized(0, 0),
   [Good EXCEPT !.hdr.action = DECRYPT], [Good EXCEPT !.udp_len = 20],
   [Good EXCEPT !.udp_len = 7], [Good EXCEPT !.udp_len = 1400]}

Foreign ==
  {[Good EXCEPT !.shape.dport = 53], [Good EXCEPT !.shape.proto = "other"],
   [Good EXCEPT !.shape.l4 = "other"], [Good EXCEPT !.shape.ihl = 6, !.lin = @ + 4],
   [Good EXCEPT !.shape.frag = TRUE, !.lin = 66], [Good EXCEPT !.shape.frag = TRUE],
   [Good EXCEPT !.shape.ihl = 4],
   [Good EXCEPT !.lin = 10], [Good EXCEPT !.lin = 20], [Good EXCEPT !.lin = 38]}

NoOthers == {}

AllOthers == Wrong \union Foreign

ActionTwo == {[Good EXCEPT !.hdr.action = DECRYPT]}
=============================================================================
