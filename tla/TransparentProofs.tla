------------------------- MODULE TransparentProofs -------------------------
(***************************************************************************)
(* Theorems about Transparent, for every value of its constants: the       *)
(* counters always add up, the state keeps its type, and between matched   *)
(* peers what is delivered is what was sent; then the hooks implement the  *)
(* datagram channel, the UDP checksum is never stale but for the one store *)
(* that can fail behind it, the events show what the packets were, and a   *)
(* message makes the round trip when no helper fails.                      *)
(***************************************************************************)
EXTENDS Transparent, TLAPS

----------------------------------------------------------------------------
(* The exits and the counters of one run. *)

LEMMA PrefixExitType ==
  ASSUME NEW c, NEW p, NEW fault
  PROVE  PrefixExit(c, p, fault) \in PrefixExits \union {"go"}
BY DEF PrefixExit, PrefixExits

LEMMA EncryptExitType ==
  ASSUME NEW p, NEW fault \in Faults
  PROVE  EncryptExit(p, fault) \in EncryptExits
BY DEF EncryptExit, EncryptExits, Faults

LEMMA DecryptExitType ==
  ASSUME NEW c, NEW p, NEW fault \in Faults, NEW byte
  PROVE  DecryptExit(c, p, fault, byte) \in DecryptExits
BY DEF DecryptExit, DecryptExits, ResizeFaults

\* Every set of counters a run can bump.
BumpSets ==
  {{"passed"}, {"crypto_fail"}, {"crypto_ok"}, {"crypto_ok", "crypto_fail"},
   Bad("crypto_fail"), {"crypto_ok"} \union Bad("bad_length")}
    \union {Bad(reason) : reason \in Reasons}

LEMMA PrefixBumpsType ==
  ASSUME NEW exit \in PrefixExits
  PROVE  PrefixBumps(exit) \in BumpSets
BY DEF PrefixExits, PrefixBumps, BumpSets, Reasons

LEMMA KfuncBumpsType ==
  ASSUME NEW exit \in KfuncFaults
  PROVE  KfuncBumps(exit) \in BumpSets
BY DEF KfuncFaults, KfuncBumps, BumpSets, Reasons

LEMMA EncryptBumpsType ==
  ASSUME NEW exit \in EncryptExits
  PROVE  EncryptBumps(exit) \in BumpSets
<1>1. CASE exit \in KfuncFaults
  BY <1>1, KfuncBumpsType DEF EncryptBumps, KfuncFaults, ResizeFaults
<1>2. CASE exit \notin KfuncFaults
  BY <1>2 DEF EncryptBumps, EncryptExits, ResizeFaults, BumpSets, Reasons
<1> QED BY <1>1, <1>2

LEMMA DecryptBumpsType ==
  ASSUME NEW exit \in DecryptExits
  PROVE  DecryptBumps(exit) \in BumpSets
<1>1. CASE exit \in KfuncFaults
  BY <1>1, KfuncBumpsType DEF DecryptBumps, KfuncFaults, ResizeFaults
<1>2. CASE exit \notin KfuncFaults
  BY <1>2 DEF DecryptBumps, DecryptExits, ResizeFaults, BumpSets, Reasons
<1> QED BY <1>1, <1>2

LEMMA RunBumpsType ==
  ASSUME NEW c, NEW p, NEW fault \in Faults, NEW iv, NEW byte
  PROVE  TcTransparent(c, p, fault, iv, byte).bumps \in BumpSets
<1>1. CASE PrefixExit(c, p, fault) # "go"
  BY <1>1, PrefixExitType, PrefixBumpsType DEF TcTransparent
<1>2. CASE PrefixExit(c, p, fault) = "go" /\ c.action = ENCRYPT
  BY <1>2, EncryptExitType, EncryptBumpsType DEF TcTransparent
<1>3. CASE PrefixExit(c, p, fault) = "go" /\ c.action # ENCRYPT
  BY <1>3, DecryptExitType, DecryptBumpsType DEF TcTransparent
<1> QED BY <1>1, <1>2, <1>3

----------------------------------------------------------------------------
(* The counters add up. *)

LEMMA CountAccounted ==
  ASSUME NEW s \in [Counters -> Nat], Accounted(s), NEW b \in BumpSets
  PROVE  /\ Count(s, b) \in [Counters -> Nat]
         /\ Accounted(Count(s, b))
<1> DEFINE t == Count(s, b)
           inc(k) == IF k = "seen" \/ k \in b THEN 1 ELSE 0
<1>1. t \in [Counters -> Nat]
  BY DEF Count
<1>2. \A k \in Counters : s[k] \in Nat /\ t[k] \in Nat /\ t[k] = s[k] + inc(k)
  BY <1>1 DEF Count
<1> HIDE DEF t
<1>3. SUFFICES Accounted(t)
  BY <1>1 DEF t
<1> USE <1>2 DEF Accounted, ReasonTotal, Counters, Reasons
<1>4. CASE b = {"passed"}
  BY <1>4
<1>5. CASE b = {"crypto_fail"}
  BY <1>5
<1>6. CASE b = {"crypto_ok"}
  BY <1>6
<1>7. CASE b = {"crypto_ok", "crypto_fail"}
  BY <1>7
<1>8. CASE b = Bad("crypto_fail")
  BY <1>8 DEF Bad
<1>9. CASE b = {"crypto_ok"} \union Bad("bad_length")
  BY <1>9 DEF Bad
<1>10. CASE \E reason \in Reasons : b = Bad(reason)
  BY <1>10 DEF Bad
<1> QED
  BY <1>4, <1>5, <1>6, <1>7, <1>8, <1>9, <1>10 DEF BumpSets

StatsInv == stats \in [Sides -> [Counters -> Nat]] /\ StatsAccounted

LEMMA RecordAccounted ==
  ASSUME StatsInv, NEW side \in Sides, NEW c, NEW p, NEW fault \in Faults, NEW iv,
         NEW byte, NEW room,
         Record(side, p, TcTransparent(c, p, fault, iv, byte), room)
  PROVE  StatsInv'
<1> DEFINE bumps == TcTransparent(c, p, fault, iv, byte).bumps
<1>1. bumps \in BumpSets
  BY RunBumpsType
<1>2. stats' = [stats EXCEPT ![side] = Count(stats[side], bumps)]
  BY DEF Record
<1> HIDE DEF bumps
<1>3. /\ Count(stats[side], bumps) \in [Counters -> Nat]
      /\ Accounted(Count(stats[side], bumps))
  BY <1>1, CountAccounted DEF StatsInv, StatsAccounted
<1>4. stats' \in [Sides -> [Counters -> Nat]]
  BY <1>2, <1>3 DEF StatsInv
<1>5. \A o \in Sides : stats'[o] = IF o = side THEN Count(stats[side], bumps) ELSE stats[o]
  BY <1>2 DEF StatsInv
<1>6. StatsAccounted'
  BY <1>3, <1>5 DEF StatsInv, StatsAccounted
<1> QED BY <1>4, <1>6 DEF StatsInv

\* The counters of both hooks account for every packet, whatever the two
\* configurations, the traffic and the failing helpers are.
THEOREM StatsTheorem == Spec => []StatsAccounted
<1>1. Init => StatsInv
  BY DEF Init, StatsInv, StatsAccounted, Accounted, ReasonTotal, ZeroStats, Counters,
         Reasons
<1>2. StatsInv /\ [Next]_vars => StatsInv'
  <2> SUFFICES ASSUME StatsInv, [Next]_vars
               PROVE  StatsInv'
    OBVIOUS
  <2>1. CASE TransmitSome
    <3>1. PICK m \in Messages, s \in Shapes, fault \in HostFaults, iv \in IVs,
               byte \in PadBytes, room \in BOOLEAN :
                 Transmit(m, s, fault, iv, byte, room)
      BY <2>1 DEF TransmitSome
    <3>2. Record("host", Frame(m, s),
                 TcTransparent(cfg["host"], Frame(m, s), fault, iv, byte), room)
      BY <3>1 DEF Transmit
    <3> QED BY <3>2, RecordAccounted, ConstantsAssumption DEF Sides
  <2>2. CASE ReceiveSome
    <3>1. PICK w \in wire, linear \in PeerLinear, fault \in PeerFaults, iv \in IVs,
               byte \in PadBytes, room \in BOOLEAN, again \in BOOLEAN :
                 Receive(w, linear, fault, iv, byte, room, again)
      BY <2>2 DEF ReceiveSome
    <3> DEFINE p == Arriving(w, linear)
    <3>2. Record("peer", p, TcTransparent(cfg["peer"], p, fault, iv, byte), room)
      BY <3>1 DEF Receive
    <3> QED BY <3>2, RecordAccounted, ConstantsAssumption DEF Sides
  <2>3. CASE LoseSome \/ UNCHANGED vars
    BY <2>3 DEF LoseSome, Lose, vars, StatsInv, StatsAccounted
  <2> QED BY <2>1, <2>2, <2>3 DEF Next
<1>3. StatsInv => StatsAccounted
  BY DEF StatsInv
<1> QED BY <1>1, <1>2, <1>3, PTL DEF Spec

----------------------------------------------------------------------------
(* Types. *)

LEMMA PadLenRange ==
  ASSUME NEW n \in Nat
  PROVE  PadLen(n) \in 1..BlockBytes /\ Aligned(n + PadLen(n))
BY DEF PadLen, Aligned, BlockBytes

LEMMA U16Range ==
  ASSUME NEW n \in Nat
  PROVE  U16(n) \in Nat /\ (n < 65536 => U16(n) = n)
BY DEF U16

LEMMA FrameType ==
  ASSUME NEW m \in Messages, NEW s \in Shapes
  PROVE  Frame(m, s) \in PacketType /\ Frame(m, s).skb.lin <= Frame(m, s).skb.len
<1>1. s \in ShapeType /\ m.len \in Nat /\ s.ihl \in Nat
  <2>1. Shapes \subseteq ShapeType /\ Lens \subseteq Nat
    BY ConstantsAssumption
  <2>2. s \in ShapeType
    BY <2>1
  <2>3. s.ihl \in 5..15
    BY <2>2 DEF ShapeType
  <2>4. m.len \in Lens
    BY DEF Messages
  <2>5. s.ihl \in Nat
    BY <2>3
  <2>6. m.len \in Nat
    BY <2>1, <2>4
  <2> QED BY <2>2, <2>5, <2>6
<1>2. Plain(m) \in BodyType
  BY DEF Plain, BodyType, BlockBytes, Algos
<1>3. NoTail \in TailType
  BY DEF NoTail, TailType
<1>4. Frame(m, s).skb \in SkbType /\ Frame(m, s).hdr \in HdrType
  BY <1>1 DEF Frame, SkbType, HdrType, EthBytes, UdpBytes
<1>5. Frame(m, s).skb.lin <= Frame(m, s).skb.len
  BY <1>1 DEF Frame, EthBytes, UdpBytes
<1> QED
  BY <1>1, <1>2, <1>3, <1>4, <1>5 DEF Frame, PacketType

LEMMA KfuncType ==
  ASSUME NEW b \in BodyType, NEW key \in Keys, NEW iv \in IVs \union {NoIv},
         NEW action \in Actions
  PROVE  Kfunc(action, CBC, key, iv, b) \in BodyType
<1> USE DEF BodyType, Algos, CBC, CHACHA
<1>1. /\ Seal(CBC, key, iv, b) \in BodyType
      /\ Open(b) \in BodyType /\ Junk(b) \in BodyType
  BY DEF Seal, Open, Junk
<1>2. KfuncEncrypt(CBC, key, iv, b) \in BodyType
  BY <1>1 DEF KfuncEncrypt
<1>3. KfuncDecrypt(CBC, key, iv, b) \in BodyType
  BY <1>1 DEF KfuncDecrypt
<1> QED BY <1>2, <1>3 DEF Kfunc

LEMMA PacketFields ==
  ASSUME NEW p \in PacketType
  PROVE  /\ p.shape \in ShapeType /\ p.skb \in SkbType /\ p.hdr \in HdrType
         /\ p.body \in BodyType /\ p.tail \in TailType
         /\ p.hexit \in Exits \union {"none"} /\ p.pexit \in Exits \union {"none"}
         /\ p.skb.lin \in Nat /\ p.skb.len \in Nat
         /\ p.hdr.ip_len \in Nat /\ p.hdr.udp_len \in Nat
         /\ PayloadLen(p) \in Nat /\ p.hdr.udp_len = PayloadLen(p) + UdpBytes
         /\ PayloadOff(p) \in Nat
<1>1. p.shape \in ShapeType /\ p.skb \in SkbType /\ p.hdr \in HdrType
  BY DEF PacketType
<1>2. /\ p.body \in BodyType /\ p.tail \in TailType
      /\ p.hexit \in Exits \union {"none"} /\ p.pexit \in Exits \union {"none"}
  BY DEF PacketType
<1>3. p.skb.lin \in Nat /\ p.skb.len \in Nat
  BY <1>1 DEF SkbType
<1>4. p.hdr.ip_len \in Nat /\ p.hdr.udp_len \in Nat /\ p.hdr.udp_len >= UdpBytes
  BY <1>1 DEF HdrType
<1>5. p.shape.ihl \in Nat
  BY <1>1 DEF ShapeType
<1> QED
  BY <1>1, <1>2, <1>3, <1>4, <1>5
  DEF PayloadLen, PayloadOff, L4Off, EthBytes, UdpBytes

LEMMA RewrittenType ==
  ASSUME NEW p \in PacketType, NEW skb \in SkbType, NEW hdr \in HdrType,
         NEW body \in BodyType, NEW tail \in TailType
  PROVE  Rewritten(p, skb, hdr, body, tail) \in PacketType
BY PacketFields DEF Rewritten, PacketType

LEMMA DecryptedType ==
  ASSUME NEW c \in ConfigType, NEW p \in PacketType
  PROVE  Decrypted(c, p) \in BodyType
<1>1. c.key \in Keys /\ p.body \in BodyType
  BY PacketFields DEF ConfigType
<1>2. p.tail.iv \in IVs \union {NoIv}
  <2>1. p.tail \in TailType
    BY PacketFields
  <2> QED BY <2>1 DEF TailType
<1>3. DECRYPT \in Actions
  BY DEF Actions
<1> QED BY <1>1, <1>2, <1>3, KfuncType DEF Decrypted

LEMMA PadByteType ==
  ASSUME NEW b \in BodyType, NEW byte \in PadBytes
  PROVE  PadByte(b, byte) \in Nat
BY ConstantsAssumption DEF PadByte, BodyType, BlockBytes

\* What the prefix has established when it falls through.
LEMMA PrefixGo ==
  ASSUME NEW c, NEW p \in PacketType, NEW fault, PrefixExit(c, p, fault) = "go"
  PROVE  /\ p.shape.proto = "ip" /\ p.shape.ihl = 5 /\ ~p.shape.frag
         /\ p.shape.l4 = "udp" /\ p.shape.dport = c.port
         /\ c.algo = CBC /\ c.action \in Actions
         /\ PayloadOff(p) + PayloadLen(p) <= p.skb.lin
<1>1. p.shape.ihl = 5
  BY DEF PrefixExit
<1>2. PayloadOff(p) + PayloadLen(p) <= p.skb.lin
  BY PacketFields DEF PrefixExit
<1> QED
  BY <1>1, <1>2 DEF PrefixExit

LEMMA UpdateLengthsType ==
  ASSUME NEW h \in HdrType, NEW ip \in Nat, NEW udp \in Nat, NEW exit,
         udp >= UdpBytes
  PROVE  UpdateLengths(h, ip, udp, exit) \in HdrType
BY DEF UpdateLengths, HdrType, Outdated

LEMMA EncryptPktType ==
  ASSUME NEW c \in ConfigType, NEW p \in PacketType, NEW fault \in Faults,
         NEW iv \in IVs
  PROVE  EncryptPkt(c, p, EncryptExit(p, fault), iv) \in PacketType
<1> DEFINE exit == EncryptExit(p, fault)
           n == PayloadLen(p)
           delta == PadLen(n) + HdrBytes
           ip == U16(p.hdr.ip_len + delta)
           udp == U16(p.hdr.udp_len + delta)
           sealed == Kfunc(ENCRYPT, CBC, c.key, iv, PaddedBody(p))
<1>1. n \in Nat /\ PadLen(n) \in 1..16 /\ delta \in 25..40
  BY PadLenRange, PacketFields DEF HdrBytes, BlockBytes
<1>2. exit \in EncryptExits
  BY EncryptExitType
<1>3. Resized(p.skb.len + delta) \in SkbType
  BY <1>1, PacketFields DEF Resized, SkbType
<1>4. PaddedBody(p) \in BodyType
  BY <1>1, PacketFields DEF PaddedBody, BodyType, BlockBytes
<1>5. sealed \in BodyType
  <2>1. c.key \in Keys /\ ENCRYPT \in Actions
    BY DEF ConfigType, Actions
  <2> QED BY <1>4, <2>1, KfuncType
<1>6. \A v \in IVs \union {NoIv} : Trailer(n + PadLen(n), v) \in TailType
  <2>1. n + PadLen(n) \in Nat
    BY <1>1
  <2>2. U16(n + PadLen(n)) \in Nat
    BY <2>1, U16Range
  <2> QED BY <2>1, <2>2 DEF Trailer, TailType
<1>7. ip \in Nat
  <2>1. p.hdr.ip_len + delta \in Nat
    BY <1>1, PacketFields
  <2> QED BY <2>1, U16Range
<1>8. ASSUME exit \notin {"enc_length", "change_tail"}
      PROVE  UpdateLengths(p.hdr, ip, udp, exit) \in HdrType
  <2>1. n <= 1408
    BY <1>1, <1>8 DEF EncryptExit, TooLong, MaxTransparentPayload
  <2>2. p.hdr.udp_len = n + UdpBytes
    BY PacketFields
  <2>3. p.hdr.udp_len + delta \in Nat /\ p.hdr.udp_len + delta < 65536
        /\ p.hdr.udp_len + delta >= UdpBytes
    <3> HIDE DEF delta, n
    <3> QED BY <1>1, <2>1, <2>2 DEF UdpBytes
  <2>4. udp = p.hdr.udp_len + delta
    BY <2>3, U16Range
  <2>5. p.hdr \in HdrType
    BY PacketFields
  <2> HIDE DEF udp, ip, exit
  <2> QED BY <1>7, <2>3, <2>4, <2>5, UpdateLengthsType
<1> HIDE DEF exit, ip, udp, sealed
<1> DEFINE skb == Resized(p.skb.len + delta)
           hdr == UpdateLengths(p.hdr, ip, udp, exit)
           tail(v) == Trailer(n + PadLen(n), v)
<1>9. p.hdr \in HdrType /\ p.body \in BodyType /\ p.tail \in TailType
  BY PacketFields
<1>10. SUFFICES EncryptPkt(c, p, exit, iv) \in PacketType
  BY DEF exit
<1>11. CASE exit \in {"enc_length", "change_tail"}
  BY <1>11 DEF EncryptPkt, ResizeFaults, KfuncFaults
<1>12. CASE exit = "pad_store"
  <2>1. EncryptPkt(c, p, exit, iv) = Rewritten(p, skb, p.hdr, p.body, p.tail)
    BY <1>12 DEF EncryptPkt, ResizeFaults, KfuncFaults
  <2> QED BY <1>3, <1>9, <2>1, RewrittenType
<1>13. CASE exit = "hdr_store"
  <2>1. EncryptPkt(c, p, exit, iv) = Rewritten(p, skb, p.hdr, PaddedBody(p), p.tail)
    BY <1>13 DEF EncryptPkt, ResizeFaults, KfuncFaults
  <2> QED BY <1>3, <1>4, <1>9, <2>1, RewrittenType
<1>14. CASE exit \in ResizeFaults \union KfuncFaults \union {"bad_body"}
  <2>1. EncryptPkt(c, p, exit, iv) = Rewritten(p, skb, hdr, PaddedBody(p), tail(iv))
    BY <1>14 DEF EncryptPkt, ip, udp, ResizeFaults, KfuncFaults
  <2>2. hdr \in HdrType
    BY <1>8, <1>14 DEF ResizeFaults, KfuncFaults
  <2> QED BY <1>3, <1>4, <1>6, <2>1, <2>2, RewrittenType
<1>15. CASE exit = "iv_store"
  <2>1. EncryptPkt(c, p, exit, iv) = Rewritten(p, skb, hdr, sealed, tail(ClobberedIv))
    BY <1>15 DEF EncryptPkt, ip, udp, sealed, ResizeFaults, KfuncFaults
  <2>2. hdr \in HdrType
    BY <1>8, <1>15
  <2> QED BY <1>3, <1>5, <1>6, <2>1, <2>2, RewrittenType DEF ClobberedIv
<1>16. CASE exit = "ok"
  <2>1. EncryptPkt(c, p, exit, iv) = Rewritten(p, skb, hdr, sealed, tail(iv))
    BY <1>16 DEF EncryptPkt, ip, udp, sealed, ResizeFaults, KfuncFaults, RestoredIv
  <2>2. hdr \in HdrType
    BY <1>8, <1>16
  <2> QED BY <1>3, <1>5, <1>6, <2>1, <2>2, RewrittenType
<1> QED
  BY <1>2, <1>11, <1>12, <1>13, <1>14, <1>15, <1>16 DEF EncryptExits

\* An exit behind the padding check: the padding fits the body, so neither
\* the frame nor its lengths can be trimmed below zero.
LEMMA DecryptTrim ==
  ASSUME NEW c \in ConfigType, NEW p \in PacketType, NEW fault \in Faults,
         NEW byte \in PadBytes,
         DecryptExit(c, p, fault, byte) \in ResizeFaults \union {"ok"}
  PROVE  LET pad == PadByte(Decrypted(c, p), byte)
         IN  /\ pad \in 1..BlockBytes
             /\ pad + HdrBytes <= PayloadLen(p)
             /\ pad + HdrBytes <= p.hdr.ip_len
                  \/ DecryptExit(c, p, fault, byte) = "len_load"
<1> DEFINE pad == PadByte(Decrypted(c, p), byte)
           n == PayloadLen(p)
<1>1. pad \in Nat
  BY DecryptedType, PadByteType
<1>2. n \in Nat /\ p.hdr.ip_len \in Nat /\ p.hdr.udp_len \in Nat
  BY PacketFields
<1> HIDE DEF pad, n
<1>3. ~PadRefused(pad, n - HdrBytes)
  BY DEF DecryptExit, ResizeFaults, KfuncFaults, pad, n
<1>4. p.hdr.ip_len < pad + HdrBytes => DecryptExit(c, p, fault, byte) = "len_load"
  BY DEF DecryptExit, ResizeFaults, KfuncFaults, pad, n
<1>5. pad \in 1..BlockBytes /\ pad + HdrBytes <= n
  BY <1>1, <1>2, <1>3 DEF PadRefused, BlockBytes, HdrBytes
<1>6. pad + HdrBytes <= p.hdr.ip_len \/ p.hdr.ip_len < pad + HdrBytes
  BY <1>1, <1>2 DEF HdrBytes
<1> QED BY <1>4, <1>5, <1>6 DEF pad, n

LEMMA DecryptPktType ==
  ASSUME NEW c \in ConfigType, NEW p \in PacketType, NEW fault \in Faults,
         NEW byte \in PadBytes, PayloadLen(p) <= p.skb.len
  PROVE  DecryptPkt(c, p, DecryptExit(c, p, fault, byte), byte) \in PacketType
<1> DEFINE exit == DecryptExit(c, p, fault, byte)
           opened == Decrypted(c, p)
           read == [p.hdr EXCEPT !.ucheck = Outdated(p.hdr.ucheck)]
           delta == PadByte(opened, byte) + HdrBytes
           ip == p.hdr.ip_len - delta
           udp == p.hdr.udp_len - delta
<1>1. exit \in DecryptExits
  BY DecryptExitType
<1>2. opened \in BodyType
  BY DecryptedType
<1>3. p.skb \in SkbType /\ p.hdr \in HdrType /\ p.tail \in TailType
  BY PacketFields
<1>4. read \in HdrType
  BY <1>3 DEF HdrType, Outdated
<1>5. [p.tail EXCEPT !.iv = ClobberedIv] \in TailType
  BY <1>3 DEF TailType, ClobberedIv
<1>6. [opened EXCEPT !.pad = 0] \in BodyType
  <2> HIDE DEF opened
  <2> QED BY <1>2 DEF BodyType, BlockBytes
<1>7. NoTail \in TailType
  BY DEF NoTail, TailType
<1>8. SUFFICES DecryptPkt(c, p, exit, byte) \in PacketType
  OBVIOUS
<1>9. CASE exit \in {"dec_short", "hdr_load", "bad_magic", "bad_body"} \union KfuncFaults
  <2> HIDE DEF exit
  <2> QED BY <1>9 DEF DecryptPkt, ResizeFaults, KfuncFaults
<1>10. CASE exit \in {"pad_load", "bad_pad", "change_tail"}
  <2>1. DecryptPkt(c, p, exit, byte)
          = Rewritten(p, p.skb, read, opened, [p.tail EXCEPT !.iv = ClobberedIv])
    <3> HIDE DEF exit
    <3> QED BY <1>10 DEF DecryptPkt, ResizeFaults, KfuncFaults
  <2> HIDE DEF exit, opened, read
  <2> QED BY <1>2, <1>3, <1>4, <1>5, <2>1, RewrittenType
<1>11. CASE exit \in ResizeFaults \union {"ok"}
  <2> DEFINE hdr == UpdateLengths(read, ip, udp, exit)
             skb == Resized(p.skb.len - delta)
  <2>1. DecryptPkt(c, p, exit, byte) = Rewritten(p, skb, hdr, [opened EXCEPT !.pad = 0], NoTail)
    <3> HIDE DEF exit
    <3> QED BY <1>11 DEF DecryptPkt, ResizeFaults, KfuncFaults
  <2>2. /\ delta \in 25..40 /\ delta <= PayloadLen(p)
        /\ delta <= p.hdr.ip_len \/ exit = "len_load"
    BY <1>11, DecryptTrim DEF BlockBytes, HdrBytes
  <2> HIDE DEF exit, opened, read, delta
  <2>3. p.skb.len \in Nat /\ p.hdr.ip_len \in Nat /\ p.hdr.udp_len \in Nat
        /\ PayloadLen(p) \in Nat /\ p.hdr.udp_len = PayloadLen(p) + UdpBytes
    BY PacketFields
  <2>4. skb \in SkbType
    BY <2>2, <2>3 DEF Resized, SkbType
  <2>5. hdr \in HdrType
    <3>1. CASE exit = "len_load"
      BY <1>4, <3>1 DEF UpdateLengths
    <3>2. CASE exit # "len_load"
      <4>1. ip \in Nat /\ udp \in Nat /\ udp >= UdpBytes
        BY <2>2, <2>3, <3>2 DEF UdpBytes
      <4> HIDE DEF ip, udp
      <4> QED BY <1>4, <4>1, UpdateLengthsType
    <3> QED BY <3>1, <3>2
  <2> HIDE DEF hdr, skb
  <2> QED BY <1>6, <1>7, <2>1, <2>4, <2>5, RewrittenType
<1> HIDE DEF exit
<1> QED BY <1>1, <1>9, <1>10, <1>11 DEF DecryptExits

\* A run leaves a packet of the packet type, at a listed exit.
LEMMA RunType ==
  ASSUME NEW c \in ConfigType, NEW p \in PacketType, NEW fault \in Faults,
         NEW iv \in IVs, NEW byte \in PadBytes,
         p.skb.lin <= p.skb.len \/ p.skb.lin = PayloadOff(p)
  PROVE  /\ TcTransparent(c, p, fault, iv, byte).exit \in Exits
         /\ TcTransparent(c, p, fault, iv, byte).pkt \in PacketType
<1>1. CASE PrefixExit(c, p, fault) # "go"
  BY <1>1, PrefixExitType DEF TcTransparent, Exits
<1>2. CASE PrefixExit(c, p, fault) = "go" /\ c.action = ENCRYPT
  BY <1>2, EncryptExitType, EncryptPktType DEF TcTransparent, Exits
<1>3. CASE PrefixExit(c, p, fault) = "go" /\ c.action # ENCRYPT
  <2>1. PayloadOff(p) + PayloadLen(p) <= p.skb.lin
    BY <1>3, PrefixGo
  <2>2. PayloadLen(p) \in Nat /\ PayloadOff(p) \in Nat /\ p.skb.lin \in Nat
        /\ p.skb.len \in Nat
    BY PacketFields
  <2>3. PayloadLen(p) <= p.skb.len
    BY <2>1, <2>2
  <2>4. DecryptExit(c, p, fault, byte) \in Exits
    BY DecryptExitType DEF Exits
  <2>5. DecryptPkt(c, p, DecryptExit(c, p, fault, byte), byte) \in PacketType
    BY <2>3, DecryptPktType
  <2> QED BY <1>3, <2>4, <2>5 DEF TcTransparent
<1> QED BY <1>1, <1>2, <1>3

----------------------------------------------------------------------------
(* The type invariant. *)

LEMMA ArrivingType ==
  ASSUME NEW w \in PacketType, NEW linear \in BOOLEAN
  PROVE  /\ Arriving(w, linear) \in PacketType
         /\ \/ Arriving(w, linear).skb.lin <= Arriving(w, linear).skb.len
            \/ Arriving(w, linear).skb.lin = PayloadOff(Arriving(w, linear))
<1> DEFINE skb == [lin |-> IF linear THEN w.skb.len ELSE PayloadOff(w), len |-> w.skb.len]
           p == Arriving(w, linear)
<1>1. w.skb.len \in Nat /\ PayloadOff(w) \in Nat
  BY PacketFields
<1>2. skb \in SkbType
  BY <1>1 DEF SkbType
<1>3. p \in PacketType
  <2> HIDE DEF skb
  <2> QED BY <1>2 DEF Arriving, PacketType, skb
<1>4. p.skb = skb /\ p.shape = w.shape
  <2> HIDE DEF skb
  <2> QED BY <1>2 DEF Arriving, PacketType, skb
<1>5. PayloadOff(p) = PayloadOff(w)
  BY <1>4 DEF PayloadOff, L4Off
<1>6. p.skb.lin <= p.skb.len \/ p.skb.lin = PayloadOff(p)
  <2>1. p.skb.len = w.skb.len
    BY <1>4
  <2>2. p.skb.lin = IF linear THEN w.skb.len ELSE PayloadOff(w)
    BY <1>4
  <2> HIDE DEF p
  <2> QED BY <1>1, <1>5, <2>1, <2>2
<1> QED BY <1>3, <1>6

LEMMA EmittedType ==
  ASSUME NEW c \in ConfigType, NEW p \in PacketType, NEW r, r.pkt \in PacketType, NEW room
  PROVE  Emitted(c, p, r, room) \subseteq EventType
<1>1. c.action \in Actions /\ PayloadLen(p) \in Nat
  BY PacketFields DEF ConfigType
<1>2. r.pkt.body \in BodyType
  BY PacketFields
<1>3. p.hexit \in Exits \union {"none"} /\ r.pkt.body.form \in {"plain", "sealed", "junk"}
  BY <1>2, PacketFields DEF BodyType
<1>4. Event(c, p, r) \in EventType
  BY <1>1, <1>3 DEF Event, EventType
<1> QED BY <1>4 DEF Emitted

\* What recording a run does to the parts of TypeOK it touches.
LEMMA RecordType ==
  ASSUME TypeOK, NEW side \in Sides, NEW p \in PacketType, NEW fault \in Faults,
         NEW iv \in IVs, NEW byte \in PadBytes, NEW room,
         p.skb.lin <= p.skb.len \/ p.skb.lin = PayloadOff(p),
         Record(side, p, TcTransparent(cfg[side], p, fault, iv, byte), room)
  PROVE  /\ stats' \in [Sides -> [Counters -> Nat]]
         /\ events' \in [Sides -> SUBSET EventType]
<1> DEFINE r == TcTransparent(cfg[side], p, fault, iv, byte)
<1>1. cfg[side] \in ConfigType
  BY DEF TypeOK
<1>2. r.pkt \in PacketType
  BY <1>1, RunType
<1> HIDE DEF r
<1>3. Emitted(cfg[side], p, r, room) \subseteq EventType
  BY <1>1, <1>2, EmittedType
<1>4. stats[side] \in [Counters -> Nat]
  BY DEF TypeOK
<1>5. Count(stats[side], r.bumps) \in [Counters -> Nat]
  BY <1>4 DEF Count
<1>6. stats' \in [Sides -> [Counters -> Nat]]
  BY <1>5 DEF Record, TypeOK, r
<1>7. events' \in [Sides -> SUBSET EventType]
  BY <1>3 DEF Record, TypeOK, r
<1> QED BY <1>6, <1>7

LEMMA TransmitType ==
  ASSUME TypeOK, NEW m \in Messages, NEW s \in Shapes, NEW fault \in HostFaults,
         NEW iv \in IVs, NEW byte \in PadBytes, NEW room,
         Transmit(m, s, fault, iv, byte, room)
  PROVE  TypeOK'
<1> DEFINE p == Frame(m, s)
           r == TcTransparent(cfg["host"], p, fault, iv, byte)
<1>1. fault \in Faults /\ "host" \in Sides
  BY ConstantsAssumption DEF Sides
<1>2. p \in PacketType /\ p.skb.lin <= p.skb.len
  BY FrameType
<1>3. cfg["host"] \in ConfigType
  BY <1>1 DEF TypeOK
<1>4. r.exit \in Exits /\ r.pkt \in PacketType
  BY <1>1, <1>2, <1>3, RunType
<1>5. Record("host", p, r, room)
  BY DEF Transmit
<1>6. /\ stats' \in [Sides -> [Counters -> Nat]]
      /\ events' \in [Sides -> SUBSET EventType]
  BY <1>1, <1>2, <1>5, RecordType
<1>7. wire' \subseteq PacketType
  <2>1. wire' = wire \union {[r.pkt EXCEPT !.hexit = r.exit]}
    BY DEF Transmit
  <2> HIDE DEF r
  <2>2. [r.pkt EXCEPT !.hexit = r.exit] \in PacketType
    BY <1>4 DEF PacketType
  <2> QED BY <2>1, <2>2 DEF TypeOK
<1>8. nsent' \in 0..MaxSent
  BY ConstantsAssumption DEF Transmit, TypeOK
<1>9. cfg' = cfg /\ inbox' = inbox /\ sent' = sent \union {m}
  BY DEF Transmit
<1> QED BY <1>6, <1>7, <1>8, <1>9 DEF TypeOK

LEMMA ReceiveType ==
  ASSUME TypeOK, NEW w \in wire, NEW linear \in PeerLinear, NEW fault \in PeerFaults,
         NEW iv \in IVs, NEW byte \in PadBytes, NEW room, NEW again,
         Receive(w, linear, fault, iv, byte, room, again)
  PROVE  TypeOK'
<1> DEFINE p == Arriving(w, linear)
           r == TcTransparent(cfg["peer"], p, fault, iv, byte)
           q == [r.pkt EXCEPT !.pexit = r.exit]
<1>1. fault \in Faults /\ "peer" \in Sides /\ linear \in BOOLEAN
  BY ConstantsAssumption DEF Sides
<1>2. w \in PacketType
  BY DEF TypeOK
<1>3. p \in PacketType /\ (p.skb.lin <= p.skb.len \/ p.skb.lin = PayloadOff(p))
  BY <1>1, <1>2, ArrivingType
<1>4. cfg["peer"] \in ConfigType
  BY <1>1 DEF TypeOK
<1>5. r.exit \in Exits /\ r.pkt \in PacketType
  BY <1>1, <1>3, <1>4, RunType
<1>6. Record("peer", p, r, room)
  BY DEF Receive
<1>7. /\ stats' \in [Sides -> [Counters -> Nat]]
      /\ events' \in [Sides -> SUBSET EventType]
  BY <1>1, <1>3, <1>6, RecordType
<1>8. inbox' \subseteq PacketType
  <2>1. inbox' = IF Deliverable(q) THEN inbox \union {q} ELSE inbox
    BY DEF Receive
  <2> HIDE DEF r
  <2>2. q \in PacketType
    BY <1>5 DEF PacketType
  <2> HIDE DEF q
  <2> QED BY <2>1, <2>2 DEF TypeOK
<1>9. wire' \subseteq PacketType
  BY DEF Receive, TypeOK
<1>10. cfg' = cfg /\ sent' = sent /\ nsent' = nsent
  BY DEF Receive
<1> QED BY <1>7, <1>8, <1>9, <1>10 DEF TypeOK

LEMMA InitType == Init => TypeOK
<1> SUFFICES ASSUME Init PROVE TypeOK
  OBVIOUS
<1>1. cfg \in [Sides -> ConfigType]
  BY ConstantsAssumption DEF Init, Sides
<1>2. stats \in [Sides -> [Counters -> Nat]]
  BY DEF Init, ZeroStats
<1>3. nsent \in 0..MaxSent
  BY ConstantsAssumption DEF Init
<1> QED BY <1>1, <1>2, <1>3 DEF Init, TypeOK

LEMMA NextType == TypeOK /\ [Next]_vars => TypeOK'
<1> SUFFICES ASSUME TypeOK, [Next]_vars PROVE TypeOK'
  OBVIOUS
<1>1. CASE TransmitSome
  BY <1>1, TransmitType DEF TransmitSome
<1>2. CASE ReceiveSome
  BY <1>2, ReceiveType DEF ReceiveSome
<1>3. CASE LoseSome \/ UNCHANGED vars
  BY <1>3 DEF LoseSome, Lose, vars, TypeOK
<1> QED BY <1>1, <1>2, <1>3 DEF Next

\* Every reachable state has its type: whatever is configured, sent, lost or
\* failing, no length goes below zero and the program has no unlisted exit.
THEOREM TypeTheorem == Spec => []TypeOK
BY InitType, NextType, PTL DEF Spec

----------------------------------------------------------------------------
(* Delivery between matched peers.  The invariant says what a frame on the  *)
(* wire looks like by the exit it took on the host: still the plain message *)
(* (with any trailer outside the UDP length), or sealed for the peer, or    *)
(* given up after the lengths were repaired.                                *)

Clean(p) ==
  /\ p.body.form = "plain"
  /\ PayloadLen(p) = p.body.msg.len
  /\ p.tail.magic => p.tail.off > PayloadLen(p)

SealedFor(c, p) ==
  LET n == p.body.msg.len
      whole == n + PadLen(n) + HdrBytes
  IN  /\ p.shape.proto = "ip" /\ p.shape.ihl = 5 /\ ~p.shape.frag
      /\ p.shape.l4 = "udp" /\ p.shape.dport = c.port
      /\ SealedWith(p.body, CBC, c.key, p.tail.iv) /\ p.body.pad = PadLen(n)
      /\ 1 <= n /\ n <= MaxTransparentPayload
      /\ p.tail.magic /\ p.tail.off = n + PadLen(n)
      /\ p.tail.payload_len = n + PadLen(n)
      /\ p.hdr.udp_len = UdpBytes + whole
      /\ p.hdr.ip_len = IpBytes + p.hdr.udp_len
      /\ p.skb.len = EthBytes + p.hdr.ip_len

FrameOK(c, p, exit) ==
  Clean(p) \/ exit \in HostMangled \/ (exit = "ok" /\ SealedFor(c, p))

DeliveredOK(p) ==
  Intact(p) \/ p.hexit \in HostMangled \/ (p.hexit = "ok" /\ p.pexit \in PeerSealed)

DeliveryInv ==
  Matched => /\ \A w \in wire : FrameOK(cfg["host"], w, w.hexit)
             /\ \A p \in inbox : DeliveredOK(p)

LEMMA FrameFacts ==
  ASSUME NEW m \in Messages, NEW s \in Shapes
  PROVE  /\ Frame(m, s).shape = s
         /\ Frame(m, s).body = Plain(m) /\ Frame(m, s).tail = NoTail
         /\ m.len \in Nat /\ PayloadLen(Frame(m, s)) = m.len
         /\ Frame(m, s).hdr.ip_len = 4 * s.ihl + UdpBytes + m.len
         /\ Frame(m, s).skb.len = EthBytes + Frame(m, s).hdr.ip_len
<1>1. m.len \in Nat
  <2>1. m.len \in Lens
    BY DEF Messages
  <2> QED BY <2>1, ConstantsAssumption
<1> QED BY <1>1 DEF Frame, PayloadLen, UdpBytes

LEMMA FrameClean ==
  ASSUME NEW m \in Messages, NEW s \in Shapes
  PROVE  Clean(Frame(m, s))
<1> DEFINE p == Frame(m, s)
<1>1. p.body = Plain(m) /\ p.tail = NoTail /\ PayloadLen(p) = m.len
  BY FrameFacts
<1> HIDE DEF p
<1>2. p.body.form = "plain" /\ p.body.msg = m /\ ~p.tail.magic
  BY <1>1 DEF Plain, NoTail
<1>3. Clean(p)
  BY <1>1, <1>2 DEF Clean
<1> QED BY <1>3 DEF p

\* The encrypt path on a fresh frame.
LEMMA EncryptFrame ==
  ASSUME NEW c \in ConfigType, NEW m \in Messages, NEW s \in Shapes,
         NEW fault \in Faults, NEW iv \in IVs,
         PrefixExit(c, Frame(m, s), fault) = "go"
  PROVE  LET exit == EncryptExit(Frame(m, s), fault)
         IN  FrameOK(c, EncryptPkt(c, Frame(m, s), exit, iv), exit)
<1> DEFINE p == Frame(m, s)
           exit == EncryptExit(p, fault)
           n == PayloadLen(p)
           delta == PadLen(n) + HdrBytes
           skb == Resized(p.skb.len + delta)
           ip == U16(p.hdr.ip_len + delta)
           udp == U16(p.hdr.udp_len + delta)
           hdr == UpdateLengths(p.hdr, ip, udp, exit)
           sealed == Kfunc(ENCRYPT, CBC, c.key, iv, PaddedBody(p))
           q == EncryptPkt(c, p, exit, iv)
<1>1. n \in Nat /\ n = m.len /\ PadLen(n) \in 1..16 /\ delta \in 25..40
  BY FrameFacts, PadLenRange DEF BlockBytes, HdrBytes
<1>2. exit \in EncryptExits
  BY EncryptExitType
<1>3. p.body = Plain(m) /\ p.tail = NoTail
  BY FrameFacts
<1>4. /\ PaddedBody(p).form = "plain" /\ PaddedBody(p).msg = m
      /\ PaddedBody(p).pad = PadLen(n)
  BY <1>3 DEF PaddedBody, Plain
<1>5. CASE exit \in {"enc_length", "change_tail"}
  <2>1. q = p
    <3> HIDE DEF exit, p
    <3> QED BY <1>5 DEF EncryptPkt, ResizeFaults, KfuncFaults
  <2> QED BY <2>1, FrameClean DEF FrameOK
<1>6. CASE exit \in {"pad_store", "hdr_store"}
  <2>1. q.hdr = p.hdr /\ q.tail = p.tail /\ q.body \in {p.body, PaddedBody(p)}
    <3> HIDE DEF exit, p
    <3> QED BY <1>6 DEF EncryptPkt, Rewritten, ResizeFaults, KfuncFaults
  <2>2. q.body.form = "plain" /\ q.body.msg = m
    BY <1>3, <1>4, <2>1 DEF Plain
  <2>3. PayloadLen(q) = m.len
    BY <1>1, <2>1 DEF PayloadLen
  <2>4. ~q.tail.magic
    BY <1>3, <2>1 DEF NoTail
  <2> QED BY <2>2, <2>3, <2>4 DEF FrameOK, Clean
<1>7. CASE exit \in {"len_load", "csum", "ip_store", "udp_store"}
  <2>1. q = Rewritten(p, skb, hdr, PaddedBody(p), Trailer(n + PadLen(n), iv))
    <3> HIDE DEF exit, p
    <3> QED BY <1>7 DEF EncryptPkt, ResizeFaults, KfuncFaults
  <2>2. hdr.udp_len = p.hdr.udp_len
    <3>1. p.hdr \in HdrType
      BY FrameType, PacketFields
    <3> HIDE DEF exit, p, ip, udp
    <3> QED BY <1>7, <3>1 DEF UpdateLengths, HdrType
  <2>3. PayloadLen(q) = n
    BY <2>1, <2>2 DEF Rewritten, PayloadLen
  <2>4. q.body = PaddedBody(p) /\ q.tail.off = n + PadLen(n)
    BY <2>1 DEF Rewritten, Trailer
  <2> HIDE DEF q, n, p, exit
  <2>5. q.body.form = "plain" /\ q.body.msg.len = n /\ q.tail.off > n
    BY <1>1, <1>4, <2>4
  <2>6. Clean(q)
    BY <2>3, <2>5 DEF Clean
  <2> QED BY <2>6 DEF FrameOK, q, p, exit
<1>8. CASE exit \in HostMangled
  BY <1>8 DEF FrameOK
<1>9. ASSUME exit = "bad_body" PROVE FALSE
  <2>1. Aligned(n + PadLen(n))
    BY <1>1, PadLenRange
  <2> QED BY <1>9, <2>1 DEF EncryptExit, ResizeFaults, KfuncFaults
<1>10. CASE exit = "ok"
  <2>1. q = Rewritten(p, skb, hdr, sealed, Trailer(n + PadLen(n), iv))
    <3> HIDE DEF exit, p
    <3> QED BY <1>10 DEF EncryptPkt, ResizeFaults, KfuncFaults, RestoredIv
  <2>2. 1 <= n /\ n <= 1408
    <3>1. n # 0 /\ ~TooLong(n)
      BY <1>10 DEF EncryptExit
    <3> HIDE DEF n
    <3> QED BY <1>1, <3>1 DEF TooLong, MaxTransparentPayload
  <2>3. /\ s.proto = "ip" /\ s.ihl = 5 /\ ~s.frag /\ s.l4 = "udp" /\ s.dport = c.port
    <3>1. p \in PacketType /\ p.shape = s
      BY FrameType, FrameFacts
    <3> HIDE DEF p
    <3>2. PrefixExit(c, p, fault) = "go"
      BY DEF p
    <3> QED BY <3>1, <3>2, PrefixGo
  <2>4. p.hdr.udp_len = n + 8 /\ p.hdr.ip_len = n + 28 /\ p.skb.len = n + 42
    BY <1>1, <2>3, FrameFacts, FrameType, PacketFields DEF EthBytes, UdpBytes
  <2>5. udp = n + 8 + delta /\ ip = n + 28 + delta /\ U16(n + PadLen(n)) = n + PadLen(n)
    <3>1. /\ n + 8 + delta \in Nat /\ n + 8 + delta < 65536
          /\ n + 28 + delta \in Nat /\ n + 28 + delta < 65536
          /\ n + PadLen(n) \in Nat /\ n + PadLen(n) < 65536
      <4> HIDE DEF n, delta
      <4> QED BY <1>1, <2>2
    <3>2. p.hdr.udp_len + delta = n + 8 + delta /\ p.hdr.ip_len + delta = n + 28 + delta
      <4> HIDE DEF n, delta
      <4> QED BY <1>1, <2>4
    <3> QED BY <3>1, <3>2, U16Range
  <2>6. hdr.udp_len = udp /\ hdr.ip_len = ip
    <3> HIDE DEF exit, p, ip, udp
    <3> QED BY <1>10 DEF UpdateLengths
  <2>7. sealed = Seal(CBC, c.key, iv, PaddedBody(p))
    <3> DEFINE b == PaddedBody(p)
    <3>1. b.form = "plain"
      BY <1>4
    <3> HIDE DEF b
    <3>2. Kfunc(ENCRYPT, CBC, c.key, iv, b) = Seal(CBC, c.key, iv, b)
      BY <3>1 DEF Kfunc, KfuncEncrypt, CHACHA, CBC
    <3> QED BY <3>2 DEF b
  <2>8. /\ sealed.msg = m /\ sealed.pad = PadLen(n)
        /\ SealedWith(sealed, CBC, c.key, iv)
    BY <1>3, <1>4, <2>7 DEF Seal, SealedWith, PaddedBody, Plain
  <2>9. q.shape = s /\ q.skb.len = p.skb.len + delta
    BY <2>1, FrameFacts DEF Rewritten, Resized
  <2>10. q.hdr = hdr /\ q.body = sealed /\ q.tail = Trailer(n + PadLen(n), iv)
    BY <2>1 DEF Rewritten
  <2>11. /\ q.tail.iv = iv /\ q.tail.magic /\ q.tail.off = n + PadLen(n)
         /\ q.tail.payload_len = n + PadLen(n)
    BY <2>5, <2>10 DEF Trailer
  <2> HIDE DEF q, n, p, hdr, sealed, ip, udp, skb
  <2>12. q.body.msg.len = n /\ q.body.pad = PadLen(n) /\ SealedWith(q.body, CBC, c.key, q.tail.iv)
    BY <1>1, <2>8, <2>10, <2>11
  <2>13. /\ q.hdr.udp_len = 8 + (n + PadLen(n) + 24)
         /\ q.hdr.ip_len = 20 + q.hdr.udp_len /\ q.skb.len = 14 + q.hdr.ip_len
    BY <1>1, <2>4, <2>5, <2>6, <2>9, <2>10 DEF HdrBytes
  <2>14. SealedFor(c, q)
    BY <2>2, <2>3, <2>9, <2>11, <2>12, <2>13
       DEF SealedFor, MaxTransparentPayload, EthBytes, IpBytes, UdpBytes, HdrBytes
  <2> QED BY <1>10, <2>14 DEF FrameOK, q, p
<1> QED
  BY <1>2, <1>5, <1>6, <1>7, <1>8, <1>9, <1>10
  DEF EncryptExits, HostMangled, ResizeFaults

LEMMA ArrivingFacts ==
  ASSUME NEW w \in PacketType, NEW linear
  PROVE  LET p == Arriving(w, linear)
         IN  /\ p.shape = w.shape /\ p.hdr = w.hdr /\ p.body = w.body /\ p.tail = w.tail
             /\ p.hexit = w.hexit /\ p.skb.len = w.skb.len
             /\ p.skb.lin \in {w.skb.len, PayloadOff(w)}
             /\ PayloadOff(p) = PayloadOff(w) /\ PayloadLen(p) = PayloadLen(w)
<1> DEFINE skb == [lin |-> IF linear THEN w.skb.len ELSE PayloadOff(w), len |-> w.skb.len]
           p == Arriving(w, linear)
<1>1. p = [w EXCEPT !.skb = skb]
  BY DEF Arriving
<1>2. skb.len = w.skb.len /\ skb.lin \in {w.skb.len, PayloadOff(w)}
  OBVIOUS
<1> HIDE DEF skb, p
<1>3. /\ p.shape = w.shape /\ p.hdr = w.hdr /\ p.body = w.body /\ p.tail = w.tail
      /\ p.hexit = w.hexit /\ p.skb = skb
  BY <1>1 DEF PacketType
<1>4. PayloadOff(p) = PayloadOff(w) /\ PayloadLen(p) = PayloadLen(w)
  BY <1>3 DEF PayloadOff, L4Off, PayloadLen
<1> QED BY <1>2, <1>3, <1>4 DEF p

\* A clean frame is never taken for an encrypted one: the peer leaves it.
LEMMA CleanExits ==
  ASSUME NEW c, NEW w \in PacketType, Clean(w), NEW linear, NEW fault, NEW byte
  PROVE  DecryptExit(c, Arriving(w, linear), fault, byte)
           \in {"dec_short", "hdr_load", "bad_magic"}
<1> DEFINE p == Arriving(w, linear)
           n == PayloadLen(p)
           exit == DecryptExit(c, p, fault, byte)
<1>1. n \in Nat /\ (p.tail.magic => p.tail.off > n)
  <2>1. p.tail = w.tail /\ n = PayloadLen(w)
    BY ArrivingFacts
  <2>2. PayloadLen(w) \in Nat
    BY PacketFields
  <2> QED BY <2>1, <2>2 DEF Clean
<1>2. ~TrailerAt(p, n - HdrBytes)
  <2> SUFFICES ASSUME p.tail.magic, p.tail.off = n - HdrBytes PROVE FALSE
    BY DEF TrailerAt
  <2> HIDE DEF p, n
  <2> QED BY <1>1 DEF HdrBytes
<1>3. exit \in {"dec_short", "hdr_load", "bad_magic"}
  <2> HIDE DEF p
  <2> QED BY <1>2 DEF DecryptExit
<1> QED BY <1>3

LEMMA PeerLeavesClean ==
  ASSUME NEW c \in ConfigType, c.action = DECRYPT, NEW w \in PacketType, Clean(w),
         NEW linear, NEW fault \in Faults, NEW iv, NEW byte
  PROVE  TcTransparent(c, Arriving(w, linear), fault, iv, byte).pkt = Arriving(w, linear)
<1> DEFINE p == Arriving(w, linear)
           exit == DecryptExit(c, p, fault, byte)
<1>1. exit \in {"dec_short", "hdr_load", "bad_magic"}
  BY CleanExits
<1>2. DecryptPkt(c, p, exit, byte) = p
  <2> HIDE DEF exit, p
  <2> QED BY <1>1 DEF DecryptPkt, ResizeFaults, KfuncFaults
<1>3. c.action # ENCRYPT
  BY DEF ENCRYPT, DECRYPT
<1> HIDE DEF p
<1>4. TcTransparent(c, p, fault, iv, byte).pkt = p
  BY <1>2, <1>3 DEF TcTransparent
<1> QED BY <1>4 DEF p

LEMMA SealedOpens ==
  ASSUME NEW h, NEW c, c.key = h.key, NEW w \in PacketType, SealedFor(h, w), NEW linear
  PROVE  LET opened == Decrypted(c, Arriving(w, linear))
         IN  /\ opened.form = "plain" /\ opened.msg = w.body.msg
             /\ opened.pad = PadLen(w.body.msg.len) /\ opened \in BodyType
<1> DEFINE p == Arriving(w, linear)
           opened == Decrypted(c, p)
<1>1. p.body = w.body /\ p.tail = w.tail
  BY ArrivingFacts
<1>2. SealedWith(p.body, CBC, c.key, p.tail.iv) /\ p.body.pad = PadLen(w.body.msg.len)
  BY <1>1 DEF SealedFor
<1>3. opened = Open(p.body)
  <2>1. opened = KfuncDecrypt(CBC, c.key, p.tail.iv, p.body)
    BY DEF Decrypted, Kfunc, ENCRYPT, DECRYPT
  <2>2. p.body.form # "plain"
    BY <1>2 DEF SealedWith
  <2> HIDE DEF p, opened
  <2> QED BY <1>2, <2>1, <2>2 DEF KfuncDecrypt
<1>4. p.body \in BodyType
  BY <1>1, PacketFields
<1> HIDE DEF p, opened
<1>5. opened \in BodyType
  BY <1>3, <1>4 DEF Open, BodyType, Algos
<1>6. opened.form = "plain" /\ opened.msg = p.body.msg /\ opened.pad = p.body.pad
  BY <1>3, <1>4 DEF Open, BodyType
<1> QED BY <1>1, <1>2, <1>5, <1>6 DEF p, opened

\* A sealed frame: the peer restores the message, or takes one of the exits
\* that leave it sealed, or leaves lengths the stack refuses.
LEMMA PeerOpensSealed ==
  ASSUME NEW h, NEW c \in ConfigType, c.action = DECRYPT, c.algo = CBC,
         c.key = h.key, c.port = h.port,
         NEW w \in PacketType, SealedFor(h, w),
         NEW linear, NEW fault \in Faults, NEW iv, NEW byte
  PROVE  LET r == TcTransparent(c, Arriving(w, linear), fault, iv, byte)
         IN  r.exit \in PeerSealed \/ ~Deliverable(r.pkt) \/ Intact(r.pkt)
<1> DEFINE p == Arriving(w, linear)
           len == w.body.msg.len
           n == PayloadLen(p)
           pad == PadLen(len)
           exit == DecryptExit(c, p, fault, byte)
           opened == Decrypted(c, p)
           read == [p.hdr EXCEPT !.ucheck = Outdated(p.hdr.ucheck)]
           r == TcTransparent(c, p, fault, iv, byte)
<1>1. /\ p.shape = w.shape /\ p.hdr = w.hdr /\ p.body = w.body /\ p.tail = w.tail
      /\ p.skb.len = w.skb.len /\ p.skb.lin \in {w.skb.len, PayloadOff(w)}
      /\ PayloadOff(p) = PayloadOff(w) /\ PayloadLen(p) = PayloadLen(w)
  BY ArrivingFacts
<1>2. len \in Nat /\ 1 <= len /\ pad \in 1..16
  <2>1. w.body \in BodyType
    BY PacketFields
  <2>2. w.body.msg \in Messages
    BY <2>1 DEF BodyType
  <2>3. len \in Lens
    BY <2>2 DEF Messages
  <2>4. len \in Nat
    BY <2>3, ConstantsAssumption
  <2>5. 1 <= len
    BY DEF SealedFor
  <2> QED BY <2>4, <2>5, PadLenRange DEF BlockBytes
<1>3. /\ n = len + pad + 24 /\ w.hdr.udp_len = len + pad + 32
      /\ w.hdr.ip_len = len + pad + 52 /\ w.skb.len = len + pad + 66
  <2>1. /\ w.hdr.udp_len = UdpBytes + (len + pad + HdrBytes)
        /\ w.hdr.ip_len = IpBytes + w.hdr.udp_len /\ w.skb.len = EthBytes + w.hdr.ip_len
    BY DEF SealedFor
  <2>2. n = w.hdr.udp_len - UdpBytes
    BY <1>1 DEF PayloadLen
  <2> HIDE DEF n, len, pad
  <2> QED BY <1>2, <2>1, <2>2 DEF UdpBytes, IpBytes, EthBytes, HdrBytes
<1>4. PayloadOff(w) = 42
  BY DEF SealedFor, PayloadOff, L4Off, EthBytes, UdpBytes
<1>5. PrefixExit(c, p, fault) \in {"go", "bad_udp", "no_config"}
  <2>1. p.skb.lin >= 42
    <3> HIDE DEF len, pad, p
    <3> QED BY <1>1, <1>2, <1>3, <1>4
  <2>2. p.skb.lin \in Nat
    <3> HIDE DEF len, pad, p
    <3> QED BY <1>1, <1>2, <1>3, <1>4
  <2>3. /\ p.shape.proto = "ip" /\ p.shape.ihl = 5 /\ ~p.shape.frag
        /\ p.shape.l4 = "udp" /\ p.shape.dport = c.port
    BY <1>1 DEF SealedFor
  <2>4. L4Off(p) = 34
    BY <2>3 DEF L4Off, EthBytes
  <2>5. c.action \in Actions
    BY DEF ConfigType
  <2> HIDE DEF p
  <2> QED BY <2>1, <2>2, <2>3, <2>4, <2>5 DEF PrefixExit, EthBytes, IpBytes
<1>6. SUFFICES ASSUME PrefixExit(c, p, fault) = "go"
               PROVE  exit \in PeerSealed \/ ~Deliverable(DecryptPkt(c, p, exit, byte))
                        \/ Intact(DecryptPkt(c, p, exit, byte))
  <2>1. CASE PrefixExit(c, p, fault) # "go"
    <3>1. r.exit \in {"bad_udp", "no_config"}
      BY <1>5, <2>1 DEF TcTransparent
    <3> QED BY <3>1 DEF PeerSealed
  <2>2. CASE PrefixExit(c, p, fault) = "go"
    <3>1. c.action # ENCRYPT
      BY DEF ENCRYPT, DECRYPT
    <3>2. r.exit = exit /\ r.pkt = DecryptPkt(c, p, exit, byte)
      <4> HIDE DEF p, exit
      <4> QED BY <2>2, <3>1 DEF TcTransparent, exit
    <3> QED BY <1>6, <2>2, <3>2
  <2> QED BY <2>1, <2>2
<1>7. /\ opened.form = "plain" /\ opened.msg = w.body.msg /\ opened.pad = pad
      /\ opened \in BodyType
  BY SealedOpens
<1>8. PadByte(opened, byte) = pad
  <2> HIDE DEF opened, pad
  <2> QED BY <1>2, <1>7 DEF PadByte
<1>9. exit \in PeerSealed \union ResizeFaults \union {"ok"}
  <2>1. n >= HdrBytes /\ n - HdrBytes = len + pad /\ n - HdrBytes # 0
    <3> HIDE DEF n, len, pad
    <3> QED BY <1>2, <1>3 DEF HdrBytes
  <2>2. TrailerAt(p, n - HdrBytes) /\ p.tail.payload_len = n - HdrBytes
    BY <1>1, <2>1 DEF TrailerAt, SealedFor
  <2>3. Aligned(n - HdrBytes)
    BY <1>2, <2>1, PadLenRange
  <2>4. ~PadRefused(PadByte(opened, byte), n - HdrBytes)
    <3> HIDE DEF n, len, pad, opened
    <3> QED BY <1>2, <1>8, <2>1 DEF PadRefused, BlockBytes
  <2>5. ~(n < HdrBytes)
    <3> HIDE DEF n
    <3> QED BY <1>2, <1>3, <2>1 DEF HdrBytes
  <2> HIDE DEF p
  <2> QED BY <2>1, <2>2, <2>3, <2>4, <2>5 DEF DecryptExit, PeerSealed, ResizeFaults
<1>10. CASE exit \in PeerSealed
  BY <1>10
<1>11. CASE exit \in ResizeFaults \union {"ok"}
  <2> DEFINE delta == PadByte(opened, byte) + HdrBytes
             ip == p.hdr.ip_len - delta
             udp == p.hdr.udp_len - delta
             hdr == UpdateLengths(read, ip, udp, exit)
             q == DecryptPkt(c, p, exit, byte)
  <2>1. q = Rewritten(p, Resized(p.skb.len - delta), hdr, [opened EXCEPT !.pad = 0], NoTail)
    <3> HIDE DEF exit, p
    <3> QED BY <1>11 DEF DecryptPkt, ResizeFaults, KfuncFaults
  <2>2. /\ q.shape = p.shape /\ q.hdr = hdr /\ q.body = [opened EXCEPT !.pad = 0]
        /\ q.skb.len = p.skb.len - delta
    BY <2>1 DEF Rewritten, Resized
  <2>3. delta = pad + 24
    BY <1>8 DEF HdrBytes
  <2>4. /\ p.hdr.udp_len = len + pad + 32 /\ p.hdr.ip_len = len + pad + 52
        /\ p.skb.len = len + pad + 66 /\ p.shape.ihl = 5
    BY <1>1, <1>3 DEF SealedFor
  <2> HIDE DEF len, pad, delta
  <2>5. ip = len + 28 /\ udp = len + 8 /\ q.skb.len = len + 42
    BY <1>2, <2>2, <2>3, <2>4
  <2>6. p.hdr \in HdrType
    BY <1>1, PacketFields
  <2>7. /\ read.ip_len = p.hdr.ip_len /\ read.udp_len = p.hdr.udp_len /\ read \in HdrType
    <3> HIDE DEF p
    <3> QED BY <2>6 DEF HdrType, Outdated
  <2> HIDE DEF ip, udp, read, p, opened
  <2>8. CASE exit \in {"len_load", "csum"}
    <3>1. q.hdr.ip_len = len + pad + 52
      <4> HIDE DEF exit, q
      <4> QED BY <2>2, <2>4, <2>7, <2>8 DEF UpdateLengths
    <3> HIDE DEF q
    <3>2. ~(q.skb.len >= EthBytes + q.hdr.ip_len)
      BY <1>2, <2>5, <3>1 DEF EthBytes
    <3> QED BY <3>2 DEF Deliverable, q
  <2>9. CASE exit = "ip_store"
    <3>1. ~q.hdr.icheck
      <4> HIDE DEF exit, q
      <4> QED BY <2>2, <2>7, <2>9 DEF UpdateLengths, HdrType
    <3> HIDE DEF q
    <3> QED BY <3>1 DEF Deliverable, q
  <2>10. CASE exit = "udp_store"
    <3>1. q.hdr.ip_len = ip /\ q.hdr.udp_len = len + pad + 32
      <4> HIDE DEF exit, q
      <4> QED BY <2>2, <2>4, <2>7, <2>10 DEF UpdateLengths, HdrType
    <3>2. q.shape.ihl = 5
      BY <2>2, <2>4
    <3> HIDE DEF q
    <3>3. ~(q.hdr.ip_len >= 4 * q.shape.ihl + q.hdr.udp_len)
      BY <1>2, <2>5, <3>1, <3>2
    <3> QED BY <3>3 DEF Deliverable, q
  <2>11. CASE exit \in {"check_store", "ok"}
    <3>1. q.hdr.udp_len = udp
      <4> HIDE DEF exit, q
      <4> QED BY <2>2, <2>11 DEF UpdateLengths
    <3>2. q.body.form = "plain" /\ q.body.msg = w.body.msg
      <4> HIDE DEF q
      <4> QED BY <1>7, <2>2 DEF BodyType
    <3> HIDE DEF q
    <3>3. PayloadLen(q) = q.body.msg.len
      BY <1>2, <2>5, <3>1, <3>2 DEF PayloadLen, UdpBytes, len
    <3> QED BY <3>2, <3>3 DEF Intact, q
  <2> QED BY <1>11, <2>8, <2>9, <2>10, <2>11 DEF ResizeFaults
<1> QED BY <1>9, <1>10, <1>11

LEMMA TransmitDelivery ==
  ASSUME TypeOK, DeliveryInv, NEW m \in Messages, NEW s \in Shapes,
         NEW fault \in HostFaults, NEW iv \in IVs, NEW byte \in PadBytes, NEW room,
         Transmit(m, s, fault, iv, byte, room)
  PROVE  DeliveryInv'
<1> DEFINE c == cfg["host"]
           p == Frame(m, s)
           r == TcTransparent(c, p, fault, iv, byte)
           q == [r.pkt EXCEPT !.hexit = r.exit]
<1> SUFFICES ASSUME Matched
             PROVE  /\ \A w \in wire' : FrameOK(c, w, w.hexit)
                    /\ \A d \in inbox' : DeliveredOK(d)
  BY DEF DeliveryInv, Transmit, Matched
<1>1. fault \in Faults /\ c \in ConfigType /\ c.action = ENCRYPT
  BY ConstantsAssumption DEF TypeOK, Sides, Matched
<1>2. p \in PacketType /\ (p.skb.lin <= p.skb.len)
  BY FrameType
<1>3. r.pkt \in PacketType
  BY <1>1, <1>2, RunType
<1>4. FrameOK(c, r.pkt, r.exit)
  <2>1. CASE PrefixExit(c, p, fault) # "go"
    <3>1. r.pkt = p
      <4> HIDE DEF c, p
      <4> QED BY <2>1 DEF TcTransparent
    <3> QED BY <3>1, FrameClean DEF FrameOK
  <2>2. CASE PrefixExit(c, p, fault) = "go"
    <3>1. r.exit = EncryptExit(p, fault) /\ r.pkt = EncryptPkt(c, p, r.exit, iv)
      <4> HIDE DEF c, p
      <4> QED BY <1>1, <2>2 DEF TcTransparent
    <3> HIDE DEF c
    <3> QED BY <1>1, <2>2, <3>1, EncryptFrame
  <2> QED BY <2>1, <2>2
<1> HIDE DEF r
<1>5. /\ q.hexit = r.exit /\ q.shape = r.pkt.shape /\ q.skb = r.pkt.skb
      /\ q.hdr = r.pkt.hdr /\ q.body = r.pkt.body /\ q.tail = r.pkt.tail
  BY <1>3 DEF PacketType
<1> HIDE DEF q, c
<1>6. FrameOK(c, q, q.hexit)
  BY <1>4, <1>5 DEF FrameOK, Clean, SealedFor, PayloadLen
<1>7. wire' = wire \union {q} /\ inbox' = inbox
  BY DEF Transmit, q, r, c
<1>8. /\ \A w \in wire : FrameOK(c, w, w.hexit)
      /\ \A d \in inbox : DeliveredOK(d)
  BY DEF DeliveryInv, c
<1> QED BY <1>6, <1>7, <1>8

LEMMA ReceiveDelivery ==
  ASSUME TypeOK, DeliveryInv, NEW w \in wire, NEW linear \in PeerLinear,
         NEW fault \in PeerFaults, NEW iv \in IVs, NEW byte \in PadBytes, NEW room,
         NEW again, Receive(w, linear, fault, iv, byte, room, again)
  PROVE  DeliveryInv'
<1> DEFINE c == cfg["peer"]
           p == Arriving(w, linear)
           r == TcTransparent(c, p, fault, iv, byte)
           q == [r.pkt EXCEPT !.pexit = r.exit]
<1> SUFFICES ASSUME Matched
             PROVE  /\ \A f \in wire' : FrameOK(cfg["host"], f, f.hexit)
                    /\ \A d \in inbox' : DeliveredOK(d)
  BY DEF DeliveryInv, Receive, Matched
<1>1. fault \in Faults /\ linear \in BOOLEAN /\ w \in PacketType /\ c \in ConfigType
  BY ConstantsAssumption DEF TypeOK, Sides
<1>2. /\ c.action = DECRYPT /\ c.algo = CBC
      /\ c.key = cfg["host"].key /\ c.port = cfg["host"].port
  BY DEF Matched, Sides
<1>3. p \in PacketType /\ (p.skb.lin <= p.skb.len \/ p.skb.lin = PayloadOff(p))
  BY <1>1, ArrivingType
<1>4. r.pkt \in PacketType
  BY <1>1, <1>3, RunType
<1>5. r.pkt.hexit = w.hexit
  <2>1. p.hexit = w.hexit
    BY <1>1, ArrivingFacts
  <2>3. c.action # ENCRYPT
    BY <1>2 DEF ENCRYPT, DECRYPT
  <2>4. r.pkt = p \/ r.pkt = DecryptPkt(c, p, DecryptExit(c, p, fault, byte), byte)
    <3> HIDE DEF c, p
    <3> QED BY <2>3 DEF TcTransparent
  <2>5. DecryptExit(c, p, fault, byte) \in DecryptExits
    BY <1>1, DecryptExitType
  <2>6. DecryptPkt(c, p, DecryptExit(c, p, fault, byte), byte).hexit = p.hexit
    <3> DEFINE exit == DecryptExit(c, p, fault, byte)
    <3> HIDE DEF c, p, exit
    <3>1. exit \in DecryptExits
      BY <2>5 DEF exit
    <3>2. DecryptPkt(c, p, exit, byte).hexit = p.hexit
      BY <3>1 DEF DecryptPkt, Rewritten, DecryptExits, ResizeFaults, KfuncFaults
    <3> QED BY <3>2 DEF exit
  <2> QED BY <2>1, <2>4, <2>6
<1>6. FrameOK(cfg["host"], w, w.hexit)
  BY DEF DeliveryInv
<1>7. \/ w.hexit \in HostMangled
      \/ Intact(r.pkt)
      \/ w.hexit = "ok" /\ (r.exit \in PeerSealed \/ ~Deliverable(r.pkt))
  <2>1. CASE Clean(w)
    <3>1. r.pkt = p
      <4> HIDE DEF c
      <4> QED BY <1>1, <1>2, <2>1, PeerLeavesClean
    <3>2. p.body = w.body /\ PayloadLen(p) = PayloadLen(w)
      BY <1>1, ArrivingFacts
    <3> QED BY <2>1, <3>1, <3>2 DEF Clean, Intact
  <2>2. CASE w.hexit = "ok" /\ SealedFor(cfg["host"], w)
    <3> HIDE DEF c
    <3> QED BY <1>1, <1>2, <2>2, PeerOpensSealed
  <2> QED BY <1>6, <2>1, <2>2 DEF FrameOK
<1> HIDE DEF r
<1>8. /\ q.hexit = w.hexit /\ q.pexit = r.exit /\ q.shape = r.pkt.shape
      /\ q.skb = r.pkt.skb /\ q.hdr = r.pkt.hdr /\ q.body = r.pkt.body
  BY <1>4, <1>5 DEF PacketType
<1> HIDE DEF q, c
<1>9. Deliverable(q) => DeliveredOK(q)
  BY <1>7, <1>8 DEF DeliveredOK, Deliverable, Intact, PayloadLen
<1>10. /\ wire' \subseteq wire
       /\ inbox' = IF Deliverable(q) THEN inbox \union {q} ELSE inbox
  BY DEF Receive, q, r, c
<1>11. /\ \A f \in wire : FrameOK(cfg["host"], f, f.hexit)
       /\ \A d \in inbox : DeliveredOK(d)
  BY DEF DeliveryInv
<1> QED BY <1>9, <1>10, <1>11

LEMMA InitDelivery == Init => DeliveryInv
BY DEF Init, DeliveryInv

LEMMA NextDelivery == TypeOK /\ DeliveryInv /\ [Next]_vars => DeliveryInv'
<1> SUFFICES ASSUME TypeOK, DeliveryInv, [Next]_vars PROVE DeliveryInv'
  OBVIOUS
<1>1. CASE TransmitSome
  BY <1>1, TransmitDelivery DEF TransmitSome
<1>2. CASE ReceiveSome
  BY <1>2, ReceiveDelivery DEF ReceiveSome
<1>3. CASE LoseSome \/ UNCHANGED vars
  BY <1>3 DEF LoseSome, Lose, vars, DeliveryInv, Matched
<1> QED BY <1>1, <1>2, <1>3 DEF Next

\* Between matched peers a delivered datagram is the one that was sent, for
\* all lengths, configurations, helper failures and behaviours of the wire,
\* unless the host gave up after repairing the lengths or the peer gave up on
\* a sealed frame.
THEOREM DeliveryTheorem == Spec => []DeliveredIntact
<1>1. DeliveryInv => DeliveredIntact
  BY DEF DeliveryInv, DeliveredIntact, DeliveredOK
<1> QED BY <1>1, InitDelivery, NextDelivery, TypeTheorem, PTL DEF Spec

----------------------------------------------------------------------------
(* The payload limit. *)

\* A payload the limit accepts fits the device with padding and trailer.
LEMMA AcceptedFits ==
  ASSUME Mtu >= 1500, NEW m \in Messages, NEW s \in Shapes,
         s.ihl = 5, m.len # 0, ~TooLong(m.len)
  PROVE  ~GrowthRefused(Frame(m, s), PadLen(m.len) + HdrBytes)
<1>1. m.len \in Nat /\ Mtu \in Nat
  BY FrameFacts, ConstantsAssumption
<1>2. Frame(m, s).skb.len = EthBytes + (4 * 5 + UdpBytes + m.len)
  BY FrameFacts
<1>3. m.len <= 1408
  BY <1>1 DEF TooLong, MaxTransparentPayload
<1>4. PadLen(m.len) \in 1..16
  BY <1>1, PadLenRange DEF BlockBytes
<1> QED
  BY <1>1, <1>2, <1>3, <1>4 DEF GrowthRefused, EthBytes, UdpBytes, HdrBytes

LEMMA LimitExit ==
  ASSUME Mtu >= 1500, NEW m \in Messages, NEW s \in Shapes, NEW c \in ConfigType,
         NEW fault \in Faults \ {"change_tail"}, NEW iv, NEW byte
  PROVE  TcTransparent(c, Frame(m, s), fault, iv, byte).exit # "change_tail"
<1> DEFINE p == Frame(m, s)
<1>1. p \in PacketType /\ PayloadLen(p) = m.len
  BY FrameType, FrameFacts
<1>2. CASE PrefixExit(c, p, fault) # "go"
  BY <1>2, PrefixExitType DEF TcTransparent, PrefixExits
<1>3. CASE PrefixExit(c, p, fault) = "go"
  <2>1. s.ihl = 5
    <3>1. p.shape = s
      BY FrameFacts
    <3> HIDE DEF p
    <3>2. p.shape.ihl = 5
      BY <1>1, <1>3, PrefixGo
    <3> QED BY <3>1, <3>2
  <2>2. EncryptExit(p, fault) # "change_tail"
    <3>1. m.len # 0 /\ ~TooLong(m.len) => ~GrowthRefused(p, PadLen(m.len) + HdrBytes)
      BY <2>1, AcceptedFits
    <3>2. fault # "change_tail"
      OBVIOUS
    <3> HIDE DEF p
    <3> QED BY <1>1, <3>1, <3>2 DEF EncryptExit
  <2>3. DecryptExit(c, p, fault, byte) # "change_tail"
    BY DEF DecryptExit
  <2> QED BY <1>3, <2>2, <2>3 DEF TcTransparent
<1> QED BY <1>2, <1>3

\* EBAF_MAX_TRANSPARENT_PAYLOAD is small enough: on a device with an MTU of
\* 1500 or more and a kernel that does not fail of itself, no payload the
\* limit accepts is refused its padding and trailer, whatever its length.
THEOREM LimitTheorem ==
  ASSUME Mtu >= 1500
  PROVE  Spec => []LimitFitsMtu
<1>1. Init => LimitFitsMtu
  BY DEF Init, LimitFitsMtu
<1>2. TypeOK /\ LimitFitsMtu /\ [Next]_vars => LimitFitsMtu'
  <2> SUFFICES ASSUME TypeOK, LimitFitsMtu, [Next]_vars, "change_tail" \notin HostFaults
               PROVE  \A p \in wire' : p.hexit # "change_tail"
    BY DEF LimitFitsMtu
  <2>1. CASE TransmitSome
    <3>1. PICK m \in Messages, s \in Shapes, fault \in HostFaults, iv \in IVs,
               byte \in PadBytes, room \in BOOLEAN :
                 Transmit(m, s, fault, iv, byte, room)
      BY <2>1 DEF TransmitSome
    <3> DEFINE r == TcTransparent(cfg["host"], Frame(m, s), fault, iv, byte)
                  f == [r.pkt EXCEPT !.hexit = r.exit]
    <3>2. fault \in Faults \ {"change_tail"} /\ cfg["host"] \in ConfigType
      BY ConstantsAssumption DEF TypeOK, Sides
    <3>3. r.exit # "change_tail"
      BY <3>2, LimitExit
    <3>4. f.hexit = r.exit
      <4>1. r.pkt \in PacketType
        BY <3>2, FrameType, RunType, ConstantsAssumption
      <4> QED BY <4>1 DEF PacketType
    <3>5. wire' = wire \union {f}
      BY <3>1 DEF Transmit
    <3> HIDE DEF r, f
    <3> QED BY <3>3, <3>4, <3>5 DEF LimitFitsMtu
  <2>2. CASE ReceiveSome
    <3>1. wire' \subseteq wire
      BY <2>2 DEF ReceiveSome, Receive
    <3> QED BY <3>1 DEF LimitFitsMtu
  <2>3. CASE LoseSome \/ UNCHANGED vars
    BY <2>3 DEF LoseSome, Lose, vars, LimitFitsMtu
  <2> QED BY <2>1, <2>2, <2>3 DEF Next
<1> QED BY <1>1, <1>2, TypeTheorem, PTL DEF Spec

----------------------------------------------------------------------------
(* The message a frame carries: no run of the program changes it.           *)

LEMMA KfuncMessage ==
  ASSUME NEW action, NEW key, NEW iv, NEW b \in BodyType
  PROVE  Kfunc(action, CBC, key, iv, b).msg = b.msg
<1>1. Seal(CBC, key, iv, b).msg = b.msg /\ Open(b).msg = b.msg /\ Junk(b).msg = b.msg
  BY DEF Seal, Open, Junk, BodyType
<1> QED BY <1>1 DEF Kfunc, KfuncEncrypt, KfuncDecrypt

LEMMA EncryptMessage ==
  ASSUME NEW c, NEW p \in PacketType, NEW exit \in EncryptExits, NEW iv
  PROVE  EncryptPkt(c, p, exit, iv).body.msg = p.body.msg
<1> DEFINE padded == PaddedBody(p)
           sealed == Kfunc(ENCRYPT, CBC, c.key, iv, padded)
           q == EncryptPkt(c, p, exit, iv)
<1>1. p.body \in BodyType
  BY PacketFields
<1>2. padded \in BodyType /\ padded.msg = p.body.msg
  <2>1. PadLen(PayloadLen(p)) \in 0..BlockBytes
    BY PacketFields, PadLenRange DEF BlockBytes
  <2> QED BY <1>1, <2>1 DEF PaddedBody, BodyType
<1>3. sealed.msg = p.body.msg
  BY <1>2, KfuncMessage
<1>4. q.body \in {p.body, padded, sealed}
  BY DEF EncryptPkt, Rewritten, EncryptExits
<1> HIDE DEF q, padded, sealed
<1>5. q.body.msg = p.body.msg
  BY <1>2, <1>3, <1>4
<1> QED BY <1>5 DEF q

LEMMA DecryptBody ==
  ASSUME NEW c \in ConfigType, NEW p \in PacketType, NEW exit \in DecryptExits, NEW byte
  PROVE  DecryptPkt(c, p, exit, byte).body
           \in {p.body, Decrypted(c, p), [Decrypted(c, p) EXCEPT !.pad = 0]}
BY DEF DecryptPkt, Rewritten, DecryptExits

LEMMA DecryptMessage ==
  ASSUME NEW c \in ConfigType, NEW p \in PacketType, NEW exit \in DecryptExits, NEW byte
  PROVE  DecryptPkt(c, p, exit, byte).body.msg = p.body.msg
<1> DEFINE opened == Decrypted(c, p)
           q == DecryptPkt(c, p, exit, byte)
<1>1. opened \in BodyType
  BY DecryptedType
<1>2. opened.msg = p.body.msg
  BY PacketFields, KfuncMessage DEF Decrypted
<1>3. q.body \in {p.body, opened, [opened EXCEPT !.pad = 0]}
  BY DecryptBody
<1> HIDE DEF q, opened
<1>4. [opened EXCEPT !.pad = 0].msg = opened.msg
  BY <1>1 DEF BodyType
<1>5. q.body.msg = p.body.msg
  BY <1>2, <1>3, <1>4
<1> QED BY <1>5 DEF q

LEMMA RunMessage ==
  ASSUME NEW c \in ConfigType, NEW p \in PacketType, NEW fault \in Faults, NEW iv, NEW byte
  PROVE  TcTransparent(c, p, fault, iv, byte).pkt.body.msg = p.body.msg
<1> DEFINE enc == EncryptExit(p, fault)
           dec == DecryptExit(c, p, fault, byte)
           r == TcTransparent(c, p, fault, iv, byte)
<1>1. enc \in EncryptExits /\ dec \in DecryptExits
  BY EncryptExitType, DecryptExitType
<1>2. /\ EncryptPkt(c, p, enc, iv).body.msg = p.body.msg
      /\ DecryptPkt(c, p, dec, byte).body.msg = p.body.msg
  <2> HIDE DEF enc, dec
  <2> QED BY <1>1, EncryptMessage, DecryptMessage
<1>3. r.pkt \in {p, EncryptPkt(c, p, enc, iv), DecryptPkt(c, p, dec, byte)}
  <2> HIDE DEF enc, dec
  <2> QED BY DEF TcTransparent, enc, dec
<1> HIDE DEF enc, dec, r
<1>4. r.pkt.body.msg = p.body.msg
  BY <1>2, <1>3
<1> QED BY <1>4 DEF r

----------------------------------------------------------------------------
(* What the two kinds of step put on the wire and into the inbox.           *)

HostRun(m, s, fault, iv, byte) ==
  TcTransparent(cfg["host"], Frame(m, s), fault, iv, byte)

HostOut(m, s, fault, iv, byte) ==
  LET r == HostRun(m, s, fault, iv, byte) IN [r.pkt EXCEPT !.hexit = r.exit]

PeerRun(w, linear, fault, iv, byte) ==
  TcTransparent(cfg["peer"], Arriving(w, linear), fault, iv, byte)

PeerOut(w, linear, fault, iv, byte) ==
  LET r == PeerRun(w, linear, fault, iv, byte) IN [r.pkt EXCEPT !.pexit = r.exit]

LEMMA TransmitPuts ==
  ASSUME TypeOK, NEW m \in Messages, NEW s \in Shapes, NEW fault \in HostFaults,
         NEW iv \in IVs, NEW byte \in PadBytes, NEW room,
         Transmit(m, s, fault, iv, byte, room)
  PROVE  LET r == HostRun(m, s, fault, iv, byte)
             q == HostOut(m, s, fault, iv, byte)
         IN  /\ wire' = wire \union {q} /\ UNCHANGED <<cfg, inbox>>
             /\ sent' = sent \union {m}
             /\ r.pkt \in PacketType /\ q \in PacketType /\ q.hexit = r.exit
             /\ q.body = r.pkt.body /\ q.hdr = r.pkt.hdr /\ q.tail = r.pkt.tail
             /\ q.body.msg = m
             /\ fault \in Faults /\ cfg["host"] \in ConfigType
<1> DEFINE c == cfg["host"]
           p == Frame(m, s)
           r == TcTransparent(c, p, fault, iv, byte)
           q == [r.pkt EXCEPT !.hexit = r.exit]
<1>1. fault \in Faults /\ c \in ConfigType
  BY ConstantsAssumption DEF TypeOK, Sides
<1>2. p \in PacketType /\ p.skb.lin <= p.skb.len /\ p.body.msg = m
  <2>1. p.body = Plain(m)
    BY FrameFacts
  <2>2. p.body.msg = m
    <3> HIDE DEF p
    <3> QED BY <2>1 DEF Plain
  <2> QED BY <2>2, FrameType
<1>3. r.pkt \in PacketType /\ r.exit \in Exits
  BY <1>1, <1>2, RunType
<1>4. r.pkt.body.msg = m
  BY <1>1, <1>2, RunMessage
<1>5. wire' = wire \union {q} /\ UNCHANGED <<cfg, inbox>> /\ sent' = sent \union {m}
  BY DEF Transmit
<1> HIDE DEF r
<1>6. /\ q \in PacketType /\ q.hexit = r.exit
      /\ q.body = r.pkt.body /\ q.hdr = r.pkt.hdr /\ q.tail = r.pkt.tail
  BY <1>3 DEF PacketType
<1> QED BY <1>1, <1>3, <1>4, <1>5, <1>6 DEF r, HostRun, HostOut

LEMMA ReceivePuts ==
  ASSUME TypeOK, NEW w \in wire, NEW linear \in PeerLinear, NEW fault \in PeerFaults,
         NEW iv \in IVs, NEW byte \in PadBytes, NEW room, NEW again,
         Receive(w, linear, fault, iv, byte, room, again)
  PROVE  LET p == Arriving(w, linear)
             r == PeerRun(w, linear, fault, iv, byte)
             q == PeerOut(w, linear, fault, iv, byte)
         IN  /\ wire' \subseteq wire /\ UNCHANGED <<cfg, sent>>
             /\ inbox' = IF Deliverable(q) THEN inbox \union {q} ELSE inbox
             /\ q \in PacketType /\ q.hexit = r.pkt.hexit /\ q.pexit = r.exit
             /\ q.body = r.pkt.body /\ q.hdr = r.pkt.hdr
             /\ q.body.msg = w.body.msg
             /\ w \in PacketType /\ p \in PacketType /\ p.hexit = w.hexit
             /\ p.body = w.body /\ p.hdr = w.hdr
             /\ fault \in Faults /\ cfg["peer"] \in ConfigType
<1> DEFINE c == cfg["peer"]
           p == Arriving(w, linear)
           r == TcTransparent(c, p, fault, iv, byte)
           q == [r.pkt EXCEPT !.pexit = r.exit]
<1>1. fault \in Faults /\ linear \in BOOLEAN /\ w \in PacketType /\ c \in ConfigType
  BY ConstantsAssumption DEF TypeOK, Sides
<1>2. p \in PacketType /\ (p.skb.lin <= p.skb.len \/ p.skb.lin = PayloadOff(p))
  BY <1>1, ArrivingType
<1>3. p.hexit = w.hexit /\ p.body = w.body /\ p.hdr = w.hdr
  BY <1>1, ArrivingFacts
<1>4. r.pkt \in PacketType /\ r.exit \in Exits
  BY <1>1, <1>2, RunType
<1>5. r.pkt.body.msg = w.body.msg
  BY <1>1, <1>2, <1>3, RunMessage
<1>6. /\ wire' \subseteq wire /\ UNCHANGED <<cfg, sent>>
      /\ inbox' = IF Deliverable(q) THEN inbox \union {q} ELSE inbox
  BY DEF Receive
<1> HIDE DEF r
<1>7. /\ q \in PacketType /\ q.hexit = r.pkt.hexit /\ q.pexit = r.exit
      /\ q.body = r.pkt.body /\ q.hdr = r.pkt.hdr
  BY <1>4 DEF PacketType
<1> QED BY <1>1, <1>2, <1>3, <1>5, <1>6, <1>7 DEF r, PeerRun, PeerOut

----------------------------------------------------------------------------
(* The hooks implement the datagram channel.                                *)

\* In short: a transmission sends one message, a reception delivers at most one.
LEMMA TransmitSends ==
  ASSUME TypeOK, TransmitSome
  PROVE  \E m \in Messages, q \in PacketType :
           /\ wire' = wire \union {q} /\ q.body.msg = m
           /\ sent' = sent \union {m} /\ cfg' = cfg /\ inbox' = inbox
<1>1. PICK m \in Messages, s \in Shapes, fault \in HostFaults, iv \in IVs,
           byte \in PadBytes, room \in BOOLEAN : Transmit(m, s, fault, iv, byte, room)
  BY DEF TransmitSome
<1> DEFINE q == HostOut(m, s, fault, iv, byte)
<1>2. /\ q \in PacketType /\ wire' = wire \union {q} /\ q.body.msg = m
      /\ sent' = sent \union {m} /\ cfg' = cfg /\ inbox' = inbox
  BY <1>1, TransmitPuts
<1> HIDE DEF q
<1> QED BY <1>2

LEMMA ReceiveDelivers ==
  ASSUME TypeOK, ReceiveSome
  PROVE  \E w \in wire : \E q \in PacketType :
           /\ wire' \subseteq wire /\ q.body.msg = w.body.msg
           /\ inbox' = inbox \union {q} \/ inbox' = inbox
           /\ cfg' = cfg /\ sent' = sent
<1>1. PICK w \in wire, linear \in PeerLinear, fault \in PeerFaults, iv \in IVs,
           byte \in PadBytes, room \in BOOLEAN, again \in BOOLEAN :
             Receive(w, linear, fault, iv, byte, room, again)
  BY DEF ReceiveSome
<1> DEFINE q == PeerOut(w, linear, fault, iv, byte)
<1>2. /\ q \in PacketType /\ wire' \subseteq wire /\ q.body.msg = w.body.msg
      /\ inbox' = inbox \union {q} \/ inbox' = inbox
      /\ cfg' = cfg /\ sent' = sent
  BY <1>1, ReceivePuts
<1> HIDE DEF q
<1> QED BY <1>2

SentInv == \A p \in wire \union inbox : p.body.msg \in sent

LEMMA SentStep ==
  ASSUME TypeOK, SentInv, [Next]_vars
  PROVE  SentInv'
<1>1. CASE TransmitSome
  BY <1>1, TransmitSends DEF SentInv
<1>2. CASE ReceiveSome
  BY <1>2, ReceiveDelivers DEF SentInv
<1>3. CASE LoseSome \/ UNCHANGED vars
  BY <1>3 DEF LoseSome, Lose, vars, SentInv
<1> QED BY <1>1, <1>2, <1>3 DEF Next

Got == {ReadFrom(p) : p \in Promised}

\* Every step of the hooks and the wire is a step of the channel, or hidden.
LEMMA ChannelStep ==
  ASSUME TypeOK, TypeOK', DeliveryInv', SentInv, [Next]_vars
  PROVE  [Channel!Next]_(Channel!vars)
<1>1. SUFFICES (\E m \in Messages : \/ sent' = sent \union {m} /\ Got' = Got
                                    \/ m \in sent /\ Got' = Got \union {m} /\ sent' = sent)
               \/ (sent' = sent /\ Got' = Got)
  BY DEF Channel!Next, Channel!Send, Channel!Deliver, Channel!vars, Got
<1>2. ASSUME UNCHANGED <<cfg, inbox>> PROVE Got' = Got
  BY <1>2 DEF Got, Promised, Matched
<1>3. CASE TransmitSome
  <2>1. PICK m \in Messages : sent' = sent \union {m} /\ UNCHANGED <<cfg, inbox>>
    BY <1>3, TransmitSends
  <2> QED BY <1>2, <2>1
<1>4. CASE ReceiveSome
  <2>1. PICK w \in wire, q \in PacketType :
          /\ UNCHANGED <<cfg, sent>> /\ q.body.msg = w.body.msg
          /\ inbox' = inbox \union {q} \/ inbox' = inbox
    BY <1>4, ReceiveDelivers
  <2>2. CASE inbox' = inbox
    BY <1>2, <2>1, <2>2
  <2>3. CASE inbox' = inbox \union {q}
    <3>1. Promised' \in {Promised, Promised \union {q}}
      BY <2>1, <2>3 DEF Promised, Matched
    <3>2. CASE Promised' = Promised
      BY <2>1, <3>2 DEF Got
    <3>3. CASE Promised' = Promised \union {q}
      <4>1. ReadFrom(q) = q.body.msg /\ q.body.msg \in Messages
        <5>1. q \in inbox' /\ Matched' /\ Intact(q)
          BY <3>3 DEF Promised, DeliveryInv, DeliveredOK
        <5>2. q.body.msg \in Messages
          <6>1. q.body \in BodyType
            BY PacketFields
          <6> QED BY <6>1 DEF BodyType
        <5>3. ReadFrom(q) = [data |-> q.body.msg.data, len |-> q.body.msg.len]
          BY <5>1 DEF Intact, ReadFrom
        <5> QED BY <5>2, <5>3 DEF Messages
      <4>2. q.body.msg \in sent
        BY <2>1 DEF SentInv
      <4>3. Got' = Got \union {q.body.msg}
        BY <3>3, <4>1 DEF Got
      <4> QED BY <2>1, <4>1, <4>2, <4>3
    <3> QED BY <3>1, <3>2, <3>3
  <2> QED BY <2>1, <2>2, <2>3
<1>5. CASE LoseSome \/ UNCHANGED vars
  BY <1>2, <1>5 DEF LoseSome, Lose, vars
<1> QED BY <1>3, <1>4, <1>5 DEF Next

\* Between matched peers, for every message length and helper failure and
\* whatever the wire loses, repeats or reorders, what the application reads of
\* the frames that neither hook gave up on is what a plain datagram channel
\* may deliver: transparent mode is transparent.
THEOREM ChannelTheorem == Spec => ImplementsChannel
<1>1. Init => TypeOK /\ DeliveryInv /\ SentInv /\ Channel!Init
  <2>1. Init => SentInv /\ Channel!Init
    BY DEF Init, SentInv, Channel!Init, Promised
  <2> QED BY <2>1, InitType, InitDelivery
<1>2. TypeOK /\ DeliveryInv /\ SentInv /\ [Next]_vars
        => TypeOK' /\ DeliveryInv' /\ SentInv'
  BY NextType, NextDelivery, SentStep
<1>3. TypeOK /\ DeliveryInv /\ SentInv /\ [Next]_vars => [Channel!Next]_(Channel!vars)
  BY <1>2, ChannelStep
<1> QED BY <1>1, <1>2, <1>3, PTL DEF Spec, ImplementsChannel, Channel!Spec

----------------------------------------------------------------------------
(* The UDP checksum.  A frame the peer will rewrite has its checksum        *)
(* switched off already, unless the store that does so failed.              *)

CheckOK(w) ==
  /\ w.hdr.ucheck = "stale" => w.hexit = "check_store"
  /\ Clean(w) \/ w.hdr.ucheck = "zero" \/ w.hexit = "check_store"

CheckInv ==
  Matched => /\ \A w \in wire : CheckOK(w)
             /\ \A p \in inbox : p.hdr.ucheck = "stale" => p.hexit = "check_store"

\* update_lengths switches the checksum off if it gets that far.
LEMMA UpdatedCheck ==
  ASSUME NEW h \in HdrType, NEW ip, NEW udp, NEW exit
  PROVE  LET check == UpdateLengths(h, ip, udp, exit).ucheck
         IN  IF exit \in {"len_load", "csum", "ip_store", "udp_store"} THEN check = h.ucheck
             ELSE check \in {"zero", Outdated(h.ucheck)}
                  /\ (exit # "check_store" => check = "zero")
BY DEF UpdateLengths, HdrType

LEMMA EncryptCheck ==
  ASSUME NEW c, NEW p \in PacketType, NEW exit \in EncryptExits, NEW iv
  PROVE  LET check == EncryptPkt(c, p, exit, iv).hdr.ucheck
         IN  \/ check = p.hdr.ucheck /\ exit \notin HostMangled \union {"ok", "bad_body"}
             \/ check = "zero"
             \/ exit = "check_store"
<1> DEFINE n == PayloadLen(p)
           delta == PadLen(n) + HdrBytes
           hdr == UpdateLengths(p.hdr, U16(p.hdr.ip_len + delta), U16(p.hdr.udp_len + delta), exit)
           q == EncryptPkt(c, p, exit, iv)
<1>1. p.hdr \in HdrType
  BY PacketFields
<1>2. q.hdr = IF exit \in {"enc_length", "change_tail", "pad_store", "hdr_store"}
              THEN p.hdr ELSE hdr
  BY DEF EncryptPkt, Rewritten, EncryptExits, ResizeFaults, KfuncFaults
<1>3. IF exit \in {"len_load", "csum", "ip_store", "udp_store"} THEN hdr.ucheck = p.hdr.ucheck
      ELSE exit # "check_store" => hdr.ucheck = "zero"
  BY <1>1, UpdatedCheck
<1> HIDE DEF q, hdr
<1>4. \/ q.hdr.ucheck = p.hdr.ucheck /\ exit \notin HostMangled \union {"ok", "bad_body"}
      \/ q.hdr.ucheck = "zero"
      \/ exit = "check_store"
  BY <1>2, <1>3 DEF EncryptExits, HostMangled, ResizeFaults, KfuncFaults
<1> QED BY <1>4 DEF q

\* A checksum that is switched off stays so on the peer.
LEMMA DecryptCheck ==
  ASSUME NEW c \in ConfigType, NEW p \in PacketType, p.hdr.ucheck = "zero",
         NEW exit \in DecryptExits, NEW byte
  PROVE  DecryptPkt(c, p, exit, byte).hdr.ucheck = "zero"
<1> DEFINE read == [p.hdr EXCEPT !.ucheck = Outdated(p.hdr.ucheck)]
           delta == PadByte(Decrypted(c, p), byte) + HdrBytes
           hdr == UpdateLengths(read, p.hdr.ip_len - delta, p.hdr.udp_len - delta, exit)
           q == DecryptPkt(c, p, exit, byte)
<1>1. p.hdr \in HdrType
  BY PacketFields
<1>2. read \in HdrType /\ read.ucheck = "zero"
  BY <1>1 DEF HdrType, Outdated
<1>3. q.hdr \in {p.hdr, read, hdr}
  BY DEF DecryptPkt, Rewritten, DecryptExits
<1> HIDE DEF read
<1>4. hdr.ucheck = "zero"
  BY <1>2, UpdatedCheck DEF Outdated
<1> HIDE DEF q, hdr
<1>5. q.hdr.ucheck = "zero"
  BY <1>2, <1>3, <1>4
<1> QED BY <1>5 DEF q

LEMMA TransmitCheck ==
  ASSUME TypeOK, DeliveryInv', CheckInv, NEW m \in Messages, NEW s \in Shapes,
         NEW fault \in HostFaults, NEW iv \in IVs, NEW byte \in PadBytes, NEW room,
         Transmit(m, s, fault, iv, byte, room)
  PROVE  CheckInv'
<1> DEFINE c == cfg["host"]
           p == Frame(m, s)
           r == HostRun(m, s, fault, iv, byte)
           q == HostOut(m, s, fault, iv, byte)
<1>1. /\ wire' = wire \union {q} /\ cfg' = cfg /\ inbox' = inbox
      /\ q.hexit = r.exit /\ q.hdr = r.pkt.hdr /\ q.body = r.pkt.body /\ q.tail = r.pkt.tail
      /\ fault \in Faults /\ c \in ConfigType
  BY TransmitPuts
<1> DEFINE exit == EncryptExit(p, fault)
<1> SUFFICES ASSUME Matched PROVE CheckOK(q)
  <2> HIDE DEF q
  <2> QED BY <1>1 DEF CheckInv, Matched
<1>2. p \in PacketType /\ p.hdr.ucheck = "sum" /\ Clean(p)
  <2>1. p.hdr.ucheck = "sum"
    BY DEF Frame
  <2> QED BY <2>1, FrameType, FrameClean
<1>3. exit \in EncryptExits /\ c.action = ENCRYPT
  BY <1>1, EncryptExitType DEF Matched
<1>4. CASE PrefixExit(c, p, fault) # "go"
  <2>1. r.pkt = p
    <3>1. r = TcTransparent(c, p, fault, iv, byte)
      BY DEF HostRun
    <3> HIDE DEF c, p, r
    <3> QED BY <1>4, <3>1 DEF TcTransparent
  <2> HIDE DEF q, r, p
  <2>2. q.hdr = p.hdr /\ Clean(q)
    BY <1>1, <1>2, <2>1 DEF Clean, PayloadLen
  <2>3. CheckOK(q)
    BY <1>2, <2>2 DEF CheckOK
  <2> QED BY <2>3 DEF q, r, p
<1>5. CASE PrefixExit(c, p, fault) = "go"
  <2>1. r.exit = exit /\ r.pkt = EncryptPkt(c, p, exit, iv)
    <3>1. r = TcTransparent(c, p, fault, iv, byte)
      BY DEF HostRun
    <3> HIDE DEF c, p, r
    <3> QED BY <1>3, <1>5, <3>1 DEF TcTransparent
  <2>2. FrameOK(c, r.pkt, exit)
    <3> HIDE DEF c, r
    <3> QED BY <1>1, <1>5, <2>1, EncryptFrame
  <2>3. exit # "bad_body"
    <3>1. PayloadLen(p) \in Nat
      BY <1>2, PacketFields
    <3> HIDE DEF p
    <3>2. Aligned(PayloadLen(p) + PadLen(PayloadLen(p)))
      BY <3>1, PadLenRange
    <3>3. EncryptExit(p, fault) # "bad_body"
      BY <3>2 DEF EncryptExit, ResizeFaults, KfuncFaults
    <3> QED BY <3>3 DEF exit
  <2> HIDE DEF exit
  <2>4. \/ r.pkt.hdr.ucheck = "sum" /\ exit \notin HostMangled \union {"ok", "bad_body"}
        \/ r.pkt.hdr.ucheck = "zero"
        \/ exit = "check_store"
    <3> HIDE DEF p, r, c
    <3> QED BY <1>2, <1>3, <2>1, EncryptCheck
  <2> HIDE DEF q, r, p, c
  <2>5. Clean(q) \/ exit \in HostMangled \/ exit = "ok"
    <3>1. Clean(r.pkt) => Clean(q)
      BY <1>1 DEF Clean, PayloadLen
    <3> QED BY <2>2, <3>1 DEF FrameOK
  <2>6. CheckOK(q)
    BY <1>1, <2>1, <2>4, <2>5 DEF CheckOK
  <2> QED BY <2>6 DEF q, r, p, c
<1> QED BY <1>4, <1>5

LEMMA ReceiveCheck ==
  ASSUME TypeOK, CheckInv, NEW w \in wire, NEW linear \in PeerLinear,
         NEW fault \in PeerFaults, NEW iv \in IVs, NEW byte \in PadBytes, NEW room,
         NEW again, Receive(w, linear, fault, iv, byte, room, again)
  PROVE  CheckInv'
<1> DEFINE c == cfg["peer"]
           p == Arriving(w, linear)
           r == PeerRun(w, linear, fault, iv, byte)
           q == PeerOut(w, linear, fault, iv, byte)
<1>1. /\ wire' \subseteq wire /\ cfg' = cfg
      /\ inbox' = inbox \union {q} \/ inbox' = inbox
      /\ q.hexit = r.pkt.hexit /\ q.hdr = r.pkt.hdr
      /\ w \in PacketType /\ p \in PacketType /\ p.hexit = w.hexit /\ p.hdr = w.hdr
      /\ fault \in Faults /\ c \in ConfigType
  BY ReceivePuts
<1> DEFINE exit == DecryptExit(c, p, fault, byte)
<1> SUFFICES ASSUME Matched PROVE q.hdr.ucheck = "stale" => q.hexit = "check_store"
  <2> HIDE DEF q
  <2> QED BY <1>1 DEF CheckInv, Matched
<1>2. c.action = DECRYPT /\ c.action # ENCRYPT
  BY DEF Matched, ENCRYPT, DECRYPT
<1>3. exit \in DecryptExits
  BY <1>1, DecryptExitType
<1>4. r.pkt = p \/ r.pkt = DecryptPkt(c, p, exit, byte)
  <2>1. r = TcTransparent(c, p, fault, iv, byte)
    BY DEF PeerRun
  <2> HIDE DEF c, p, r
  <2> QED BY <1>2, <2>1 DEF TcTransparent
<1>5. r.pkt.hexit = w.hexit
  <2> HIDE DEF exit, p, c
  <2>1. DecryptPkt(c, p, exit, byte).hexit = p.hexit
    BY <1>3 DEF DecryptPkt, Rewritten, DecryptExits, ResizeFaults, KfuncFaults
  <2> HIDE DEF r
  <2> QED BY <1>1, <1>4, <2>1
<1>6. CheckOK(w)
  BY DEF CheckInv
<1>7. CASE Clean(w)
  <2>1. r.pkt = p
    <3>1. r = TcTransparent(c, p, fault, iv, byte)
      BY DEF PeerRun
    <3> HIDE DEF c, r
    <3> QED BY <1>1, <1>2, <1>7, <3>1, PeerLeavesClean
  <2> HIDE DEF q, r, p
  <2> QED BY <1>1, <1>5, <1>6, <2>1 DEF CheckOK
<1>8. CASE w.hdr.ucheck = "zero"
  <2>1. r.pkt.hdr.ucheck = "zero"
    <3> HIDE DEF c, p, exit, r
    <3> QED BY <1>1, <1>3, <1>4, <1>8, DecryptCheck
  <2> HIDE DEF q, r
  <2> QED BY <1>1, <2>1
<1>9. CASE w.hexit = "check_store"
  <2> HIDE DEF q, r
  <2> QED BY <1>1, <1>5, <1>9
<1> QED BY <1>6, <1>7, <1>8, <1>9 DEF CheckOK

\* Between matched peers no frame in flight or delivered carries a UDP checksum
\* that contradicts its bytes, unless the store that switches it off failed on
\* the host.
THEOREM ChecksumTheorem == Spec => []ChecksumCurrent
<1>1. Init => CheckInv
  BY DEF Init, CheckInv
<1>2. TypeOK /\ DeliveryInv' /\ CheckInv /\ [Next]_vars => CheckInv'
  <2> SUFFICES ASSUME TypeOK, DeliveryInv', CheckInv, [Next]_vars PROVE CheckInv'
    OBVIOUS
  <2>1. CASE TransmitSome
    BY <2>1, TransmitCheck DEF TransmitSome
  <2>2. CASE ReceiveSome
    BY <2>2, ReceiveCheck DEF ReceiveSome
  <2>3. CASE LoseSome \/ UNCHANGED vars
    BY <2>3 DEF LoseSome, Lose, vars, CheckInv, Matched
  <2> QED BY <2>1, <2>2, <2>3 DEF Next
<1>3. CheckInv => ChecksumCurrent
  BY DEF CheckInv, CheckOK, ChecksumCurrent
<1>4. Spec => []DeliveryInv
  BY InitDelivery, NextDelivery, TypeTheorem, PTL DEF Spec
<1> QED BY <1>1, <1>2, <1>3, <1>4, TypeTheorem, PTL DEF Spec

----------------------------------------------------------------------------
(* The events.  Only a run that gets past the kfunc publishes one.          *)

LEMMA HostEvents ==
  ASSUME TypeOK, Matched, NEW m \in Messages, NEW s \in Shapes, NEW fault \in HostFaults,
         NEW iv \in IVs, NEW byte, NEW room,
         NEW e \in Emitted(cfg["host"], Frame(m, s), HostRun(m, s, fault, iv, byte), room)
  PROVE  e.sample = "sealed"
<1> DEFINE c == cfg["host"]
           p == Frame(m, s)
           r == HostRun(m, s, fault, iv, byte)
           exit == EncryptExit(p, fault)
           padded == PaddedBody(p)
<1>1. "crypto_ok" \in r.bumps /\ e.sample = r.pkt.body.form
  <2> HIDE DEF c, p, r
  <2> QED BY DEF Emitted, Event, c, p, r
<1>2. c.action = ENCRYPT /\ fault \in Faults
  BY ConstantsAssumption DEF Matched
<1>3. exit \in EncryptExits
  BY <1>2, EncryptExitType
<1>4. r = TcTransparent(c, p, fault, iv, byte)
  BY DEF HostRun
<1>5. PrefixExit(c, p, fault) = "go" /\ r.pkt = EncryptPkt(c, p, exit, iv)
      /\ "crypto_ok" \in EncryptBumps(exit)
  <2> DEFINE pre == PrefixExit(c, p, fault)
  <2>1. pre # "go" => "crypto_ok" \notin PrefixBumps(pre)
    <3>1. pre \in PrefixExits \union {"go"}
      <4> HIDE DEF c, p
      <4> QED BY DEF PrefixExit, PrefixExits
    <3> HIDE DEF pre
    <3> QED BY <3>1 DEF PrefixExits, PrefixBumps, Bad
  <2> HIDE DEF c, p, r
  <2> QED BY <1>1, <1>2, <1>4, <2>1 DEF TcTransparent
<1>6. exit = "ok"
  <2> HIDE DEF exit
  <2> QED BY <1>3, <1>5 DEF EncryptExits, EncryptBumps, KfuncBumps, Bad, ResizeFaults, KfuncFaults
<1>7. r.pkt.body = Kfunc(ENCRYPT, CBC, c.key, iv, padded)
  <2> HIDE DEF c, p, exit, r
  <2> QED BY <1>5, <1>6 DEF EncryptPkt, Rewritten, ResizeFaults, KfuncFaults, padded
<1>8. padded \in BodyType /\ padded.form = "plain"
  <2>1. p.body \in BodyType /\ p.body.form = "plain"
    BY FrameType, FrameClean, PacketFields DEF Clean
  <2>2. PadLen(PayloadLen(p)) \in 0..BlockBytes
    BY FrameType, PacketFields, PadLenRange DEF BlockBytes
  <2> HIDE DEF p
  <2> QED BY <2>1, <2>2 DEF PaddedBody, BodyType
<1> HIDE DEF padded, r, c, p, exit
<1>9. r.pkt.body = Seal(CBC, c.key, iv, padded)
  BY <1>7, <1>8 DEF Kfunc, KfuncEncrypt, SealedWith
<1>10. Seal(CBC, c.key, iv, padded).form = "sealed"
  BY <1>8 DEF Seal, BodyType
<1> QED BY <1>1, <1>9, <1>10

LEMMA PeerEvents ==
  ASSUME TypeOK, Matched, DeliveryInv, NEW w \in wire, NEW linear \in PeerLinear,
         NEW fault \in PeerFaults, NEW iv, NEW byte, NEW room,
         NEW e \in Emitted(cfg["peer"], Arriving(w, linear),
                           PeerRun(w, linear, fault, iv, byte), room)
  PROVE  e.sample = "plain" \/ e.hexit \in HostMangled
<1> DEFINE c == cfg["peer"]
           p == Arriving(w, linear)
           r == PeerRun(w, linear, fault, iv, byte)
           opened == Decrypted(c, p)
<1>1. "crypto_ok" \in r.bumps /\ e.sample = r.pkt.body.form /\ e.hexit = p.hexit
  <2> HIDE DEF c, p, r
  <2> QED BY DEF Emitted, Event, c, p, r
<1>2. /\ c.action = DECRYPT /\ c.action # ENCRYPT /\ c.key = cfg["host"].key
      /\ fault \in Faults /\ c \in ConfigType /\ w \in PacketType /\ linear \in BOOLEAN
  BY ConstantsAssumption DEF Matched, TypeOK, Sides, ENCRYPT, DECRYPT
<1>3. p.hexit = w.hexit /\ p \in PacketType
  BY <1>2, ArrivingFacts, ArrivingType
<1>4. r = TcTransparent(c, p, fault, iv, byte)
  BY DEF PeerRun
<1> DEFINE exit == DecryptExit(c, p, fault, byte)
<1>5. r.pkt = DecryptPkt(c, p, exit, byte) /\ "crypto_ok" \in DecryptBumps(exit)
  <2> DEFINE pre == PrefixExit(c, p, fault)
  <2>1. pre # "go" => "crypto_ok" \notin PrefixBumps(pre)
    <3>1. pre \in PrefixExits \union {"go"}
      <4> HIDE DEF c, p
      <4> QED BY DEF PrefixExit, PrefixExits
    <3> HIDE DEF pre
    <3> QED BY <3>1 DEF PrefixExits, PrefixBumps, Bad
  <2> HIDE DEF c, p, r
  <2> QED BY <1>1, <1>2, <1>4, <2>1 DEF TcTransparent
<1>6. exit \in ResizeFaults \union {"bad_pad", "pad_load", "change_tail", "ok"}
  <2>1. exit \in DecryptExits
    BY <1>2, <1>3, DecryptExitType
  <2> HIDE DEF exit
  <2> QED BY <1>5, <2>1 DEF DecryptExits, DecryptBumps, KfuncBumps, Bad, ResizeFaults, KfuncFaults
<1>7. CASE w.hexit \in HostMangled
  BY <1>1, <1>3, <1>7
<1>8. CASE Clean(w)
  <2>1. exit \in {"dec_short", "hdr_load", "bad_magic"}
    <3> HIDE DEF c
    <3> QED BY <1>2, <1>8, CleanExits
  <2> HIDE DEF exit
  <2> QED BY <1>6, <2>1 DEF ResizeFaults
<1>9. CASE SealedFor(cfg["host"], w)
  <2>1. opened.form = "plain" /\ opened \in BodyType
    <3> HIDE DEF c
    <3> QED BY <1>2, <1>9, SealedOpens
  <2>2. r.pkt.body \in {opened, [opened EXCEPT !.pad = 0]}
    <3> HIDE DEF exit, c, p, r
    <3> QED BY <1>5, <1>6 DEF DecryptPkt, Rewritten, ResizeFaults, KfuncFaults, opened
  <2> HIDE DEF opened, r
  <2>3. [opened EXCEPT !.pad = 0].form = "plain"
    BY <2>1 DEF BodyType
  <2> QED BY <1>1, <2>1, <2>2, <2>3
<1> QED BY <1>7, <1>8, <1>9 DEF DeliveryInv, FrameOK

\* What recording a run adds to the events.
LEMMA RecordEvents ==
  ASSUME TypeOK, NEW side \in Sides, NEW p, NEW r, NEW room, Record(side, p, r, room)
  PROVE  /\ events'[side] = events[side] \union Emitted(cfg[side], p, r, room)
         /\ \A o \in Sides \ {side} : events'[o] = events[o]
BY DEF Record, TypeOK

\* Between matched peers every event the host publishes samples ciphertext and
\* every event the peer publishes samples text, unless the host gave up on the
\* frame after repairing its lengths.
THEOREM EventsTheorem == Spec => []EventsMatchPackets
<1>1. Init => EventsMatchPackets
  BY DEF Init, EventsMatchPackets, Sides
<1>2. TypeOK /\ DeliveryInv /\ EventsMatchPackets /\ [Next]_vars => EventsMatchPackets'
  <2> SUFFICES ASSUME TypeOK, DeliveryInv, EventsMatchPackets, [Next]_vars, Matched'
               PROVE  /\ \A e \in events'["host"] : e.sample = "sealed"
                      /\ \A e \in events'["peer"] : e.sample = "plain" \/ e.hexit \in HostMangled
    BY DEF EventsMatchPackets
  <2>1. cfg' = cfg /\ Matched
    <3>1. CASE TransmitSome
      BY <3>1 DEF TransmitSome, Transmit, Matched
    <3>2. CASE ReceiveSome
      BY <3>2 DEF ReceiveSome, Receive, Matched
    <3>3. CASE LoseSome \/ UNCHANGED vars
      BY <3>3 DEF LoseSome, Lose, vars, Matched
    <3> QED BY <3>1, <3>2, <3>3 DEF Next
  <2>2. CASE TransmitSome
    <3>1. PICK m \in Messages, s \in Shapes, fault \in HostFaults, iv \in IVs,
               byte \in PadBytes, room \in BOOLEAN : Transmit(m, s, fault, iv, byte, room)
      BY <2>2 DEF TransmitSome
    <3>2. Record("host", Frame(m, s), HostRun(m, s, fault, iv, byte), room)
      BY <3>1 DEF Transmit, HostRun
    <3>3. /\ events'["host"] = events["host"]
               \union Emitted(cfg["host"], Frame(m, s), HostRun(m, s, fault, iv, byte), room)
          /\ events'["peer"] = events["peer"]
      BY <3>2, RecordEvents DEF Sides
    <3> QED BY <2>1, <3>3, HostEvents DEF EventsMatchPackets
  <2>3. CASE ReceiveSome
    <3>1. PICK w \in wire, linear \in PeerLinear, fault \in PeerFaults, iv \in IVs,
               byte \in PadBytes, room \in BOOLEAN, again \in BOOLEAN :
                 Receive(w, linear, fault, iv, byte, room, again)
      BY <2>3 DEF ReceiveSome
    <3>2. Record("peer", Arriving(w, linear), PeerRun(w, linear, fault, iv, byte), room)
      BY <3>1 DEF Receive, PeerRun
    <3>3. /\ events'["peer"] = events["peer"]
               \union Emitted(cfg["peer"], Arriving(w, linear),
                              PeerRun(w, linear, fault, iv, byte), room)
          /\ events'["host"] = events["host"]
      BY <3>2, RecordEvents DEF Sides
    <3> QED BY <2>1, <3>3, PeerEvents DEF EventsMatchPackets
  <2>4. CASE LoseSome \/ UNCHANGED vars
    BY <2>1, <2>4 DEF LoseSome, Lose, vars, EventsMatchPackets
  <2> QED BY <2>2, <2>3, <2>4 DEF Next
<1>3. Spec => []DeliveryInv
  BY InitDelivery, NextDelivery, TypeTheorem, PTL DEF Spec
<1> QED BY <1>1, <1>2, <1>3, TypeTheorem, PTL DEF Spec

----------------------------------------------------------------------------
(* The round trip.  DeliveredIntact holds of hooks that do nothing at all;   *)
(* these theorems say that they do what they are for.                        *)

\* Two configurations that belong together.
Peers(h, c) ==
  /\ h \in ConfigType /\ h.action = ENCRYPT /\ h.algo = CBC
  /\ c \in ConfigType /\ c.action = DECRYPT /\ c.algo = CBC
  /\ c.key = h.key /\ c.port = h.port

\* A frame with UDP payload for the port, in the memory the driver gives it.
Meant(s, port) ==
  /\ s \in Shapes /\ s.proto = "ip" /\ s.ihl = 5 /\ ~s.frag /\ s.l4 = "udp"
  /\ s.dport = port /\ s.linear

Fits(m) == m \in Messages /\ 1 <= m.len /\ m.len <= MaxTransparentPayload

\* The host's run on the frame of a message and the peer's run on what it left,
\* with no helper failing on either side.
SealRun(h, m, s, iv, byte) == TcTransparent(h, Frame(m, s), "none", iv, byte)
OpenRun(c, w, iv, byte) == TcTransparent(c, Arriving(w, TRUE), "none", iv, byte)

\* Neither hook mangled or refused the frame on the way out.
Launched(w) == w.hdr.icheck = TRUE /\ w.hdr.ucheck = "zero" /\ w.hexit = "none" /\ w.pexit = "none"

\* The frame a stack builds for msg in this shape, but with the UDP checksum off.
Rebuilt(shape, msg) ==
  [shape |-> shape,
   skb |-> [lin |-> msg.len + 42, len |-> msg.len + 42],
   hdr |-> [ip_len |-> msg.len + 28, icheck |-> TRUE, udp_len |-> msg.len + 8,
            ucheck |-> "zero"],
   body |-> Plain(msg), tail |-> NoTail, hexit |-> "none", pexit |-> "none"]

LEMMA HostFrame ==
  ASSUME NEW m \in Messages, NEW s \in Shapes, s.ihl = 5, s.linear
  PROVE  /\ Frame(m, s).hdr = [ip_len |-> m.len + 28, icheck |-> TRUE,
                               udp_len |-> m.len + 8, ucheck |-> "sum"]
         /\ Frame(m, s).skb = [lin |-> m.len + 42, len |-> m.len + 42]
         /\ m.len \in Nat
<1> DEFINE n == m.len
<1>1. n \in Nat
  BY FrameFacts
<1> HIDE DEF n
<1>2. 4 * s.ihl + UdpBytes + n = n + 28 /\ UdpBytes + n = n + 8
      /\ EthBytes + (4 * s.ihl + UdpBytes + n) = n + 42
  BY <1>1 DEF UdpBytes, EthBytes
<1> QED BY <1>1, <1>2 DEF Frame, n

LEMMA HostPrefix ==
  ASSUME NEW h \in ConfigType, h.algo = CBC, h.action = ENCRYPT,
         NEW m \in Messages, NEW s \in Shapes, Meant(s, h.port)
  PROVE  PrefixExit(h, Frame(m, s), "none") = "go"
<1> DEFINE p == Frame(m, s)
           n == m.len
<1>1. s.ihl = 5 /\ s.linear /\ p.shape = s
  BY DEF Meant, Frame
<1>2. n \in Nat /\ p.skb.lin = n + 42 /\ p.hdr.udp_len = n + 8
  <2>1. /\ p.hdr = [ip_len |-> n + 28, icheck |-> TRUE, udp_len |-> n + 8, ucheck |-> "sum"]
        /\ p.skb = [lin |-> n + 42, len |-> n + 42] /\ n \in Nat
    BY <1>1, HostFrame
  <2> HIDE DEF p, n
  <2> QED BY <2>1
<1> HIDE DEF n, p
<1>3. L4Off(p) = 34 /\ PayloadOff(p) = 42 /\ PayloadLen(p) = n
  BY <1>1, <1>2 DEF Meant, L4Off, PayloadOff, PayloadLen, EthBytes, UdpBytes
<1>4. /\ p.shape.proto = "ip" /\ p.shape.ihl = 5 /\ ~p.shape.frag
      /\ p.shape.l4 = "udp" /\ p.shape.dport = h.port
      /\ h.algo = CBC /\ h.action \in Actions
  BY <1>1 DEF Meant, Actions
<1>5. PrefixExit(h, p, "none") = "go"
  BY <1>2, <1>3, <1>4 DEF PrefixExit, EthBytes, IpBytes, UdpBytes
<1> QED BY <1>5 DEF p

\* The host seals every message that fits, whatever its length.
LEMMA HostSeals ==
  ASSUME Mtu >= 1500, NEW h \in ConfigType, h.algo = CBC, h.action = ENCRYPT,
         NEW m \in Messages, Fits(m), NEW s \in Shapes, Meant(s, h.port),
         NEW iv \in IVs, NEW byte \in PadBytes
  PROVE  /\ SealRun(h, m, s, iv, byte).exit = "ok"
         /\ SealRun(h, m, s, iv, byte).pkt \in PacketType
         /\ SealedFor(h, SealRun(h, m, s, iv, byte).pkt)
         /\ SealedWith(SealRun(h, m, s, iv, byte).pkt.body, CBC, h.key, iv)
         /\ SealRun(h, m, s, iv, byte).pkt.body.msg = m
         /\ SealRun(h, m, s, iv, byte).pkt.shape = s
         /\ Launched(SealRun(h, m, s, iv, byte).pkt)
<1> DEFINE p == Frame(m, s)
           r == TcTransparent(h, p, "none", iv, byte)
           n == PayloadLen(p)
           q == EncryptPkt(h, p, "ok", iv)
<1>1. m \in Messages /\ s \in Shapes /\ h \in ConfigType /\ "none" \in Faults
      /\ m.len # 0 /\ ~TooLong(m.len) /\ s.ihl = 5 /\ h.action = ENCRYPT
  <2>1. m \in Messages /\ s \in Shapes
    BY DEF Fits, Meant
  <2>2. m.len \in Nat
    BY <2>1, FrameFacts
  <2>3. m.len # 0 /\ ~TooLong(m.len)
    BY <2>2 DEF Fits, TooLong, MaxTransparentPayload
  <2> QED BY <2>1, <2>3 DEF Meant, Faults
<1>2. n = m.len /\ n \in Nat /\ p.shape = s /\ p.body = Plain(m) /\ p \in PacketType
      /\ p.skb.lin <= p.skb.len /\ p.hexit = "none" /\ p.pexit = "none"
  BY <1>1, FrameFacts, FrameType DEF Frame
<1>3. PrefixExit(h, p, "none") = "go" /\ p.hdr.icheck = TRUE
  <2>1. PrefixExit(h, p, "none") = "go"
    BY <1>1, HostPrefix
  <2>2. p.hdr.icheck = TRUE
    BY DEF Frame
  <2> QED BY <2>1, <2>2
<1> HIDE DEF p
<1>4. EncryptExit(p, "none") = "ok"
  <2>1. ~GrowthRefused(p, PadLen(n) + HdrBytes)
    BY <1>1, <1>2, AcceptedFits DEF p
  <2>2. Aligned(n + PadLen(n))
    BY <1>2, PadLenRange
  <2>3. n # 0 /\ ~TooLong(n)
    BY <1>1, <1>2
  <2> HIDE DEF n
  <2>4. "none" \notin {"pad_store", "hdr_store"} \union ResizeFaults
        /\ "none" \notin KfuncFaults \union {"iv_store"} /\ "none" # "change_tail"
    BY DEF ResizeFaults, KfuncFaults
  <2> QED BY <2>1, <2>2, <2>3, <2>4 DEF EncryptExit, n
<1>5. r.exit = "ok" /\ r.pkt = q
  BY <1>1, <1>3, <1>4 DEF TcTransparent
<1>6. r.pkt \in PacketType
  BY <1>1, <1>2, RunType
<1>7. \E ip, udp, len, tail :
        q = Rewritten(p, Resized(len),
                      UpdateLengths(p.hdr, ip, udp, "ok"),
                      Kfunc(ENCRYPT, CBC, h.key, iv, PaddedBody(p)), tail)
  BY DEF EncryptPkt, ResizeFaults, KfuncFaults
<1>8. PICK ip, udp, len, tail :
        q = Rewritten(p, Resized(len),
                      UpdateLengths(p.hdr, ip, udp, "ok"),
                      Kfunc(ENCRYPT, CBC, h.key, iv, PaddedBody(p)), tail)
  BY <1>7
<1>9. q.hdr.icheck = TRUE /\ q.hdr.ucheck = "zero"
  <2>1. q.hdr = UpdateLengths(p.hdr, ip, udp, "ok")
    BY <1>8 DEF Rewritten
  <2>2. UpdateLengths(p.hdr, ip, udp, "ok") =
          [ip_len |-> ip, icheck |-> p.hdr.icheck, udp_len |-> udp, ucheck |-> "zero"]
    BY DEF UpdateLengths
  <2> QED BY <1>3, <2>1, <2>2
<1>10. q.shape = s /\ q.hexit = "none" /\ q.pexit = "none"
  BY <1>2, <1>8 DEF Rewritten
<1>11. q.body.form = "sealed" /\ SealedWith(q.body, CBC, h.key, iv)
  <2>1. q.body = Kfunc(ENCRYPT, CBC, h.key, iv, PaddedBody(p))
    BY <1>8 DEF Rewritten
  <2>2. PaddedBody(p) \in BodyType /\ PaddedBody(p).form = "plain"
    <3>1. PadLen(n) \in 0..BlockBytes
      BY <1>2, PadLenRange DEF BlockBytes
    <3>2. p.body \in BodyType /\ p.body.form = "plain"
      BY <1>2, PacketFields DEF Plain
    <3> HIDE DEF n
    <3>3. [p.body EXCEPT !.pad = PadLen(n)] \in BodyType
      BY <3>1, <3>2 DEF BodyType
    <3> QED BY <3>2, <3>3 DEF PaddedBody, n, BodyType
  <2> DEFINE b == PaddedBody(p)
  <2> HIDE DEF b
  <2>3. Kfunc(ENCRYPT, CBC, h.key, iv, b) = Seal(CBC, h.key, iv, b)
    BY <2>2 DEF Kfunc, KfuncEncrypt, b, CBC, CHACHA
  <2>4. LET x == Seal(CBC, h.key, iv, b)
        IN  x.form = "sealed" /\ SealedWith(x, CBC, h.key, iv)
    BY <2>2 DEF Seal, SealedWith, BodyType, b
  <2> QED BY <2>1, <2>3, <2>4 DEF b
<1>12. q.body.msg = m
  <2>1. q.body.msg = p.body.msg
    BY <1>2, EncryptMessage DEF EncryptExits
  <2> QED BY <1>2, <2>1 DEF Plain
<1>13. FrameOK(h, q, "ok")
  BY <1>1, <1>3, <1>4, EncryptFrame DEF p
<1>14. SealedFor(h, q)
  BY <1>11, <1>13 DEF FrameOK, Clean, HostMangled, KfuncFaults
<1>15. SealRun(h, m, s, iv, byte) = r
  BY DEF SealRun, p
<1>16. Launched(q)
  BY <1>9, <1>10 DEF Launched
<1> HIDE DEF r, q
<1> QED BY <1>5, <1>6, <1>10, <1>11, <1>12, <1>14, <1>15, <1>16

\* The peer makes of a sealed frame what it was before.
LEMMA PeerRestores ==
  ASSUME NEW h \in ConfigType, NEW c \in ConfigType, Peers(h, c),
         NEW w \in PacketType, SealedFor(h, w), Launched(w), NEW iv, NEW byte
  PROVE  /\ OpenRun(c, w, iv, byte).exit = "ok"
         /\ OpenRun(c, w, iv, byte).pkt = Rebuilt(w.shape, w.body.msg)
<1> DEFINE p == Arriving(w, TRUE)
           len == w.body.msg.len
           n == PayloadLen(p)
           pad == PadLen(len)
           opened == Decrypted(c, p)
           read == [p.hdr EXCEPT !.ucheck = Outdated(p.hdr.ucheck)]
           r == TcTransparent(c, p, "none", iv, byte)
<1>0. w.hdr.icheck = TRUE /\ w.hdr.ucheck = "zero" /\ w.hexit = "none" /\ w.pexit = "none"
  BY DEF Launched
<1>1. /\ p.shape = w.shape /\ p.hdr = w.hdr /\ p.body = w.body /\ p.tail = w.tail
      /\ p.skb.len = w.skb.len /\ p.hexit = w.hexit
      /\ PayloadOff(p) = PayloadOff(w) /\ PayloadLen(p) = PayloadLen(w)
  BY ArrivingFacts
<1>2. p.skb.lin = w.skb.len /\ p.pexit = w.pexit
  BY DEF Arriving, PacketType
<1>3. len \in Nat /\ 1 <= len /\ pad \in 1..16
  <2>1. w.body.msg \in Messages
    BY PacketFields DEF BodyType
  <2>2. len \in Lens
    BY <2>1 DEF Messages
  <2>3. len \in Nat /\ 1 <= len
    BY <2>2, ConstantsAssumption DEF SealedFor
  <2> QED BY <2>3, PadLenRange DEF BlockBytes
<1>4. /\ n = len + pad + 24 /\ w.hdr.udp_len = len + pad + 32
      /\ w.hdr.ip_len = len + pad + 52 /\ w.skb.len = len + pad + 66
  <2>1. /\ w.hdr.udp_len = UdpBytes + (len + pad + HdrBytes)
        /\ w.hdr.ip_len = IpBytes + w.hdr.udp_len /\ w.skb.len = EthBytes + w.hdr.ip_len
    BY DEF SealedFor
  <2>2. n = w.hdr.udp_len - UdpBytes
    BY <1>1 DEF PayloadLen
  <2> HIDE DEF n, len, pad
  <2> QED BY <1>3, <2>1, <2>2 DEF UdpBytes, IpBytes, EthBytes, HdrBytes
<1>5. /\ opened.form = "plain" /\ opened.msg = w.body.msg /\ opened.pad = pad
      /\ opened \in BodyType
  <2>1. c.key = h.key
    BY DEF Peers
  <2> DEFINE linear == TRUE
             o == Decrypted(c, Arriving(w, linear))
  <2> HIDE DEF linear
  <2>2. o.form = "plain" /\ o.msg = w.body.msg /\ o.pad = PadLen(w.body.msg.len) /\ o \in BodyType
    BY <2>1, SealedOpens
  <2> QED BY <2>2 DEF linear
<1>6. PadByte(opened, byte) = pad
  <2> HIDE DEF opened, pad
  <2> QED BY <1>3, <1>5 DEF PadByte
<1>7. PrefixExit(c, p, "none") = "go"
  <2>1. /\ p.shape.proto = "ip" /\ p.shape.ihl = 5 /\ ~p.shape.frag
        /\ p.shape.l4 = "udp" /\ p.shape.dport = c.port
        /\ c.algo = CBC /\ c.action \in Actions
    BY <1>1 DEF SealedFor, Peers, Actions
  <2> HIDE DEF p, len, pad, n
  <2>2. L4Off(p) = 34 /\ PayloadOff(p) = 42
    BY <2>1 DEF L4Off, PayloadOff, EthBytes, UdpBytes
  <2>3. /\ p.skb.lin = len + pad + 66 /\ p.hdr.udp_len = len + pad + 32
        /\ PayloadLen(p) = len + pad + 24
    BY <1>1, <1>2, <1>4 DEF n
  <2> QED BY <1>3, <2>1, <2>2, <2>3 DEF PrefixExit, EthBytes, IpBytes, UdpBytes
<1>8. DecryptExit(c, p, "none", byte) = "ok"
  <2>1. n >= HdrBytes /\ n - HdrBytes = len + pad /\ n - HdrBytes # 0 /\ ~(n < HdrBytes)
    <3> HIDE DEF n, len, pad
    <3> QED BY <1>3, <1>4 DEF HdrBytes
  <2>2. TrailerAt(p, n - HdrBytes) /\ p.tail.payload_len = n - HdrBytes
    BY <1>1, <2>1 DEF TrailerAt, SealedFor
  <2>3. Aligned(n - HdrBytes)
    BY <1>3, <2>1, PadLenRange
  <2>4. ~PadRefused(PadByte(opened, byte), n - HdrBytes)
    <3> HIDE DEF n, len, pad, opened
    <3> QED BY <1>3, <1>6, <2>1 DEF PadRefused, BlockBytes
  <2>5. ~(p.hdr.ip_len < pad + HdrBytes \/ p.hdr.udp_len < pad + HdrBytes)
    <3>1. p.hdr.ip_len = len + pad + 52 /\ p.hdr.udp_len = len + pad + 32
      BY <1>1, <1>4
    <3> HIDE DEF len, pad, p
    <3> QED BY <1>3, <3>1 DEF HdrBytes
  <2>6. "none" \notin KfuncFaults \union {"pad_load"} /\ "none" \notin ResizeFaults
    BY DEF KfuncFaults, ResizeFaults
  <2> HIDE DEF p, pad
  <2> QED BY <1>6, <2>1, <2>2, <2>3, <2>4, <2>5, <2>6 DEF DecryptExit
<1>9. r.exit = "ok" /\ r.pkt = DecryptPkt(c, p, "ok", byte)
  <2>1. c.action # ENCRYPT
    BY DEF Peers, ENCRYPT, DECRYPT
  <2> HIDE DEF p
  <2> QED BY <1>7, <1>8, <2>1 DEF TcTransparent
<1> DEFINE delta == PadByte(opened, byte) + HdrBytes
           ip == p.hdr.ip_len - delta
           udp == p.hdr.udp_len - delta
           hdr == UpdateLengths(read, ip, udp, "ok")
<1>10. r.pkt = Rewritten(p, Resized(p.skb.len - delta), hdr, [opened EXCEPT !.pad = 0], NoTail)
  <2> HIDE DEF p
  <2> QED BY <1>9 DEF DecryptPkt, ResizeFaults, KfuncFaults
<1>11. p.skb.len - delta = len + 42 /\ ip = len + 28 /\ udp = len + 8
  <2>1. delta = pad + 24
    BY <1>6 DEF HdrBytes
  <2>2. p.skb.len = len + pad + 66 /\ p.hdr.ip_len = len + pad + 52
        /\ p.hdr.udp_len = len + pad + 32
    BY <1>1, <1>4
  <2> HIDE DEF delta, len, pad, p
  <2> QED BY <1>3, <2>1, <2>2
<1>12. hdr = [ip_len |-> len + 28, icheck |-> TRUE, udp_len |-> len + 8, ucheck |-> "zero"]
  <2>1. read.icheck = TRUE
    <3>1. p.hdr \in HdrType /\ p.hdr.icheck = TRUE
      BY <1>0, <1>1, PacketFields DEF HdrType
    <3> HIDE DEF p
    <3> QED BY <3>1 DEF HdrType
  <2> HIDE DEF read, ip, udp, len
  <2>2. hdr = [ip_len |-> ip, icheck |-> read.icheck, udp_len |-> udp, ucheck |-> "zero"]
    BY <1>0, <1>1 DEF UpdateLengths, Outdated, read
  <2> QED BY <1>11, <2>1, <2>2
<1>13. [opened EXCEPT !.pad = 0] = Plain(w.body.msg)
  <2>1. opened = Open(p.body)
    <3>1. SealedWith(p.body, CBC, c.key, p.tail.iv)
      BY <1>1 DEF SealedFor, Peers
    <3>2. opened = KfuncDecrypt(CBC, c.key, p.tail.iv, p.body)
      BY DEF Decrypted, Kfunc, ENCRYPT, DECRYPT
    <3> HIDE DEF p, opened
    <3> QED BY <3>1, <3>2 DEF KfuncDecrypt, SealedWith
  <2>2. p.body \in BodyType /\ p.body.msg = w.body.msg
    BY <1>1, PacketFields
  <2> DEFINE b == p.body
  <2>3. b = [form |-> b.form, msg |-> b.msg, pad |-> b.pad, algo |-> b.algo,
             key |-> b.key, iv |-> b.iv]
    <3> HIDE DEF p
    <3> QED BY <2>2 DEF BodyType
  <2>4. b.msg = w.body.msg /\ opened = Open(b)
    BY <2>1, <2>2
  <2> HIDE DEF b, opened
  <2>5. opened = [form |-> "plain", msg |-> b.msg, pad |-> b.pad, algo |-> CBC,
                  key |-> NoKey, iv |-> NoIv]
    BY <2>3, <2>4 DEF Open
  <2> QED BY <2>4, <2>5 DEF Plain
<1>14. Resized(p.skb.len - delta) = [lin |-> len + 42, len |-> len + 42]
  <2> HIDE DEF p, delta, len
  <2> QED BY <1>11 DEF Resized
<1> HIDE DEF p, hdr, opened, delta, len, r
<1>15. r.pkt = [shape |-> p.shape, skb |-> [lin |-> len + 42, len |-> len + 42],
                hdr |-> hdr, body |-> Plain(w.body.msg), tail |-> NoTail,
                hexit |-> p.hexit, pexit |-> p.pexit]
  BY <1>10, <1>13, <1>14 DEF Rewritten
<1>16. p.shape = w.shape /\ p.hexit = "none" /\ p.pexit = "none" /\ r.exit = "ok"
  BY <1>0, <1>1, <1>2, <1>9 DEF r
<1>17. r.pkt = [shape |-> w.shape, skb |-> [lin |-> len + 42, len |-> len + 42],
                hdr |-> [ip_len |-> len + 28, icheck |-> TRUE,
                         udp_len |-> len + 8, ucheck |-> "zero"],
                body |-> Plain(w.body.msg), tail |-> NoTail,
                hexit |-> "none", pexit |-> "none"]
  BY <1>12, <1>15, <1>16
<1>18. OpenRun(c, w, iv, byte) = r
  BY DEF OpenRun, p, r
<1> QED BY <1>16, <1>17, <1>18 DEF len, Rebuilt

\* A message of any length the limit accepts makes the round trip: the host
\* seals it, and when no helper fails the frame the peer's stack gets is the
\* frame the host's stack built, byte for byte and length for length, but for
\* the UDP checksum, which is switched off.
THEOREM RoundTripTheorem ==
  ASSUME Mtu >= 1500, NEW h \in ConfigType, NEW c \in ConfigType, Peers(h, c),
         NEW m \in Messages, Fits(m), NEW s \in Shapes, Meant(s, h.port),
         NEW iv \in IVs, NEW byte \in PadBytes, NEW iv2, NEW byte2
  PROVE  LET out == SealRun(h, m, s, iv, byte)
             back == OpenRun(c, out.pkt, iv2, byte2)
         IN  /\ out.exit = "ok" /\ SealedWith(out.pkt.body, CBC, h.key, iv)
             /\ back.exit = "ok" /\ Deliverable(back.pkt)
             /\ back.pkt = [Frame(m, s) EXCEPT !.hdr.ucheck = "zero"]
<1> DEFINE p == Frame(m, s)
           out == SealRun(h, m, s, iv, byte)
           w == out.pkt
           back == OpenRun(c, w, iv2, byte2)
<1>1. /\ out.exit = "ok" /\ w \in PacketType /\ SealedFor(h, w)
      /\ SealedWith(w.body, CBC, h.key, iv) /\ w.body.msg = m
      /\ w.shape = s /\ Launched(w)
  <2>1. h.algo = CBC /\ h.action = ENCRYPT
    BY DEF Peers
  <2> QED BY <2>1, HostSeals
<1>2. /\ p.hdr = [ip_len |-> m.len + 28, icheck |-> TRUE, udp_len |-> m.len + 8,
                  ucheck |-> "sum"]
      /\ p.skb = [lin |-> m.len + 42, len |-> m.len + 42] /\ m.len \in Nat
  BY HostFrame DEF Meant
<1>3. p.shape = s /\ p.body = Plain(m) /\ p.tail = NoTail
      /\ p.hexit = "none" /\ p.pexit = "none"
  BY DEF Frame
<1> HIDE DEF out, w
<1>4. back.exit = "ok" /\ back.pkt = Rebuilt(s, m)
  BY <1>1, PeerRestores
<1> HIDE DEF back
<1>5. Deliverable(back.pkt)
  BY <1>2, <1>4 DEF Rebuilt, Deliverable, Meant, EthBytes
<1>6. back.pkt = [p EXCEPT !.hdr.ucheck = "zero"]
  <2> DEFINE skb == p.skb
             ip == m.len + 28
             udp == m.len + 8
             ok == TRUE
             hdr == [ip_len |-> ip, icheck |-> ok, udp_len |-> udp, ucheck |-> "sum"]
             new == [ip_len |-> ip, icheck |-> ok, udp_len |-> udp, ucheck |-> "zero"]
             body == Plain(m)
  <2>1. p = [shape |-> s, skb |-> skb, hdr |-> hdr, body |-> body, tail |-> NoTail,
             hexit |-> "none", pexit |-> "none"]
    <3>1. p = [shape |-> p.shape, skb |-> p.skb, hdr |-> p.hdr, body |-> p.body,
               tail |-> p.tail, hexit |-> p.hexit, pexit |-> p.pexit]
      BY DEF Frame
    <3> HIDE DEF p
    <3>2. p.hdr = hdr
      BY <1>2
    <3> HIDE DEF hdr, new, body
    <3> QED BY <1>3, <3>1, <3>2 DEF body
  <2>2. back.pkt = [shape |-> s, skb |-> skb, hdr |-> new, body |-> body, tail |-> NoTail,
                    hexit |-> "none", pexit |-> "none"]
    <3>1. skb = [lin |-> m.len + 42, len |-> m.len + 42]
      BY <1>2
    <3> HIDE DEF p, skb
    <3> QED BY <1>4, <3>1 DEF Rebuilt
  <2> HIDE DEF p, skb, ip, udp, body, ok
  <2>3. [hdr EXCEPT !.ucheck = "zero"] = new
    OBVIOUS
  <2> HIDE DEF hdr, new
  <2>4. p.hdr = hdr
    BY <2>1
  <2>5. [p EXCEPT !.hdr = new] = back.pkt
    BY <2>1, <2>2
  <2>6. [p EXCEPT !.hdr.ucheck = "zero"] = [p EXCEPT !.hdr = [p.hdr EXCEPT !.ucheck = "zero"]]
    OBVIOUS
  <2> QED BY <2>3, <2>4, <2>5, <2>6
<1> QED BY <1>1, <1>4, <1>5, <1>6 DEF w, out, back, p
====
