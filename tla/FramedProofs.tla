---------------------------- MODULE FramedProofs ----------------------------
(***************************************************************************)
(* Theorems about Framed, for every value of its constants: the counters   *)
(* add up exactly, no frame of the senders is malformed to anyone, the     *)
(* server prints what the client sent, and as long as the counters show    *)
(* nothing but successes nothing else has happened.                        *)
(***************************************************************************)
EXTENDS Framed, TLAPS

----------------------------------------------------------------------------
(* The exits of one run. *)

LEMMA ExitType ==
  ASSUME NEW hook, NEW c, NEW p, NEW fault \in FaultPoints
  PROVE  Exit(hook, c, p, fault) \in Exits
<1>1. /\ CheckIp(p) \in {"go", "bad_eth", "passed", "bad_ip"}
      /\ CheckFragment(p) \in {"go", "bad_ip"}
      /\ CheckUdp(p, fault) \in {"go", "passed", "bad_udp", "no_config"}
      /\ CheckAlgo(c) \in {"go", "passed"}
      /\ CheckPayload(c, p) \in {"go", "passed", "bad_udp", "bad_length"}
      /\ CheckMagic(p) \in {"go", "bad_magic"}
      /\ CheckAction(p) \in {"go", "bad_magic"}
      /\ CheckLength(p) \in {"go", "bad_length"}
      /\ CheckAlignment(c, p) \in {"go", "bad_alignment"}
  BY DEF CheckIp, CheckFragment, CheckUdp, CheckAlgo, CheckPayload, CheckMagic,
         CheckAction, CheckLength, CheckAlignment
<1>2. Crypt(fault) \in Exits
  BY DEF Crypt, FaultPoints, Exits, Reasons
<1>3. TcExit(c, p, fault) \in Exits
  BY <1>1, <1>2 DEF TcExit, Then, Exits, Reasons
<1>4. XdpExit(c, p, fault) \in Exits
  BY <1>1, <1>2 DEF XdpExit, Then, Exits, Reasons
<1> QED BY <1>3, <1>4 DEF Exit

----------------------------------------------------------------------------
(* The counters add up. *)

Exact(s) ==
  /\ s["seen"] = s["passed"] + s["crypto_ok"] + s["crypto_fail"] + s["malformed"]
  /\ s["malformed"] = ReasonTotal(s)

LEMMA CountExact ==
  ASSUME NEW s \in [Counters -> Nat], Exact(s), NEW exit \in Exits
  PROVE  /\ Count(s, Bumps(exit)) \in [Counters -> Nat]
         /\ Exact(Count(s, Bumps(exit)))
<1> DEFINE b == Bumps(exit)
           t == Count(s, b)
           inc(k) == IF k = "seen" \/ k \in b THEN 1 ELSE 0
<1>1. t \in [Counters -> Nat]
  BY DEF Count
<1>2. \A k \in Counters : s[k] \in Nat /\ t[k] \in Nat /\ t[k] = s[k] + inc(k)
  BY <1>1 DEF Count
<1>3. b \in {{"passed"}, {"crypto_ok"}, {"crypto_fail"}} \union {Bad(r) : r \in Reasons}
  BY DEF Bumps, Exits, Reasons
<1> HIDE DEF t, b
<1>4. SUFFICES Exact(t)
  BY <1>1 DEF t, b
<1> USE <1>2 DEF Exact, ReasonTotal, Counters, Reasons
<1>5. CASE b = {"passed"}
  BY <1>5
<1>6. CASE b = {"crypto_ok"}
  BY <1>6
<1>7. CASE b = {"crypto_fail"}
  BY <1>7
<1>8. CASE \E r \in Reasons : b = Bad(r)
  BY <1>8 DEF Bad
<1> QED BY <1>3, <1>5, <1>6, <1>7, <1>8

\* A frame of the benchmark's sender is the client's frame for a text one byte
\* shorter than the body.
LEMMA BenchStep == SendBench => SendChat
<1> SUFFICES ASSUME NEW text \in Data, NEW n \in BenchSizes, NEW iv \in IVs,
                    Send(BenchFrame(text, n, iv, cfg["host"].port), TRUE)
             PROVE  SendChat
  BY DEF SendBench
<1> DEFINE m == [data |-> text, len |-> n - 1]
<1>1. n \in Nat /\ n >= 16 /\ n % 16 = 0 /\ n - 1 \in Lens
  BY FramedAssumption DEF Aligned, BlockBytes
<1>2. PadBody(n - 1) = 1
  BY <1>1 DEF PadBody, BlockBytes
<1>3. (n - 1) + 1 = n /\ m \in Messages /\ m.len = n - 1
  BY <1>1 DEF Messages
<1>4. ChatFrame(m, iv, cfg["host"].port) = BenchFrame(text, n, iv, cfg["host"].port)
  BY <1>1, <1>2, <1>3 DEF ChatFrame, BenchFrame
<1> QED BY <1>3, <1>4 DEF SendChat

StatsInv == stats \in [Sides -> [Counters -> Nat]] /\ \A side \in Sides : Exact(stats[side])

\* The side of a frame in flight is one of the two.
SideInv == \A f \in flight : f.side \in Sides

LEMMA StatsInvariance == Spec => []StatsInv
<1>1. Init => StatsInv /\ SideInv
  BY DEF Init, StatsInv, SideInv, Exact, ReasonTotal, ZeroStats, Counters, Reasons
<1>2. StatsInv /\ SideInv /\ [Next]_vars => StatsInv' /\ SideInv'
  <2> SUFFICES ASSUME StatsInv, SideInv, [Next]_vars
               PROVE  StatsInv' /\ SideInv'
    OBVIOUS
  <2>1. CASE SendChat \/ SendOther
    BY <2>1 DEF SendChat, SendOther, Send, StatsInv, SideInv, Sides
  <2>2. CASE RunSomeHook
    <3>1. PICK f \in flight, fault \in Faults : RunHook(f, fault)
      BY <2>2 DEF RunSomeHook
    <3> DEFINE c == cfg[f.side]
               exit == Exit(Head(f.hooks), c, Seen(f), fault)
    <3>2. exit \in Exits
      BY ExitType, FramedAssumption
    <3>3. /\ stats' = [stats EXCEPT ![f.side] = Count(@, Bumps(exit))]
          /\ flight' = (flight \ {f}) \union {Handled(f, c, exit)}
      BY <3>1 DEF RunHook
    <3> HIDE DEF exit, c
    <3>4. /\ Count(stats[f.side], Bumps(exit)) \in [Counters -> Nat]
          /\ Exact(Count(stats[f.side], Bumps(exit)))
      BY <3>2, CountExact DEF StatsInv, SideInv
    <3>5. StatsInv'
      BY <3>3, <3>4 DEF StatsInv, SideInv
    <3>6. SideInv'
      BY <3>3 DEF SideInv, Handled
    <3> QED BY <3>5, <3>6
  <2>3. CASE ArriveSome \/ LoseSome \/ ReceiveSome
    BY <2>3 DEF ArriveSome, LoseSome, ReceiveSome, Arrive, Lose, Receive, StatsInv, SideInv,
                Sides
  <2>4. CASE UNCHANGED vars
    BY <2>4 DEF vars, StatsInv, SideInv
  <2> QED BY <2>1, <2>2, <2>3, <2>4, BenchStep DEF Next
<1> QED BY <1>1, <1>2, PTL DEF Spec

\* Every packet is counted under one outcome and every malformed one under
\* one reason, for all configurations, hooks, frames and failing helpers.
THEOREM StatsTheorem == Spec => []StatsExact
<1>1. StatsInv => StatsExact
  BY DEF StatsInv, StatsExact, Exact
<1> QED BY <1>1, StatsInvariance, PTL

----------------------------------------------------------------------------
(* Types. *)

LEMMA PadRange ==
  ASSUME NEW n \in Nat
  PROVE  /\ PadBody(n) \in 1..BlockBytes
         /\ n + PadBody(n) \in Nat \ {0} /\ Aligned(n + PadBody(n))
BY DEF PadBody, Aligned, BlockBytes

\* A 16-bit number survives being sent.
LEMMA NtohsHtons ==
  ASSUME NEW n \in Nat, n \div 256 \in Byte
  PROVE  Htons(n) \in Byte \X Byte /\ Ntohs(Htons(n)) = n
<1>1. n % 256 \in Byte
  BY SMT DEF Byte
<1>2. n = 256 * (n \div 256) + (n % 256)
  BY SMT
<1>3. Htons(n) \in Byte \X Byte
  BY <1>1 DEF Htons
<1>4. Htons(n)[1] = n \div 256 /\ Htons(n)[2] = n % 256
  BY DEF Htons
<1> QED BY <1>2, <1>3, <1>4 DEF Ntohs

\* The body of the client's frame is a number of whole blocks that fits 16 bits.
LEMMA ChatBody ==
  ASSUME NEW m \in Messages
  PROVE  LET n == m.len + PadBody(m.len)
         IN  /\ m.len \in Nat /\ PadBody(m.len) \in 1..BlockBytes
             /\ n \in Nat \ {0} /\ n \div 256 \in Byte /\ Aligned(n)
<1> DEFINE n == m.len + PadBody(m.len)
<1>1. m.len \in Nat /\ m.len < 1440
  BY FramedAssumption, SMT DEF Messages
<1>2. PadBody(m.len) \in 1..BlockBytes /\ n \in Nat \ {0} /\ Aligned(n)
  BY <1>1, PadRange
<1>3. n \div 256 \in Byte
  BY <1>1, <1>2, SMT DEF BlockBytes, Byte
<1> QED BY <1>1, <1>2, <1>3

LEMMA ChatType ==
  ASSUME NEW m \in Messages, NEW iv \in IVs, NEW port \in Nat
  PROVE  ChatFrame(m, iv, port) \in PktType
<1> DEFINE p == ChatFrame(m, iv, port)
           n == m.len + PadBody(m.len)
<1>2. n \div 256 \in Byte /\ n \in Nat /\ PadBody(m.len) \in 0..BlockBytes
  BY ChatBody DEF BlockBytes
<1>3. [Plain(m) EXCEPT !.pad = PadBody(m.len)] \in BodyType
  BY <1>2 DEF Plain, BodyType, Algos, CBC
<1>4. UdpShape(port) \in ShapeType
  BY DEF UdpShape, ShapeType
<1> DEFINE h == SentHeader(n, iv)
<1> HIDE DEF n
<1>5. h \in HdrType
  <2>1. Htons(n) \in Byte \X Byte
    BY <1>2, NtohsHtons
  <2> QED BY <2>1 DEF SentHeader, HdrType, Actions, Version
<1>6. EthBytes + IpBytes + UdpBytes + HdrBytes + n \in Nat /\ UdpBytes + HdrBytes + n \in Nat
  BY <1>2 DEF EthBytes, IpBytes, UdpBytes, HdrBytes
<1> HIDE DEF h
<1> QED BY <1>3, <1>4, <1>5, <1>6 DEF ChatFrame, PktType, n, h

LEMMA KfuncType ==
  ASSUME NEW b \in BodyType, NEW key \in Keys, NEW iv \in IVs, NEW action \in Actions,
         NEW algo \in Algos
  PROVE  Kfunc(action, algo, key, iv, b) \in BodyType
<1> USE DEF BodyType, Algos, CBC, CHACHA
<1>1. /\ Seal(algo, key, iv, b) \in BodyType
      /\ Open(b) \in BodyType /\ Junk(b) \in BodyType
  BY DEF Seal, Open, Junk
<1>2. KfuncEncrypt(algo, key, iv, b) \in BodyType
  BY <1>1 DEF KfuncEncrypt
<1>3. KfuncDecrypt(algo, key, iv, b) \in BodyType
  BY <1>1 DEF KfuncDecrypt
<1> QED BY <1>2, <1>3 DEF Kfunc

LEMMA CryptedType ==
  ASSUME NEW c \in ConfigType, NEW p \in PktType
  PROVE  Crypted(c, p) \in PktType
<1>1. /\ p.shape \in ShapeType /\ p.lin \in Nat /\ p.udp_len \in Nat
      /\ p.hdr \in HdrType /\ p.body \in BodyType
  BY DEF PktType
<1>2. c.action \in Actions /\ c.algo \in Algos /\ c.key \in Keys
  BY DEF ConfigType
<1>3. p.hdr.iv \in IVs /\ [p.hdr EXCEPT !.iv = RestoredIv(@)] \in HdrType
  BY <1>1 DEF HdrType, RestoredIv
<1>4. Kfunc(c.action, c.algo, c.key, p.hdr.iv, p.body) \in BodyType
  BY <1>1, <1>2, <1>3, KfuncType
<1> QED BY <1>1, <1>3, <1>4 DEF Crypted, PktType

LEMMA HandledType ==
  ASSUME NEW c \in ConfigType, NEW f \in FrameType, NEW exit \in Exits, f.hooks # <<>>
  PROVE  Handled(f, c, exit) \in FrameType
<1>1. /\ f.pkt \in PktType /\ f.chat \in BOOLEAN /\ f.linear \in BOOLEAN
      /\ f.side \in Sides /\ f.hooks \in HookPaths
      /\ f.exits \in [Sides -> SUBSET Exits] /\ f.oks \in [Sides -> Nat]
  BY DEF FrameType
<1>2. Tail(f.hooks) \in HookPaths
  <2>1. Tail(<<"tc">>) = <<>> /\ Tail(<<"xdp">>) = <<>>
    OBVIOUS
  <2>2. Tail(<<"xdp", "tc">>) = <<"tc">>
    OBVIOUS
  <2> QED BY <1>1, <2>1, <2>2 DEF HookPaths
<1>3. /\ [f.exits EXCEPT ![f.side] = @ \union {exit}] \in [Sides -> SUBSET Exits]
      /\ [f.oks EXCEPT ![f.side] = IF exit = "ok" THEN @ + 1 ELSE @] \in [Sides -> Nat]
  BY <1>1
<1>4. (IF exit = "ok" THEN Crypted(c, f.pkt) ELSE f.pkt) \in PktType
  BY <1>1, CryptedType
<1> QED BY <1>1, <1>2, <1>3, <1>4 DEF Handled, FrameType

\* A body the server parses is at least a block long, so no text is shorter
\* than nothing.
LEMMA TextType ==
  ASSUME NEW p \in PktType, Parses(p)
  PROVE  Text(p) \in [data : Data \union {"unreadable", "malformed"}, len : Nat]
<1>1. p.udp_len \in Nat /\ p.body.pad \in 0..BlockBytes /\ p.body.msg.data \in Data
  BY DEF PktType, BodyType, Messages
<1>2. BodyLen(p) \in Nat /\ BodyLen(p) >= BlockBytes
  BY <1>1 DEF Parses, BodyLen, PayloadLen, UdpBytes, HdrBytes, Aligned, BlockBytes
<1>3. BodyLen(p) - p.body.pad \in Nat
  BY <1>1, <1>2 DEF BlockBytes
<1> QED BY <1>1, <1>3 DEF Text

\* The state keeps its type: every frame keeps an IV its sender chose.
THEOREM TypeTheorem == Spec => []TypeOK
<1>1. Init => TypeOK
  BY FramedAssumption DEF Init, TypeOK, ZeroStats
<1>2. TypeOK /\ StatsInv /\ [Next]_vars => TypeOK'
  <2> SUFFICES ASSUME TypeOK, StatsInv, [Next]_vars PROVE TypeOK'
    OBVIOUS
  <2> USE DEF TypeOK
  <2>1. ASSUME NEW p \in PktType, NEW chat \in BOOLEAN, Send(p, chat)
        PROVE  TypeOK'
    <3>1. [pkt |-> p, chat |-> chat, side |-> "host", linear |-> TRUE, hooks |-> path["host"],
           exits |-> [side \in Sides |-> {}], oks |-> [side \in Sides |-> 0]] \in FrameType
      BY DEF FrameType, Sides
    <3>2. nsent' \in 0..MaxSent
      BY <2>1, FramedAssumption DEF Send
    <3> QED BY <2>1, <3>1, <3>2 DEF Send
  <2>2. CASE SendChat
    <3>1. PICK m \in Messages, iv \in IVs : Send(ChatFrame(m, iv, cfg["host"].port), TRUE)
      BY <2>2 DEF SendChat
    <3>2. cfg["host"].port \in Nat
      BY DEF ConfigType, Sides
    <3>3. ChatFrame(m, iv, cfg["host"].port) \in PktType
      BY <3>2, ChatType
    <3> HIDE DEF TypeOK
    <3> QED BY <2>1, <3>1, <3>3
  <2>3. CASE SendOther
    <3>1. PICK p \in Others : Send(p, FALSE)
      BY <2>3 DEF SendOther
    <3>2. p \in PktType
      BY FramedAssumption
    <3> HIDE DEF TypeOK
    <3> QED BY <2>1, <3>1, <3>2
  <2>4. CASE RunSomeHook
    <3>1. PICK f \in flight, fault \in Faults : RunHook(f, fault)
      BY <2>4 DEF RunSomeHook
    <3> DEFINE c == cfg[f.side]
               exit == Exit(Head(f.hooks), c, Seen(f), fault)
    <3>2. f \in FrameType /\ f.side \in Sides /\ c \in ConfigType
      BY DEF FrameType
    <3>3. exit \in Exits
      BY ExitType, FramedAssumption
    <3>4. /\ stats' = [stats EXCEPT ![f.side] = Count(@, Bumps(exit))]
          /\ flight' = (flight \ {f}) \union {Handled(f, c, exit)}
          /\ UNCHANGED <<cfg, path, nsent, repeats, shown>> /\ f.hooks # <<>>
      BY <3>1 DEF RunHook
    <3> HIDE DEF exit, c
    <3>5. Count(stats[f.side], Bumps(exit)) \in [Counters -> Nat]
      BY <3>2, <3>3, CountExact DEF StatsInv
    <3>6. Handled(f, c, exit) \in FrameType
      BY <3>2, <3>3, <3>4, HandledType
    <3> QED BY <3>4, <3>5, <3>6
  <2>5. CASE ArriveSome
    <3>1. PICK f \in flight, linear \in PeerLinear, again \in BOOLEAN :
            Arrive(f, linear, again)
      BY <2>5 DEF ArriveSome
    <3>2. [pkt |-> f.pkt, chat |-> f.chat, side |-> "peer", linear |-> linear,
           hooks |-> path["peer"], exits |-> f.exits, oks |-> f.oks] \in FrameType
      BY FramedAssumption DEF FrameType, Sides
    <3>3. repeats' \in 0..MaxRepeats
      BY <3>1, FramedAssumption DEF Arrive
    <3> QED BY <3>1, <3>2, <3>3 DEF Arrive
  <2>6. CASE LoseSome
    BY <2>6 DEF LoseSome, Lose
  <2>7. CASE ReceiveSome
    <3>1. PICK f \in flight, chance \in BOOLEAN : Receive(f, chance)
      BY <2>7 DEF ReceiveSome
    <3>2. f.pkt.body.msg \in Messages /\ f.pkt \in PktType
          /\ f.chat \in BOOLEAN /\ f.oks \in [Sides -> Nat]
      BY DEF FrameType, PktType, BodyType
    <3>3. Parses(f.pkt) =>
            Text(f.pkt) \in [data : Data \union {"unreadable", "malformed"}, len : Nat]
      BY <3>2, TextType
    <3>4. Malformed \in [data : Data \union {"unreadable", "malformed"}, len : Nat]
      BY DEF Malformed
    <3> QED BY <3>1, <3>2, <3>3, <3>4 DEF Receive
  <2>8. CASE UNCHANGED vars
    BY <2>8 DEF vars
  <2> QED BY <2>2, <2>3, <2>4, <2>5, <2>6, <2>7, <2>8, BenchStep DEF Next
<1> QED BY <1>1, <1>2, StatsInvariance, PTL DEF Spec

----------------------------------------------------------------------------
(* The client's frames: no hook changes what the header checks look at.     *)

HeaderOK(p) ==
  /\ p.shape = UdpShape(p.shape.dport)
  /\ p.udp_len >= UdpBytes + HdrBytes /\ L4Off(p) + p.udp_len <= p.lin
  /\ p.hdr.magic = "EBAF" /\ p.hdr.version = Version /\ p.hdr.action = ENCRYPT
  /\ Ntohs(p.hdr.payload_len) = BodyLen(p) /\ BodyLen(p) # 0 /\ Aligned(BodyLen(p))

LEMMA ChatHeader ==
  ASSUME NEW m \in Messages, NEW iv \in IVs, NEW port
  PROVE  HeaderOK(ChatFrame(m, iv, port))
<1> DEFINE n == m.len + PadBody(m.len)
<1>1. n \in Nat \ {0} /\ n \div 256 \in Byte /\ Aligned(n)
  BY ChatBody
<1> HIDE DEF n
<1>2. /\ ChatFrame(m, iv, port).shape = UdpShape(port)
      /\ ChatFrame(m, iv, port).lin = EthBytes + IpBytes + UdpBytes + HdrBytes + n
      /\ ChatFrame(m, iv, port).udp_len = UdpBytes + HdrBytes + n
      /\ ChatFrame(m, iv, port).hdr = SentHeader(n, iv)
  BY DEF ChatFrame, n
<1>3. UdpShape(port).dport = port /\ UdpShape(port).ihl = 5
  BY DEF UdpShape
<1>4. /\ SentHeader(n, iv).magic = "EBAF" /\ SentHeader(n, iv).version = Version
      /\ SentHeader(n, iv).action = ENCRYPT /\ Ntohs(SentHeader(n, iv).payload_len) = n
  BY <1>1, NtohsHtons DEF SentHeader
<1> QED BY <1>1, <1>2, <1>3, <1>4 DEF HeaderOK, L4Off, BodyLen, PayloadLen, EthBytes, IpBytes,
                                UdpBytes, HdrBytes

LEMMA CryptedHeader ==
  ASSUME NEW c \in ConfigType, NEW p \in PktType, HeaderOK(p)
  PROVE  HeaderOK(Crypted(c, p)) /\ Crypted(c, p).hdr.iv = p.hdr.iv
<1> DEFINE q == Crypted(c, p)
<1>1. q.shape = p.shape /\ q.lin = p.lin /\ q.udp_len = p.udp_len
  BY DEF Crypted
<1>2. q.hdr = [p.hdr EXCEPT !.iv = RestoredIv(@)]
  BY DEF Crypted
<1>3. p.hdr \in HdrType
  BY DEF PktType
<1>4. q.hdr = p.hdr
  BY <1>2, <1>3 DEF RestoredIv, HdrType
<1> HIDE DEF q
<1> QED BY <1>1, <1>4 DEF HeaderOK, L4Off, BodyLen, PayloadLen, q

\* The exits a frame of the client can take.
ChatExits == {"passed", "ok", "no_config", "no_crypto_ctx", "dynptr", "crypto"}

LEMMA ChatVerdict ==
  ASSUME NEW hook, NEW c, NEW p \in PktType, HeaderOK(p), NEW fault \in FaultPoints
  PROVE  Exit(hook, c, p, fault) \in ChatExits
<1>1. /\ p.shape.proto = "ip" /\ p.shape.ihl = 5 /\ p.shape.frag = FALSE
      /\ p.shape.l4 = "udp"
  BY DEF HeaderOK, UdpShape
<1>2. p.udp_len \in Nat /\ p.lin \in Nat /\ L4Off(p) = 34
  BY <1>1 DEF PktType, L4Off, EthBytes
<1>3. /\ CheckIp(p) = "go" /\ CheckFragment(p) = "go"
      /\ CheckUdp(p, fault) \in {"go", "no_config"}
  BY <1>1, <1>2 DEF CheckIp, CheckFragment, CheckUdp, HeaderOK, EthBytes, IpBytes, UdpBytes,
                    HdrBytes
<1>4. /\ CheckAlgo(c) \in {"go", "passed"} /\ CheckPayload(c, p) \in {"go", "passed"}
      /\ CheckMagic(p) = "go" /\ CheckAction(p) = "go"
      /\ CheckLength(p) = "go" /\ CheckAlignment(c, p) = "go"
  BY <1>2 DEF CheckAlgo, CheckPayload, CheckMagic, CheckAction, CheckLength, CheckAlignment,
              HeaderOK, PayloadLen, UdpBytes, HdrBytes, Htonl, Magic
<1>5. Crypt(fault) \in ChatExits
  BY DEF Crypt, FaultPoints, ChatExits
<1>6. TcExit(c, p, fault) \in ChatExits /\ XdpExit(c, p, fault) \in ChatExits
  BY <1>3, <1>4, <1>5 DEF TcExit, XdpExit, Then, ChatExits
<1> QED BY <1>6 DEF Exit

\* What a hook finds of such a frame it can only find too short, and only the
\* TC hook, on an skb whose payload is elsewhere.
LEMMA SeenVerdict ==
  ASSUME NEW f \in FrameType, HeaderOK(f.pkt), NEW c, NEW fault \in FaultPoints
  PROVE  Exit(Head(f.hooks), c, Seen(f), fault) \in
           ChatExits \union (IF Head(f.hooks) = "tc" /\ ~f.linear THEN {"bad_udp"} ELSE {})
<1> DEFINE p == f.pkt
           q == Seen(f)
<1>1. p \in PktType
  BY DEF FrameType
<1>2. CASE q = p
  BY <1>1, <1>2, ChatVerdict
<1>3. CASE q # p
  <2>1. Head(f.hooks) = "tc" /\ ~f.linear /\ q = [p EXCEPT !.lin = L4Off(p) + UdpBytes]
    BY <1>3 DEF Seen
  <2>2. p.shape.proto = "ip" /\ p.shape.ihl = 5 /\ p.shape.frag = FALSE /\ p.shape.l4 = "udp"
    BY DEF HeaderOK, UdpShape
  <2>3. L4Off(p) = 34
    BY <2>2 DEF L4Off, EthBytes
  <2>4. q.shape = p.shape /\ q.udp_len = p.udp_len /\ q.lin = 42
    BY <1>1, <2>1, <2>3 DEF PktType, UdpBytes
  <2>5. p.udp_len \in Nat /\ p.udp_len >= 32 /\ L4Off(q) = 34
    BY <1>1, <2>2, <2>4 DEF PktType, HeaderOK, UdpBytes, HdrBytes, L4Off, EthBytes
  <2> HIDE DEF q, p
  <2>6. /\ CheckIp(q) = "go" /\ CheckFragment(q) = "go"
        /\ CheckUdp(q, fault) \in {"go", "no_config"} /\ CheckAlgo(c) \in {"go", "passed"}
    BY <2>2, <2>4, <2>5 DEF CheckIp, CheckFragment, CheckUdp, CheckAlgo, EthBytes, IpBytes,
                            UdpBytes
  <2>7. CheckPayload(c, q) \in {"passed", "bad_udp"}
    BY <2>4, <2>5 DEF CheckPayload, UdpBytes
  <2>8. TcExit(c, q, fault) \in {"no_config", "passed", "bad_udp"}
    BY <2>6, <2>7 DEF TcExit, Then
  <2> QED BY <2>1, <2>8 DEF Exit, ChatExits, q
<1> QED BY <1>2, <1>3

----------------------------------------------------------------------------
(* The body of a client's frame tells how often it was encrypted and        *)
(* decrypted, once each side is configured as the other expects.            *)

\* Plain when the counts agree, sealed after an encryption alone, and
\* unreadable for good after a decryption too many.
BodyOK(f) ==
  LET h == f.oks["host"]
      q == f.oks["peer"]
      b == f.pkt.body
  IN  /\ b.pad > 0
      /\ h <= 1 /\ (f.side = "host" => q = 0 /\ (h = 0 \/ f.hooks = <<>>))
      /\ IF h = q THEN b.form = "plain"
         ELSE IF q = 0 THEN SealedWith(b, CBC, cfg["peer"].key, f.pkt.hdr.iv)
         ELSE b.form = "junk"

ChatFrameOK(f) ==
  /\ HeaderOK(f.pkt)
  /\ \A side \in Sides : f.exits[side] \subseteq ChatExits \union Excused(f, side)
  /\ f.side = "host" => f.hooks \in {<<>>, <<"tc">>} /\ f.linear
  /\ HasTc(f.hooks) => HasTc(path[f.side])
  /\ BodyLen(f.pkt) = f.pkt.body.msg.len + f.pkt.body.pad
  /\ f.pkt.body.pad > 0 /\ (f.oks["host"] = 0 /\ f.oks["peer"] = 0 => f.pkt.body.form = "plain")
  /\ MatchedCbc => BodyOK(f)

ShownOK(d) ==
  /\ d.text = Malformed => d.oks["host"] + d.oks["peer"] > 0
  /\ MatchedCbc => IF d.oks["host"] = d.oks["peer"] THEN d.text = d.msg
                   ELSE d.text.data \in {"unreadable", "malformed"}

ChatInv ==
  /\ path["host"] \in {<<>>, <<"tc">>}
  /\ \A f \in flight : f.chat => ChatFrameOK(f)
  /\ \A d \in shown : d.chat => ShownOK(d)

LEMMA SendChatOK ==
  ASSUME TypeOK, ChatInv, NEW m \in Messages, NEW iv \in IVs,
         Send(ChatFrame(m, iv, cfg["host"].port), TRUE)
  PROVE  ChatInv'
<1> DEFINE p == ChatFrame(m, iv, cfg["host"].port)
           f == [pkt |-> p, chat |-> TRUE, side |-> "host", linear |-> TRUE,
                 hooks |-> path["host"],
                 exits |-> [side \in Sides |-> {}], oks |-> [side \in Sides |-> 0]]
<1>1. HeaderOK(p)
  BY ChatHeader
<1>2. p.body = [Plain(m) EXCEPT !.pad = PadBody(m.len)]
  BY DEF ChatFrame
<1>3. /\ p.body.form = "plain" /\ p.body.pad > 0
      /\ BodyLen(p) = p.body.msg.len + p.body.pad
  <2>1. m.len \in Nat /\ PadBody(m.len) \in Nat /\ PadBody(m.len) > 0
    BY ChatBody DEF BlockBytes
  <2>2. p.body.form = "plain" /\ p.body.pad = PadBody(m.len) /\ p.body.msg = m
    BY <1>2 DEF Plain
  <2>3. p.udp_len = UdpBytes + HdrBytes + (m.len + PadBody(m.len))
    BY DEF ChatFrame
  <2> HIDE DEF p
  <2> QED BY <2>1, <2>2, <2>3 DEF BodyLen, PayloadLen, UdpBytes, HdrBytes
<1> HIDE DEF p
<1>4. /\ f.pkt = p /\ f.side = "host" /\ f.hooks = path["host"] /\ f.linear
      /\ f.oks["host"] = 0 /\ f.oks["peer"] = 0
      /\ \A side \in Sides : f.exits[side] = {}
  BY DEF Sides
<1>5. flight' = flight \union {f} /\ UNCHANGED <<cfg, path, shown>>
  BY DEF Send, p
<1> HIDE DEF f
<1>6. ChatFrameOK(f)
  BY <1>1, <1>3, <1>4 DEF ChatFrameOK, BodyOK, ChatInv
<1>7. \A g : ChatFrameOK(g)' <=> ChatFrameOK(g)
  BY <1>5 DEF ChatFrameOK, MatchedCbc, Matched, BodyOK, Excused
<1>8. \A d : ShownOK(d)' <=> ShownOK(d)
  BY <1>5 DEF ShownOK, MatchedCbc, Matched
<1> QED BY <1>5, <1>6, <1>7, <1>8 DEF ChatInv

\* What the kfuncs do to a body under CBC, and that they keep its padding.
LEMMA KfuncBody ==
  ASSUME NEW b \in BodyType, NEW key \in Keys, NEW iv \in IVs
  PROVE  /\ \A action, algo : Kfunc(action, algo, key, iv, b).pad = b.pad
         /\ b.form = "plain" =>
              /\ SealedWith(Kfunc(ENCRYPT, CBC, key, iv, b), CBC, key, iv)
              /\ Kfunc(DECRYPT, CBC, key, iv, b).form = "junk"
         /\ SealedWith(b, CBC, key, iv) => Kfunc(DECRYPT, CBC, key, iv, b).form = "plain"
         /\ b.form = "junk" => Kfunc(DECRYPT, CBC, key, iv, b).form = "junk"
         /\ \A action, algo : Kfunc(action, algo, key, iv, b).msg = b.msg
<1> USE DEF BodyType, Kfunc, KfuncEncrypt, KfuncDecrypt, Seal, Open, Junk, SealedWith
<1>1. \A action, algo : Kfunc(action, algo, key, iv, b).pad = b.pad
  OBVIOUS
<1>2. \A action, algo : Kfunc(action, algo, key, iv, b).msg = b.msg
  OBVIOUS
<1>3. b.form = "plain" =>
        /\ SealedWith(Kfunc(ENCRYPT, CBC, key, iv, b), CBC, key, iv)
        /\ Kfunc(DECRYPT, CBC, key, iv, b).form = "junk"
  BY DEF ENCRYPT, DECRYPT, CBC, CHACHA
<1>4. SealedWith(b, CBC, key, iv) => Kfunc(DECRYPT, CBC, key, iv, b).form = "plain"
  BY DEF ENCRYPT, DECRYPT
<1>5. b.form = "junk" => Kfunc(DECRYPT, CBC, key, iv, b).form = "junk"
  BY DEF ENCRYPT, DECRYPT, CBC, CHACHA
<1> QED BY <1>1, <1>2, <1>3, <1>4, <1>5

LEMMA HandledFields ==
  ASSUME NEW c, NEW f \in FrameType, NEW exit
  PROVE  LET g == Handled(f, c, exit)
         IN  /\ g.pkt = IF exit = "ok" THEN Crypted(c, f.pkt) ELSE f.pkt
             /\ g.chat = f.chat /\ g.side = f.side /\ g.hooks = Tail(f.hooks)
             /\ g.linear = f.linear
             /\ \A side \in Sides :
                  /\ g.exits[side] \subseteq f.exits[side] \union {exit}
                  /\ side # f.side => g.exits[side] = f.exits[side]
                  /\ g.oks[side] = IF side = f.side /\ exit = "ok" THEN f.oks[side] + 1
                                   ELSE f.oks[side]
<1>1. f.exits \in [Sides -> SUBSET Exits] /\ f.oks \in [Sides -> Nat] /\ f.side \in Sides
  BY DEF FrameType
<1> QED BY <1>1 DEF Handled

LEMMA HandledOK ==
  ASSUME TypeOK, NEW f \in flight, f.chat, ChatFrameOK(f), f.hooks # <<>>,
         NEW fault \in FaultPoints
  PROVE  ChatFrameOK(Handled(f, cfg[f.side], Exit(Head(f.hooks), cfg[f.side], Seen(f), fault)))
<1> DEFINE c == cfg[f.side]
           exit == Exit(Head(f.hooks), c, Seen(f), fault)
           g == Handled(f, c, exit)
           p == f.pkt
<1>1. /\ f \in FrameType /\ p \in PktType /\ f.side \in Sides /\ c \in ConfigType
      /\ f.oks["host"] \in Nat /\ f.oks["peer"] \in Nat
      /\ p.body \in BodyType /\ p.hdr.iv \in IVs /\ p.body.pad \in 0..BlockBytes
  <2>1. f \in FrameType
    BY DEF TypeOK
  <2>2. p \in PktType /\ f.side \in Sides /\ f.oks \in [Sides -> Nat]
    BY <2>1 DEF FrameType
  <2>3. p.body \in BodyType /\ p.hdr \in HdrType
    BY <2>2 DEF PktType
  <2> QED BY <2>1, <2>2, <2>3 DEF BodyType, HdrType, Sides, TypeOK
<1>0. /\ Head(f.hooks) = "tc" => f.hooks = <<"tc">>
      /\ HasTc(Tail(f.hooks)) => HasTc(f.hooks)
  <2>1. f.hooks \in {<<"tc">>, <<"xdp">>, <<"xdp", "tc">>}
    BY <1>1 DEF FrameType, HookPaths
  <2>2. CASE f.hooks = <<"tc">>
    <3>1. Head(<<"tc">>) = "tc" /\ Tail(<<"tc">>) = <<>>
      OBVIOUS
    <3> QED BY <2>2, <3>1 DEF HasTc
  <2>3. CASE f.hooks = <<"xdp">>
    <3>1. Head(<<"xdp">>) = "xdp" /\ Tail(<<"xdp">>) = <<>>
      OBVIOUS
    <3> QED BY <2>3, <3>1 DEF HasTc
  <2>4. CASE f.hooks = <<"xdp", "tc">>
    <3>1. Head(<<"xdp", "tc">>) = "xdp"
      OBVIOUS
    <3> QED BY <2>4, <3>1 DEF HasTc
  <2> QED BY <2>1, <2>2, <2>3, <2>4
<1>2. exit \in ChatExits \union Excused(f, f.side)
  <2>1. exit \in ChatExits \union (IF Head(f.hooks) = "tc" /\ ~f.linear THEN {"bad_udp"} ELSE {})
    BY <1>1, SeenVerdict DEF ChatFrameOK
  <2>2. Head(f.hooks) = "tc" /\ ~f.linear => f.side = "peer" /\ HasTc(path["peer"])
    BY <1>0, <1>1 DEF ChatFrameOK, HasTc, Sides
  <2> HIDE DEF exit
  <2> QED BY <2>1, <2>2 DEF Excused
<1> HIDE DEF exit, c
<1>3. /\ g.pkt = IF exit = "ok" THEN Crypted(c, p) ELSE p
      /\ g.side = f.side /\ g.hooks = Tail(f.hooks) /\ g.linear = f.linear
      /\ \A side \in Sides :
           /\ g.exits[side] \subseteq f.exits[side] \union {exit}
           /\ side # f.side => g.exits[side] = f.exits[side]
           /\ g.oks[side] = IF side = f.side /\ exit = "ok" THEN f.oks[side] + 1
                            ELSE f.oks[side]
  BY <1>1, HandledFields
<1> HIDE DEF g
<1>4. HeaderOK(g.pkt) /\ g.pkt.hdr.iv = p.hdr.iv
  BY <1>1, <1>3, CryptedHeader DEF ChatFrameOK
<1>5. \A side \in Sides : g.exits[side] \subseteq ChatExits \union Excused(g, side)
  BY <1>2, <1>3 DEF ChatFrameOK, Excused
<1>6. f.side = "host" => f.hooks = <<"tc">> /\ g.hooks = <<>>
  <2>1. Tail(<<"tc">>) = <<>>
    OBVIOUS
  <2> QED BY <1>3, <2>1 DEF ChatFrameOK
<1>13. (g.side = "host" => g.linear) /\ (HasTc(g.hooks) => HasTc(path[g.side]))
  BY <1>0, <1>3 DEF ChatFrameOK
<1> DEFINE b == Kfunc(c.action, c.algo, c.key, p.hdr.iv, p.body)
<1>7. c.action \in Actions /\ c.key \in Keys
  BY <1>1 DEF ConfigType
<1>8. exit = "ok" => g.pkt.body = b
  BY <1>3 DEF Crypted
<1>9. b.pad = p.body.pad
  BY <1>1, <1>7, KfuncBody
<1>10. g.pkt.body.pad > 0 /\ BodyLen(g.pkt) = g.pkt.body.msg.len + g.pkt.body.pad
  <2>1. b.msg = p.body.msg
    BY <1>1, <1>7, KfuncBody
  <2>2. BodyLen(g.pkt) = BodyLen(p)
    BY <1>3 DEF Crypted, BodyLen, PayloadLen
  <2> HIDE DEF b
  <2> QED BY <1>3, <1>8, <1>9, <2>1, <2>2 DEF ChatFrameOK
<1>11. g.oks["host"] = 0 /\ g.oks["peer"] = 0 => g.pkt.body.form = "plain"
  <2>1. exit = "ok" => g.oks[f.side] = f.oks[f.side] + 1
    BY <1>1, <1>3
  <2> QED BY <1>1, <1>3, <2>1 DEF ChatFrameOK, Sides
<1>12. ASSUME MatchedCbc PROVE BodyOK(g)
  <2>1. BodyOK(f)
    BY <1>12 DEF ChatFrameOK
  <2>2. CASE exit # "ok"
    <3>1. g.pkt = p /\ g.oks["host"] = f.oks["host"] /\ g.oks["peer"] = f.oks["peer"]
      BY <1>3, <2>2 DEF Sides
    <3> QED BY <1>3, <1>6, <2>1, <3>1 DEF BodyOK
  <2>3. CASE exit = "ok" /\ f.side = "host"
    <3>1. f.oks["host"] = 0 /\ f.oks["peer"] = 0 /\ p.body.form = "plain"
      BY <1>6, <2>1, <2>3 DEF BodyOK
    <3>2. g.oks["host"] = 1 /\ g.oks["peer"] = 0
      BY <1>3, <2>3, <3>1 DEF Sides
    <3>3. c = [cfg["peer"] EXCEPT !.action = ENCRYPT] /\ cfg["peer"] \in ConfigType
      BY <1>12, <2>3 DEF MatchedCbc, Matched, c, TypeOK, Sides
    <3>4. c.action = ENCRYPT /\ c.algo = CBC /\ c.key = cfg["peer"].key
      BY <1>12, <3>3 DEF ConfigType, MatchedCbc
    <3>5. SealedWith(b, CBC, cfg["peer"].key, p.hdr.iv)
      BY <1>1, <1>7, <3>1, <3>4, KfuncBody
    <3> HIDE DEF b
    <3> QED BY <1>3, <1>4, <1>6, <1>8, <1>10, <2>3, <3>2, <3>5 DEF BodyOK
  <2>4. CASE exit = "ok" /\ f.side = "peer"
    <3>1. c.action = DECRYPT /\ c.algo = CBC /\ c.key = cfg["peer"].key
      BY <1>12, <2>4 DEF MatchedCbc, Matched, c
    <3>2. g.oks["host"] = f.oks["host"] /\ g.oks["peer"] = f.oks["peer"] + 1
      BY <1>3, <2>4 DEF Sides
    <3>3. /\ p.body.form = "plain" => b.form = "junk"
          /\ SealedWith(p.body, CBC, c.key, p.hdr.iv) => b.form = "plain"
          /\ p.body.form = "junk" => b.form = "junk"
      BY <1>1, <1>7, <3>1, KfuncBody
    <3> HIDE DEF b
    <3>4. g.side = "peer" /\ f.oks["host"] \in {0, 1}
      BY <1>1, <1>3, <2>1, <2>4 DEF BodyOK
    <3>5. IF g.oks["host"] = g.oks["peer"] THEN b.form = "plain"
          ELSE g.oks["peer"] # 0 /\ b.form = "junk"
      BY <1>1, <2>1, <3>1, <3>2, <3>3, <3>4 DEF BodyOK
    <3> QED BY <1>8, <1>10, <2>4, <3>2, <3>4, <3>5 DEF BodyOK
  <2> QED BY <1>1, <2>2, <2>3, <2>4 DEF Sides
<1> QED BY <1>3, <1>4, <1>5, <1>6, <1>10, <1>11, <1>12, <1>13 DEF ChatFrameOK, g, exit, c

LEMMA ReceiveOK ==
  ASSUME TypeOK, NEW f \in flight, f.chat, ChatFrameOK(f), f.side = "peer",
         NEW chance \in BOOLEAN
  PROVE  LET p == f.pkt
             printed == Parses(p) /\ Unpads(p.body, chance)
         IN  ShownOK([text |-> IF printed THEN Text(p) ELSE Malformed,
                      msg |-> p.body.msg, chat |-> f.chat, oks |-> f.oks])
<1> DEFINE p == f.pkt
           printed == Parses(p) /\ Unpads(p.body, chance)
           text == IF printed THEN Text(p) ELSE Malformed
           d == [text |-> text, msg |-> p.body.msg, chat |-> f.chat, oks |-> f.oks]
<1>1. /\ f.oks["host"] \in Nat /\ f.oks["peer"] \in Nat
      /\ p.body.msg \in Messages /\ p.body.pad \in Nat /\ p.udp_len \in Nat
  BY DEF TypeOK, FrameType, PktType, BodyType, Sides, BlockBytes
<1>2. /\ p.body.msg.data # "malformed" /\ p.body.msg.len \in Nat
      /\ p.body.msg = [data |-> p.body.msg.data, len |-> p.body.msg.len]
  BY <1>1, FramedAssumption DEF Messages
<1>3. Parses(p)
  BY <1>1 DEF ChatFrameOK, HeaderOK, Parses, PayloadLen, UdpBytes, HdrBytes
<1>4. p.body.pad > 0
  BY DEF ChatFrameOK
<1>5. p.body.form = "plain" => text = p.body.msg
  <2>1. BodyLen(p) - p.body.pad = p.body.msg.len
    BY <1>1, <1>2 DEF ChatFrameOK
  <2> QED BY <1>2, <1>3, <1>4, <2>1 DEF Unpads, Text
<1>6. p.body.form # "plain" => text.data \in {"unreadable", "malformed"}
  BY DEF Text, Malformed
<1>7. d.text = text /\ d.msg = p.body.msg /\ d.oks = f.oks
  OBVIOUS
<1> HIDE DEF text, d
<1>8. d.text = Malformed => d.oks["host"] + d.oks["peer"] > 0
  <2>1. f.oks["host"] = 0 /\ f.oks["peer"] = 0 => p.body.form = "plain"
    BY DEF ChatFrameOK
  <2> SUFFICES ASSUME d.text = Malformed PROVE d.oks["host"] + d.oks["peer"] > 0
    OBVIOUS
  <2>2. text # p.body.msg
    BY <1>2, <1>7 DEF Malformed
  <2>3. ~(f.oks["host"] = 0 /\ f.oks["peer"] = 0)
    BY <1>5, <2>1, <2>2
  <2>4. f.oks["host"] + f.oks["peer"] > 0
    BY <1>1, <2>3
  <2> QED BY <1>7, <2>4
<1>9. MatchedCbc => IF d.oks["host"] = d.oks["peer"] THEN d.text = d.msg
                    ELSE d.text.data \in {"unreadable", "malformed"}
  <2> SUFFICES ASSUME MatchedCbc
               PROVE  IF d.oks["host"] = d.oks["peer"] THEN d.text = d.msg
                      ELSE d.text.data \in {"unreadable", "malformed"}
    OBVIOUS
  <2>1. BodyOK(f)
    BY DEF ChatFrameOK
  <2>2. f.oks["host"] = f.oks["peer"] <=> p.body.form = "plain"
    BY <2>1 DEF BodyOK, SealedWith
  <2> QED BY <1>5, <1>6, <1>7, <2>2
<1> QED BY <1>8, <1>9 DEF ShownOK, d, text, printed, p

LEMMA ChatInvariance == Spec => []ChatInv
<1>1. Init => ChatInv
  BY FramedAssumption DEF Init, ChatInv
<1>2. TypeOK /\ ChatInv /\ [Next]_vars => ChatInv'
  <2> SUFFICES ASSUME TypeOK, ChatInv, [Next]_vars PROVE ChatInv'
    OBVIOUS
  <2>1. UNCHANGED <<cfg, path>>
    BY BenchStep DEF Next, SendChat, SendOther, Send, RunSomeHook, RunHook, ArriveSome, Arrive,
           LoseSome, Lose, ReceiveSome, Receive, vars
  <2>2. \A f : ChatFrameOK(f)' <=> ChatFrameOK(f)
    BY <2>1 DEF ChatFrameOK, MatchedCbc, Matched, BodyOK, Excused
  <2>3. \A d : ShownOK(d)' <=> ShownOK(d)
    BY <2>1 DEF ShownOK, MatchedCbc, Matched
  <2>4. CASE SendChat
    BY <2>4, SendChatOK DEF SendChat
  <2>5. CASE SendOther
    <3>1. \A f \in flight' : f.chat => f \in flight
      BY <2>5 DEF SendOther, Send
    <3>2. shown' = shown
      BY <2>5 DEF SendOther, Send
    <3> QED BY <2>1, <2>2, <2>3, <3>1, <3>2 DEF ChatInv
  <2>6. CASE RunSomeHook
    <3>1. PICK f \in flight, fault \in Faults : RunHook(f, fault)
      BY <2>6 DEF RunSomeHook
    <3> DEFINE g == Handled(f, cfg[f.side], Exit(Head(f.hooks), cfg[f.side], Seen(f), fault))
    <3>2. flight' = (flight \ {f}) \union {g} /\ shown' = shown /\ f.hooks # <<>>
      BY <3>1 DEF RunHook
    <3>3. g.chat = f.chat
      BY DEF Handled
    <3>4. f.chat => ChatFrameOK(g)
      BY <3>2, HandledOK, FramedAssumption DEF ChatInv
    <3> HIDE DEF g
    <3> QED BY <2>1, <2>2, <2>3, <3>2, <3>3, <3>4 DEF ChatInv
  <2>7. CASE ArriveSome
    <3>1. PICK f \in flight, linear \in PeerLinear, again \in BOOLEAN :
            Arrive(f, linear, again)
      BY <2>7 DEF ArriveSome
    <3> DEFINE g == [pkt |-> f.pkt, chat |-> f.chat, side |-> "peer", linear |-> linear,
                     hooks |-> path["peer"], exits |-> f.exits, oks |-> f.oks]
    <3>2. flight' \subseteq flight \union {g} /\ shown' = shown /\ f.side = "host"
      BY <3>1 DEF Arrive, OnWire
    <3>3. /\ g.pkt = f.pkt /\ g.chat = f.chat /\ g.side = "peer" /\ g.exits = f.exits
          /\ g.oks = f.oks /\ g.hooks = path["peer"]
      OBVIOUS
    <3> HIDE DEF g
    <3>4. f.chat => ChatFrameOK(g)
      <4> SUFFICES ASSUME f.chat PROVE ChatFrameOK(g)
        OBVIOUS
      <4>1. ChatFrameOK(f) /\ f.linear
        BY <3>2 DEF ChatInv, ChatFrameOK
      <4>2. \A side \in Sides : f.exits[side] \subseteq ChatExits
        BY <4>1 DEF ChatFrameOK, Excused
      <4>3. MatchedCbc => BodyOK(g)
        BY <3>3, <4>1 DEF ChatFrameOK, BodyOK
      <4> QED BY <3>3, <4>1, <4>2, <4>3 DEF ChatFrameOK
    <3> QED BY <2>1, <2>2, <2>3, <3>2, <3>3, <3>4 DEF ChatInv
  <2>8. CASE ReceiveSome
    <3>1. PICK f \in flight, chance \in BOOLEAN : Receive(f, chance)
      BY <2>8 DEF ReceiveSome
    <3> DEFINE printed == Parses(f.pkt) /\ Unpads(f.pkt.body, chance)
               d == [text |-> IF printed THEN Text(f.pkt) ELSE Malformed,
                     msg |-> f.pkt.body.msg, chat |-> f.chat, oks |-> f.oks]
    <3>2. flight' \subseteq flight /\ shown' \subseteq shown \union {d} /\ f.side = "peer"
      BY <3>1 DEF Receive
    <3>3. d.chat => ShownOK(d)
      BY <3>2, ReceiveOK DEF ChatInv
    <3> HIDE DEF d
    <3> QED BY <2>1, <2>2, <2>3, <3>2, <3>3 DEF ChatInv
  <2>9. CASE LoseSome \/ UNCHANGED vars
    <3>1. flight' \subseteq flight /\ shown' = shown
      BY <2>9 DEF LoseSome, Lose, vars
    <3> QED BY <2>1, <2>2, <2>3, <3>1 DEF ChatInv
  <2> QED BY <2>4, <2>5, <2>6, <2>7, <2>8, <2>9, BenchStep DEF Next
<1> QED BY <1>1, <1>2, TypeTheorem, PTL DEF Spec

\* The senders, both programs and the server agree on what a good frame is: none
\* of the senders' is malformed to any of them, but for a missing crypto context
\* and for a payload the peer's TC hook does not reach.
THEOREM HeaderTheorem == Spec => []HeaderAgreed
<1>1. ChatInv => HeaderAgreed
  <2> SUFFICES ASSUME ChatInv PROVE HeaderAgreed
    OBVIOUS
  <2>1. \A f \in flight, side \in Sides :
          f.chat => f.exits[side] \subseteq ChatExits \union Excused(f, side)
    BY DEF ChatInv, ChatFrameOK
  <2>2. ChatExits \intersect Reasons = {"no_crypto_ctx"}
    BY DEF ChatExits, Reasons
  <2>3. \A f \in flight, side \in Sides :
          f.chat => f.exits[side] \intersect Reasons \subseteq
                      {"no_crypto_ctx"} \union Excused(f, side)
    BY <2>1, <2>2
  <2>4. \A d \in shown : d.chat /\ d.text = Malformed => d.oks["host"] + d.oks["peer"] > 0
    BY DEF ChatInv, ShownOK
  <2> QED BY <2>3, <2>4 DEF HeaderAgreed
<1> QED BY <1>1, ChatInvariance, PTL

\* Between matched CBC peers the server prints the client's text exactly when
\* every encryption met one decryption, however frames fail, double or cross.
THEOREM TextTheorem == Spec => []TextIntact
<1>1. ChatInv => TextIntact
  BY DEF ChatInv, ShownOK, MatchedCbc, TextIntact
<1> QED BY <1>1, ChatInvariance, PTL

----------------------------------------------------------------------------
(* Quiet counters.  They never go back, so as long as they are quiet every  *)
(* hook a frame of the senders met has crypted it.                          *)

Watched ==
  /\ MatchedCbc /\ path["host"] = <<"tc">> /\ path["peer"] \in {<<"tc">>, <<"xdp">>}
  /\ \A side \in Sides : Quiet(stats[side])

\* A frame still has its side's one hook before it, or has been crypted by it.
FrameDone(f) ==
  LET done == IF f.hooks = <<>> THEN 1 ELSE 0
  IN  /\ f.hooks \in {<<>>, path[f.side]}
      /\ IF f.side = "host" THEN f.oks["host"] = done /\ f.oks["peer"] = 0
         ELSE f.oks["host"] = 1 /\ f.oks["peer"] = done

QuietInv ==
  Watched => /\ \A f \in flight : f.chat => FrameDone(f)
             /\ \A d \in shown : d.chat => d.oks["host"] = d.oks["peer"]

\* The only exit that leaves quiet counters quiet is a success.
LEMMA CountQuiet ==
  ASSUME NEW s \in [Counters -> Nat], NEW exit \in Exits, Quiet(Count(s, Bumps(exit)))
  PROVE  Quiet(s) /\ exit = "ok"
<1> DEFINE b == Bumps(exit)
           t == Count(s, b)
           inc(k) == IF k = "seen" \/ k \in b THEN 1 ELSE 0
<1>1. \A k \in Counters : s[k] \in Nat /\ t[k] = s[k] + inc(k)
  BY DEF Count
<1>2. /\ b \in {{"passed"}, {"crypto_ok"}, {"crypto_fail"}} \union {Bad(r) : r \in Reasons}
      /\ b = {"crypto_ok"} => exit = "ok"
  BY DEF Bumps, Exits, Reasons, Bad
<1> HIDE DEF t, b
<1>3. t["passed"] = 0 /\ t["crypto_fail"] = 0 /\ t["malformed"] = 0
  BY DEF Quiet, t, b
<1>4. {"passed", "crypto_fail", "malformed"} \subseteq Counters
  BY DEF Counters
<1>5. Quiet(s) /\ b \intersect {"passed", "crypto_fail", "malformed"} = {}
  BY <1>1, <1>3, <1>4 DEF Quiet
<1> QED BY <1>2, <1>5 DEF Bad

LEMMA QuietInvariance == Spec => []QuietInv
<1>1. Init => QuietInv
  BY DEF Init, QuietInv
<1>2. TypeOK /\ QuietInv /\ [Next]_vars => QuietInv'
  <2> SUFFICES ASSUME TypeOK, QuietInv, [Next]_vars, Watched' PROVE QuietInv'
    BY DEF QuietInv
  <2>1. UNCHANGED <<cfg, path>>
    BY BenchStep DEF Next, SendChat, SendOther, Send, RunSomeHook, RunHook, ArriveSome, Arrive,
           LoseSome, Lose, ReceiveSome, Receive, vars
  <2>2. \A f : FrameDone(f)' <=> FrameDone(f)
    BY <2>1 DEF FrameDone
  <2>3. ASSUME UNCHANGED stats
        PROVE  /\ path["host"] = <<"tc">> /\ path["peer"] \in {<<"tc">>, <<"xdp">>}
               /\ \A f \in flight : f.chat => FrameDone(f)
               /\ \A d \in shown : d.chat => d.oks["host"] = d.oks["peer"]
    BY <2>1, <2>3 DEF QuietInv, Watched, MatchedCbc, Matched
  <2>4. CASE SendChat \/ SendOther
    <3>1. PICK p, chat : Send(p, chat)
      <4>1. CASE SendChat
        BY <4>1 DEF SendChat
      <4>2. CASE SendOther
        BY <4>2 DEF SendOther
      <4> QED BY <2>4, <4>1, <4>2
    <3> DEFINE g == [pkt |-> p, chat |-> chat, side |-> "host", linear |-> TRUE,
                     hooks |-> path["host"], exits |-> [side \in Sides |-> {}],
                     oks |-> [side \in Sides |-> 0]]
    <3>2. flight' = flight \union {g} /\ UNCHANGED <<stats, shown>>
      BY <3>1 DEF Send
    <3>3. g.side = "host" /\ g.hooks = path["host"] /\ g.oks["host"] = 0 /\ g.oks["peer"] = 0
      BY DEF Sides
    <3> HIDE DEF g
    <3>4. path["host"] # <<>>
      BY <2>3, <3>2
    <3>5. FrameDone(g)
      BY <3>3, <3>4 DEF FrameDone
    <3> QED BY <2>2, <2>3, <3>2, <3>5 DEF QuietInv
  <2>5. CASE RunSomeHook
    <3>1. PICK f \in flight, fault \in Faults : RunHook(f, fault)
      BY <2>5 DEF RunSomeHook
    <3> DEFINE c == cfg[f.side]
               exit == Exit(Head(f.hooks), c, Seen(f), fault)
               g == Handled(f, c, exit)
    <3>2. f \in FrameType /\ f.side \in Sides /\ f.oks \in [Sides -> Nat] /\ exit \in Exits
      BY ExitType, FramedAssumption DEF TypeOK, FrameType
    <3>3. /\ stats' = [stats EXCEPT ![f.side] = Count(@, Bumps(exit))]
          /\ flight' = (flight \ {f}) \union {g} /\ shown' = shown /\ f.hooks # <<>>
      BY <3>1 DEF RunHook
    <3> HIDE DEF exit, c
    <3>4. /\ stats[f.side] \in [Counters -> Nat]
          /\ Quiet(Count(stats[f.side], Bumps(exit)))
          /\ \A side \in Sides : side # f.side => Quiet(stats[side])
      <4>1. \A side \in Sides : Quiet(stats'[side])
        BY DEF Watched, Quiet
      <4> QED BY <3>2, <3>3, <4>1 DEF TypeOK
    <3>5. exit = "ok" /\ \A side \in Sides : Quiet(stats[side])
      BY <3>2, <3>4, CountQuiet
    <3>6. Watched
      BY <2>1, <3>5 DEF Watched, MatchedCbc, Matched
    <3>7. /\ g.chat = f.chat /\ g.side = f.side /\ g.hooks = Tail(f.hooks)
          /\ \A side \in Sides :
               g.oks[side] = IF side = f.side THEN f.oks[side] + 1 ELSE f.oks[side]
      BY <3>2, <3>5, HandledFields
    <3> HIDE DEF g
    <3>8. f.chat => FrameDone(g)
      <4> SUFFICES ASSUME f.chat PROVE FrameDone(g)
        OBVIOUS
      <4>1. FrameDone(f) /\ f.hooks = path[f.side] /\ f.hooks \in {<<"tc">>, <<"xdp">>}
        BY <3>2, <3>3, <3>6 DEF QuietInv, FrameDone, Watched, Sides
      <4>2. Tail(<<"tc">>) = <<>> /\ Tail(<<"xdp">>) = <<>>
        OBVIOUS
      <4>3. g.hooks = <<>>
        BY <3>7, <4>1, <4>2
      <4>4. IF f.side = "host" THEN f.oks["host"] = 0 /\ f.oks["peer"] = 0
            ELSE f.oks["host"] = 1 /\ f.oks["peer"] = 0
        BY <3>3, <4>1 DEF FrameDone
      <4>5. CASE f.side = "host"
        <5>1. g.side = "host" /\ g.oks["host"] = 1 /\ g.oks["peer"] = 0
          BY <3>7, <4>4, <4>5 DEF Sides
        <5> QED BY <4>3, <5>1 DEF FrameDone
      <4>6. CASE f.side = "peer"
        <5>1. g.side = "peer" /\ g.oks["host"] = 1 /\ g.oks["peer"] = 1
          BY <3>7, <4>4, <4>6 DEF Sides
        <5> QED BY <4>3, <5>1 DEF FrameDone
      <4> QED BY <3>2, <4>5, <4>6 DEF Sides
    <3> QED BY <2>2, <3>3, <3>6, <3>7, <3>8 DEF QuietInv
  <2>6. CASE ArriveSome
    <3>1. PICK f \in flight, linear \in PeerLinear, again \in BOOLEAN :
            Arrive(f, linear, again)
      BY <2>6 DEF ArriveSome
    <3> DEFINE g == [pkt |-> f.pkt, chat |-> f.chat, side |-> "peer", linear |-> linear,
                     hooks |-> path["peer"], exits |-> f.exits, oks |-> f.oks]
    <3>2. /\ flight' \subseteq flight \union {g} /\ UNCHANGED <<stats, shown>>
          /\ f.side = "host" /\ f.hooks = <<>>
      BY <3>1 DEF Arrive, OnWire
    <3>3. g.chat = f.chat /\ g.side = "peer" /\ g.hooks = path["peer"] /\ g.oks = f.oks
      OBVIOUS
    <3> HIDE DEF g
    <3>4. path["peer"] # <<>>
      BY <2>3, <3>2
    <3>5. f.chat => FrameDone(g)
      BY <2>3, <3>2, <3>3, <3>4 DEF FrameDone
    <3> QED BY <2>2, <2>3, <3>2, <3>3, <3>5 DEF QuietInv
  <2>7. CASE ReceiveSome
    <3>1. PICK f \in flight, chance \in BOOLEAN : Receive(f, chance)
      BY <2>7 DEF ReceiveSome
    <3>2. /\ flight' \subseteq flight /\ UNCHANGED stats /\ f.side = "peer" /\ f.hooks = <<>>
          /\ \A d \in shown' : d \in shown \/ (d.chat = f.chat /\ d.oks = f.oks)
      BY <3>1 DEF Receive
    <3>3. f.chat => f.oks["host"] = f.oks["peer"]
      BY <2>3, <3>2 DEF FrameDone
    <3> QED BY <2>2, <2>3, <3>2, <3>3 DEF QuietInv
  <2>8. CASE LoseSome \/ UNCHANGED vars
    <3>1. flight' \subseteq flight /\ UNCHANGED <<stats, shown>>
      BY <2>8 DEF LoseSome, Lose, vars
    <3> QED BY <2>2, <2>3, <3>1 DEF QuietInv
  <2> QED BY <2>4, <2>5, <2>6, <2>7, <2>8, BenchStep DEF Next
<1> QED BY <1>1, <1>2, TypeTheorem, PTL DEF Spec

\* While the counters of two matched CBC ends with one hook each show nothing but
\* successes, no frame of the senders crossed the wire in clear text and every
\* text printed is the one sent.
THEOREM QuietTheorem == Spec => []QuietMeansRight
<1>1. ChatInv /\ QuietInv => QuietMeansRight
  <2> SUFFICES ASSUME ChatInv, QuietInv, Watched
               PROVE  /\ \A f \in flight : f.chat /\ OnWire(f) => f.pkt.body.form = "sealed"
                      /\ \A d \in shown : d.chat => d.text = d.msg
    BY DEF QuietMeansRight, Watched
  <2>1. \A f \in flight : f.chat => FrameDone(f) /\ BodyOK(f)
    BY DEF QuietInv, Watched, ChatInv, ChatFrameOK
  <2>2. \A f \in flight : f.chat /\ OnWire(f) => f.pkt.body.form = "sealed"
    BY <2>1 DEF FrameDone, BodyOK, OnWire, SealedWith
  <2>3. \A d \in shown : d.chat => d.text = d.msg
    BY DEF QuietInv, Watched, ChatInv, ShownOK
  <2> QED BY <2>2, <2>3
<1> QED BY <1>1, ChatInvariance, QuietInvariance, PTL

----------------------------------------------------------------------------
(* The round trip.  TextIntact holds of hooks that do nothing at all; these *)
(* facts say that they do what they are for.                                *)

\* A hook configured for the port of a well-formed frame crypts it.
LEMMA HookCrypts ==
  ASSUME NEW hook, NEW c, c.algo = CBC, NEW p \in PktType, HeaderOK(p),
         p.shape.dport = c.port
  PROVE  Exit(hook, c, p, "none") = "ok"
<1>1. /\ p.shape.proto = "ip" /\ p.shape.ihl = 5 /\ p.shape.frag = FALSE
      /\ p.shape.l4 = "udp"
  BY DEF HeaderOK, UdpShape
<1>2. p.udp_len \in Nat /\ p.lin \in Nat /\ L4Off(p) = 34
  BY <1>1 DEF PktType, L4Off, EthBytes
<1>3. CheckIp(p) = "go" /\ CheckFragment(p) = "go" /\ CheckUdp(p, "none") = "go"
  BY <1>1, <1>2 DEF CheckIp, CheckFragment, CheckUdp, HeaderOK, EthBytes, IpBytes, UdpBytes,
                    HdrBytes
<1>4. /\ CheckAlgo(c) = "go" /\ CheckPayload(c, p) = "go"
      /\ CheckMagic(p) = "go" /\ CheckAction(p) = "go"
      /\ CheckLength(p) = "go" /\ CheckAlignment(c, p) = "go"
  BY <1>2 DEF CheckAlgo, CheckPayload, CheckMagic, CheckAction, CheckLength, CheckAlignment,
              HeaderOK, PayloadLen, UdpBytes, HdrBytes, Htonl, Magic
<1>5. TcExit(c, p, "none") = "ok" /\ XdpExit(c, p, "none") = "ok"
  BY <1>3, <1>4 DEF TcExit, XdpExit, Then, Crypt
<1> QED BY <1>5 DEF Exit

\* Decrypting a body just encrypted gives it back.
LEMMA KfuncInverse ==
  ASSUME NEW b \in BodyType, b.form = "plain", b.algo = CBC, b.key = NoKey, b.iv = NoIv,
         NEW key \in Keys, NEW iv \in IVs
  PROVE  Kfunc(DECRYPT, CBC, key, iv, Kfunc(ENCRYPT, CBC, key, iv, b)) = b
<1> DEFINE x == Kfunc(ENCRYPT, CBC, key, iv, b)
<1>1. x = [b EXCEPT !.form = "sealed", !.algo = CBC, !.key = key, !.iv = iv]
  BY DEF Kfunc, KfuncEncrypt, Seal, CBC, CHACHA
<1>2. x = [form |-> "sealed", msg |-> b.msg, pad |-> b.pad, algo |-> CBC, key |-> key,
           iv |-> iv]
  BY <1>1 DEF BodyType
<1> HIDE DEF x
<1>3. SealedWith(x, CBC, key, iv)
  BY <1>2 DEF SealedWith
<1>4. Kfunc(DECRYPT, CBC, key, iv, x) = Open(x)
  BY <1>3 DEF Kfunc, KfuncDecrypt, ENCRYPT, DECRYPT, CBC, CHACHA
<1>5. Open(x) = [form |-> "plain", msg |-> b.msg, pad |-> b.pad, algo |-> CBC,
                 key |-> NoKey, iv |-> NoIv]
  <2>1. x = [form |-> x.form, msg |-> x.msg, pad |-> x.pad, algo |-> x.algo,
             key |-> x.key, iv |-> x.iv]
    BY <1>2
  <2>2. x.msg = b.msg /\ x.pad = b.pad
    BY <1>2
  <2> DEFINE o == Open(x)
  <2>3. o = [x EXCEPT !.form = "plain", !.algo = CBC, !.key = NoKey, !.iv = NoIv]
    BY DEF Open
  <2> HIDE DEF o
  <2>4. o = [form |-> "plain", msg |-> x.msg, pad |-> x.pad, algo |-> CBC,
             key |-> NoKey, iv |-> NoIv]
    BY <2>1, <2>3
  <2> QED BY <2>2, <2>4 DEF o
<1>6. b = [form |-> b.form, msg |-> b.msg, pad |-> b.pad, algo |-> b.algo, key |-> b.key,
           iv |-> b.iv]
  BY DEF BodyType
<1> QED BY <1>4, <1>5, <1>6 DEF x

\* A text of any length the client sends makes the round trip: the host's hook
\* encrypts it under the IV in its header, either hook of the peer decrypts it,
\* and the server parses the frame it gets, which is the client's but for the
\* UDP checksum, unpads it and prints the text.
THEOREM ChatTheorem ==
  ASSUME NEW h \in ConfigType, h.action = ENCRYPT, h.algo = CBC,
         NEW c \in ConfigType, c.action = DECRYPT, c.algo = CBC,
         c.key = h.key, c.port = h.port,
         NEW m \in Messages, NEW iv \in IVs, NEW hook \in {"tc", "xdp"}
  PROVE  LET p == ChatFrame(m, iv, h.port)
             sealed == Crypted(h, p)
             q == Crypted(c, sealed)
         IN  /\ Exit("tc", h, p, "none") = "ok"
             /\ SealedWith(sealed.body, CBC, h.key, p.hdr.iv)
             /\ Exit(hook, c, sealed, "none") = "ok"
             /\ q = [p EXCEPT !.ucheck = "zero"]
             /\ Parses(q) /\ Unpads(q.body, FALSE) /\ Text(q) = m
<1> DEFINE p == ChatFrame(m, iv, h.port)
           sealed == Crypted(h, p)
           q == Crypted(c, sealed)
<1>1. p \in PktType /\ HeaderOK(p) /\ h.key \in Keys
  BY ChatType, ChatHeader DEF ConfigType
<1>2. p.shape.dport = h.port /\ p.hdr.iv = iv
  BY DEF ChatFrame, UdpShape, SentHeader
<1>3. p.body = [form |-> "plain", msg |-> m, pad |-> PadBody(m.len), algo |-> CBC,
                key |-> NoKey, iv |-> NoIv] /\ PadBody(m.len) \in 1..BlockBytes
  <2>1. m.len \in Nat
    BY FramedAssumption DEF Messages
  <2> QED BY <2>1, PadRange DEF ChatFrame, Plain
<1>4. /\ p.body \in BodyType /\ p.body.form = "plain" /\ p.body.algo = CBC
      /\ p.body.key = NoKey /\ p.body.iv = NoIv /\ p.body.msg = m /\ p.body.pad > 0
  <2>1. p.body \in BodyType
    BY <1>1 DEF PktType
  <2> HIDE DEF p
  <2> QED BY <1>3, <2>1 DEF BlockBytes
<1> HIDE DEF p
<1>5. /\ sealed \in PktType /\ HeaderOK(sealed) /\ sealed.hdr.iv = iv
      /\ HeaderOK(q) /\ q \in PktType
  <2>1. sealed \in PktType /\ HeaderOK(sealed) /\ sealed.hdr.iv = iv
    BY <1>1, <1>2, CryptedType, CryptedHeader
  <2> HIDE DEF sealed
  <2> QED BY <2>1, CryptedType, CryptedHeader
<1>6. /\ sealed.shape = p.shape /\ sealed.lin = p.lin /\ sealed.udp_len = p.udp_len
      /\ sealed.hdr = p.hdr /\ sealed.ucheck = "zero"
      /\ sealed.body = Kfunc(ENCRYPT, CBC, h.key, iv, p.body)
  <2>1. p.hdr \in HdrType
    BY <1>1 DEF PktType
  <2>2. [p.hdr EXCEPT !.iv = RestoredIv(@)] = p.hdr
    BY <2>1 DEF RestoredIv, HdrType
  <2> QED BY <1>2, <2>2 DEF Crypted
<1>7. /\ q.body = Kfunc(DECRYPT, CBC, h.key, iv, sealed.body)
      /\ q = [shape |-> sealed.shape, lin |-> sealed.lin, udp_len |-> sealed.udp_len,
              hdr |-> sealed.hdr, body |-> q.body, ucheck |-> "zero"]
  <2> HIDE DEF sealed
  <2>1. sealed.hdr \in HdrType
    BY <1>5 DEF PktType
  <2>2. [sealed.hdr EXCEPT !.iv = RestoredIv(@)] = sealed.hdr
    BY <2>1 DEF RestoredIv, HdrType
  <2> QED BY <1>5, <2>2 DEF Crypted
<1> HIDE DEF sealed, q
<1>8. q.body = p.body /\ SealedWith(sealed.body, CBC, h.key, p.hdr.iv)
  BY <1>1, <1>2, <1>4, <1>6, <1>7, KfuncInverse, KfuncBody
<1>9. Exit("tc", h, p, "none") = "ok" /\ Exit(hook, c, sealed, "none") = "ok"
  BY <1>1, <1>2, <1>5, <1>6, HookCrypts
<1>10. q = [p EXCEPT !.ucheck = "zero"]
  BY <1>1, <1>6, <1>7, <1>8 DEF PktType
<1>11. Parses(q)
  <2>1. q.udp_len \in Nat
    BY <1>5 DEF PktType
  <2> QED BY <1>5, <2>1 DEF HeaderOK, Parses, PayloadLen, UdpBytes, HdrBytes
<1>12. Unpads(q.body, FALSE) /\ Text(q) = m
  <2>1. q.udp_len = UdpBytes + HdrBytes + (m.len + PadBody(m.len))
    BY <1>7, <1>6 DEF p, ChatFrame
  <2>2. m.len \in Nat /\ PadBody(m.len) \in Nat /\ m = [data |-> m.data, len |-> m.len]
    BY ChatBody DEF BlockBytes, Messages
  <2>3. q.body.pad = PadBody(m.len)
    BY <1>3, <1>8
  <2>4. BodyLen(q) - q.body.pad = m.len
    BY <2>1, <2>2, <2>3 DEF BodyLen, PayloadLen, UdpBytes, HdrBytes
  <2> QED BY <1>4, <1>8, <2>2, <2>4 DEF Unpads, Text
<1> QED BY <1>8, <1>9, <1>10, <1>11, <1>12 DEF p, sealed, q
=============================================================================
