------------------------------- MODULE Framed -------------------------------
(***************************************************************************)
(* The framed mode end to end: scripts/udp_chat_client.py and              *)
(* tools/udp_bench_sender.c build EBAF frames, src/bpf/tc_crypto.bpf.c on  *)
(* the host's egress encrypts them, the wire loses, duplicates and         *)
(* reorders them, the peer's ingress runs src/bpf/xdp_crypto.bpf.c,        *)
(* tc_crypto or both in turn (--hook xdp, tc, both), and                   *)
(* scripts/udp_chat_server.py prints what it can parse.                    *)
(*                                                                         *)
(* A frame carries the hooks it still has to pass.  One run of a hook is   *)
(* one step, and the hooks of one loader share its counters, its           *)
(* configuration and its crypto context.  Neither program drops a frame.   *)
(***************************************************************************)
EXTENDS EbafProto, Sequences

CONSTANTS
  Data,       \* texts of the senders
  Lens,       \* their lengths in bytes
  BenchSizes, \* body sizes the benchmark's sender is started with
  Others,     \* what else arrives on the interface: frames built by hand
  IVs,        \* values os.urandom can produce
  Configs,    \* pairs of configurations: host, peer
  Paths,      \* pairs of hook sequences: host egress, peer ingress
  Keys,
  Faults,     \* helper calls that may fail
  PeerLinear, \* is the payload in the linear area of the peer's skb?
  MaxSent,    \* bound: frames sent
  MaxRepeats  \* bound: frames duplicated

Sides == {"host", "peer"}

HookPaths == {<<>>, <<"tc">>, <<"xdp">>, <<"xdp", "tc">>}

Messages == [data : Data, len : Lens]

ConfigType == [action : Actions, algo : Algos, port : Nat, key : Keys]

FaultPoints == {"none", "no_config", "no_crypto_ctx", "dynptr", "crypto"}

ShapeType == [proto : {"ip", "other"}, ihl : Nat, frag : BOOLEAN,
              l4 : {"udp", "other"}, dport : Nat]

Byte == 0..255

\* struct ebaf_crypto_header as it lies in the packet, numbers byte by byte.
HdrType == [magic : {"EBAF", "FABE", "other"}, version : {1, 2}, action : Actions,
            payload_len : Byte \X Byte, iv : IVs]

BodyType == [form : {"plain", "sealed", "junk"}, msg : Messages, pad : 0..BlockBytes,
             algo : Algos, key : Keys \union {NoKey}, iv : IVs \union {NoIv}]

\* lin: bytes of the frame a program finds between data and data_end; hdr: the
\* first 24 bytes of the payload; body: the rest.
PktType == [shape : ShapeType, lin : Nat, udp_len : Nat, hdr : HdrType,
            body : BodyType, ucheck : {"sum", "zero", "stale"}]

ASSUME FramedAssumption ==
  /\ Data \intersect {"unreadable", "malformed"} = {}
  /\ \A n \in Lens : n \in Nat /\ n < 1440  \* the frame fits an MTU of 1500
  /\ \A n \in BenchSizes : n \in Nat /\ n >= BlockBytes /\ Aligned(n) /\ n - 1 \in Lens
  /\ Others \subseteq {p \in PktType : p.ucheck # "stale"}
  /\ IVs \subseteq Nat \ {NoIv}
  /\ Configs \subseteq [Sides -> ConfigType]
  /\ Paths \subseteq {w \in [Sides -> HookPaths] : w["host"] \in {<<>>, <<"tc">>}}
  /\ Faults \subseteq FaultPoints /\ PeerLinear \subseteq BOOLEAN
  /\ MaxSent \in Nat /\ MaxRepeats \in Nat

----------------------------------------------------------------------------
(* Byte order.  The header's numbers travel most significant byte first,    *)
(* the machines work least significant byte first.                          *)

\* EBAF_CRYPTO_MAGIC, and what bpf_htonl makes of it.
Magic == "FABE"

Htonl(m) == CASE m = "FABE" -> "EBAF" [] m = "EBAF" -> "FABE" [] OTHER -> m

Version == 1  \* EBAF_CRYPTO_VERSION

\* struct.pack's "!H" and htons: a 16-bit number as it is sent.
Htons(n) == <<n \div 256, n % 256>>

\* bpf_ntohs and struct.unpack's "!H".
Ntohs(bytes) == 256 * bytes[1] + bytes[2]

----------------------------------------------------------------------------
(* The chat client. *)

\* pad_body: PKCS#7, a full block when the text is aligned.
PadBody(n) == BlockBytes - (n % BlockBytes)

UdpShape(port) == [proto |-> "ip", ihl |-> 5, frag |-> FALSE, l4 |-> "udp", dport |-> port]

\* The header both senders write, the magic as the letters it spells.
SentHeader(n, iv) ==
  [magic |-> "EBAF", version |-> Version, action |-> ENCRYPT, payload_len |-> Htons(n),
   iv |-> iv]

ChatFrame(m, iv, port) ==
  LET body == m.len + PadBody(m.len)
  IN  [shape |-> UdpShape(port),
       lin |-> EthBytes + IpBytes + UdpBytes + HdrBytes + body,
       udp_len |-> UdpBytes + HdrBytes + body,
       hdr |-> SentHeader(body, iv),
       body |-> [Plain(m) EXCEPT !.pad = PadBody(m.len)], ucheck |-> "sum"]

\* tools/udp_bench_sender.c: a body in whole blocks that ends in a byte 1,
\* which every receiver takes for one byte of padding.
BenchFrame(text, n, iv, port) ==
  [shape |-> UdpShape(port),
   lin |-> EthBytes + IpBytes + UdpBytes + HdrBytes + n,
   udp_len |-> UdpBytes + HdrBytes + n,
   hdr |-> SentHeader(n, iv),
   body |-> [Plain([data |-> text, len |-> n - 1]) EXCEPT !.pad = 1], ucheck |-> "sum"]

----------------------------------------------------------------------------
(* The exit a hook takes.  Each check names the exit or lets the frame go  *)
(* on to the next one; an exit that is a counter is named for it.          *)

Then(exit, next) == IF exit # "go" THEN exit ELSE next

L4Off(p) == EthBytes + 4 * p.shape.ihl

PayloadLen(p) == p.udp_len - UdpBytes

CheckIp(p) ==
  IF p.lin < EthBytes THEN "bad_eth"
  ELSE IF p.shape.proto # "ip" THEN "passed"
  ELSE IF p.lin < EthBytes + IpBytes \/ p.shape.ihl < 5 \/ p.lin < L4Off(p) THEN "bad_ip"
  ELSE "go"

\* Only the TC program looks at the fragment bits.
CheckFragment(p) == IF p.shape.frag THEN "bad_ip" ELSE "go"

CheckUdp(p, fault) ==
  IF p.shape.l4 # "udp" THEN "passed"
  ELSE IF p.lin < L4Off(p) + UdpBytes THEN "bad_udp"
  ELSE IF fault = "no_config" THEN "no_config"
  ELSE "go"

\* Only the TC program leaves every algorithm but CBC to others.
CheckAlgo(c) == IF c.algo # CBC THEN "passed" ELSE "go"

CheckPayload(c, p) ==
  IF p.shape.dport # c.port THEN "passed"
  ELSE IF p.udp_len < UdpBytes \/ L4Off(p) + p.udp_len > p.lin THEN "bad_udp"
  ELSE IF PayloadLen(p) < HdrBytes THEN "bad_length"
  ELSE "go"

CheckMagic(p) ==
  IF p.hdr.magic # Htonl(Magic) \/ p.hdr.version # Version THEN "bad_magic" ELSE "go"

\* Only the TC program looks at the header's action, and it accepts one.
CheckAction(p) == IF p.hdr.action = ENCRYPT THEN "go" ELSE "bad_magic"

BodyLen(p) == PayloadLen(p) - HdrBytes

\* Mutant: the length is compared as it lies in the packet.
CheckLengthHostOrder(p) ==
  IF p.hdr.payload_len[1] + 256 * p.hdr.payload_len[2] # BodyLen(p) \/ BodyLen(p) = 0
  THEN "bad_length" ELSE "go"

CheckLength(p) ==
  IF Ntohs(p.hdr.payload_len) # BodyLen(p) \/ BodyLen(p) = 0 THEN "bad_length" ELSE "go"

CheckAlignment(c, p) ==
  IF c.algo = CBC /\ ~Aligned(BodyLen(p)) THEN "bad_alignment" ELSE "go"

Crypt(fault) == IF fault = "none" THEN "ok" ELSE fault

TcExit(c, p, fault) ==
  Then(CheckIp(p), Then(CheckFragment(p), Then(CheckUdp(p, fault),
  Then(CheckAlgo(c), Then(CheckPayload(c, p), Then(CheckMagic(p), Then(CheckAction(p),
  Then(CheckLength(p), Then(CheckAlignment(c, p), Crypt(fault))))))))))

XdpExit(c, p, fault) ==
  Then(CheckIp(p), Then(CheckUdp(p, fault), Then(CheckPayload(c, p),
  Then(CheckMagic(p), Then(CheckLength(p), Then(CheckAlignment(c, p), Crypt(fault)))))))

Exit(hook, c, p, fault) ==
  IF hook = "tc" THEN TcExit(c, p, fault) ELSE XdpExit(c, p, fault)

----------------------------------------------------------------------------
(* What it leaves: the packet, and the counters bumped. *)

\* Mutant: the header keeps the value the kfunc left in it.
RestoredIvChained(iv) == ClobberedIv

\* saved_iv: the kfunc works on the IV in the header, which is put back.
RestoredIv(iv) == iv

Crypted(c, p) ==
  [shape |-> p.shape, lin |-> p.lin, udp_len |-> p.udp_len,
   hdr |-> [p.hdr EXCEPT !.iv = RestoredIv(@)],
   body |-> Kfunc(c.action, c.algo, c.key, p.hdr.iv, p.body),
   ucheck |-> "zero"]

\* Mutant: a failing kfunc is counted as a malformed packet too.
BumpsFailMalformed(exit) ==
  CASE exit = "passed" -> {"passed"}
    [] exit = "ok" -> {"crypto_ok"}
    [] exit \in {"no_config", "dynptr", "crypto"} -> {"crypto_fail", "malformed"}
    [] OTHER -> Bad(exit)

\* Mutant: a missing crypto context is not counted.
BumpsSilent(exit) ==
  CASE exit = "passed" -> {"passed"}
    [] exit = "ok" -> {"crypto_ok"}
    [] exit \in {"no_config", "dynptr", "crypto"} -> {"crypto_fail"}
    [] exit = "no_crypto_ctx" -> {}
    [] OTHER -> Bad(exit)

\* The counters of an exit, the same in both programs.
Bumps(exit) ==
  CASE exit = "passed" -> {"passed"}
    [] exit = "ok" -> {"crypto_ok"}
    [] exit \in {"no_config", "dynptr", "crypto"} -> {"crypto_fail"}
    [] OTHER -> Bad(exit)

----------------------------------------------------------------------------
(* The chat server. *)

\* parse_packet, on what the socket returned.
Parses(p) ==
  /\ PayloadLen(p) >= HdrBytes
  /\ p.hdr.magic = "EBAF" /\ p.hdr.version = Version /\ p.hdr.action = ENCRYPT
  /\ Ntohs(p.hdr.payload_len) = BodyLen(p) /\ BodyLen(p) # 0 /\ Aligned(BodyLen(p))

\* unpad_body: the padding of the client, or a body whose last bytes look
\* like one by chance.
Unpads(b, chance) == (b.form = "plain" /\ b.pad > 0) \/ chance

\* What is printed, decoded with errors="replace": the body without as many
\* bytes as its last one says.  The length of a text nobody can read is left out.
Text(p) ==
  IF p.body.form = "plain" /\ p.body.pad > 0
  THEN [data |-> p.body.msg.data, len |-> BodyLen(p) - p.body.pad]
  ELSE [data |-> "unreadable", len |-> 0]

Malformed == [data |-> "malformed", len |-> 0]

----------------------------------------------------------------------------
(* The system. *)

VARIABLES
  cfg,      \* side -> configuration of its loader
  path,     \* side -> hooks its loader attached
  stats,    \* side -> counters
  flight,   \* frames between the sender's and the receiver's socket
  nsent,    \* frames sent
  repeats,  \* frames duplicated
  shown     \* what the server made of each datagram it received

vars == <<cfg, path, stats, flight, nsent, repeats, shown>>

Init ==
  /\ cfg \in Configs
  /\ path \in Paths
  /\ stats = [side \in Sides |-> ZeroStats]
  /\ flight = {} /\ nsent = 0 /\ repeats = 0 /\ shown = {}

\* A frame enters the host's egress, in one piece.  chat: was it built by a
\* sender of ours?  linear: is its payload in the skb's linear area?
\* exits and oks record, for the properties, the exits taken on each side and
\* how often the frame was encrypted or decrypted there.
Send(p, chat) ==
  /\ nsent < MaxSent
  /\ nsent' = nsent + 1
  /\ flight' = flight \union
       {[pkt |-> p, chat |-> chat, side |-> "host", linear |-> TRUE,
         hooks |-> path["host"], exits |-> [side \in Sides |-> {}], oks |-> [side \in Sides |-> 0]]}
  /\ UNCHANGED <<cfg, path, stats, repeats, shown>>

SendChat == \E m \in Messages, iv \in IVs : Send(ChatFrame(m, iv, cfg["host"].port), TRUE)

SendBench ==
  \E text \in Data, n \in BenchSizes, iv \in IVs :
    Send(BenchFrame(text, n, iv, cfg["host"].port), TRUE)

SendOther == \E p \in Others : Send(p, FALSE)

\* A frame one hook further.
Handled(f, c, exit) ==
  [pkt |-> IF exit = "ok" THEN Crypted(c, f.pkt) ELSE f.pkt,
   chat |-> f.chat, side |-> f.side, linear |-> f.linear, hooks |-> Tail(f.hooks),
   exits |-> [f.exits EXCEPT ![f.side] = @ \union {exit}],
   oks |-> [f.oks EXCEPT ![f.side] = IF exit = "ok" THEN @ + 1 ELSE @]]

\* What the next hook finds: the whole frame in XDP, which runs on the driver's
\* buffer, and the linear area of the skb in TC, which at least holds the
\* headers.  tc_crypto does not pull the rest in.
Seen(f) ==
  LET headers == L4Off(f.pkt) + UdpBytes
  IN  IF Head(f.hooks) = "tc" /\ ~f.linear /\ headers < f.pkt.lin
      THEN [f.pkt EXCEPT !.lin = headers] ELSE f.pkt

\* The next hook on the frame's way runs to completion.
RunHook(f, fault) ==
  LET c == cfg[f.side]
      exit == Exit(Head(f.hooks), c, Seen(f), fault)
  IN  /\ f.hooks # <<>>
      /\ flight' = (flight \ {f}) \union {Handled(f, c, exit)}
      /\ stats' = [stats EXCEPT ![f.side] = Count(@, Bumps(exit))]
      /\ UNCHANGED <<cfg, path, nsent, repeats, shown>>

OnWire(f) == f.side = "host" /\ f.hooks = <<>>

\* The frame reaches the peer, whose driver lays it out; a copy may follow it.
Arrive(f, linear, again) ==
  /\ OnWire(f)
  /\ again => repeats < MaxRepeats
  /\ repeats' = IF again THEN repeats + 1 ELSE repeats
  /\ flight' = (IF again THEN flight ELSE flight \ {f}) \union
       {[pkt |-> f.pkt, chat |-> f.chat, side |-> "peer", linear |-> linear,
         hooks |-> path["peer"], exits |-> f.exits, oks |-> f.oks]}
  /\ UNCHANGED <<cfg, path, stats, nsent, shown>>

Lose(f) ==
  /\ OnWire(f)
  /\ flight' = flight \ {f}
  /\ UNCHANGED <<cfg, path, stats, nsent, repeats, shown>>

\* The stack hands a whole datagram with a valid checksum to the server's
\* socket, bound to the port the client sends to, and drops anything else.
Deliverable(p) ==
  /\ p.shape.dport = cfg["host"].port
  /\ p.shape.proto = "ip" /\ p.shape.ihl >= 5 /\ ~p.shape.frag /\ p.shape.l4 = "udp"
  /\ p.udp_len >= UdpBytes /\ L4Off(p) + p.udp_len <= p.lin
  /\ p.ucheck # "stale"

\* The server prints the text of a datagram or reports it as malformed.
Receive(f, chance) ==
  LET p == f.pkt
      printed == Parses(p) /\ Unpads(p.body, chance)
  IN  /\ f.side = "peer" /\ f.hooks = <<>>
      /\ flight' = flight \ {f}
      /\ shown' = IF ~Deliverable(p) THEN shown
                  ELSE shown \union
                    {[text |-> IF printed THEN Text(p) ELSE Malformed,
                      msg |-> p.body.msg, chat |-> f.chat, oks |-> f.oks]}
      /\ UNCHANGED <<cfg, path, stats, nsent, repeats>>

RunSomeHook == \E f \in flight, fault \in Faults : RunHook(f, fault)

ArriveSome ==
  \E f \in flight, linear \in PeerLinear, again \in BOOLEAN : Arrive(f, linear, again)

LoseSome == \E f \in flight : Lose(f)

ReceiveSome == \E f \in flight, chance \in BOOLEAN : Receive(f, chance)

Next ==
  \/ SendBench \/ SendChat \/ SendOther
  \/ RunSomeHook \/ ArriveSome \/ LoseSome \/ ReceiveSome

Spec == Init /\ [][Next]_vars

----------------------------------------------------------------------------
(* Properties. *)

Exits == {"passed", "ok", "no_config", "dynptr", "crypto"} \union Reasons

FrameType ==
  [pkt : PktType, chat : BOOLEAN, side : Sides, linear : BOOLEAN, hooks : HookPaths,
   exits : [Sides -> SUBSET Exits], oks : [Sides -> Nat]]

\* The state has its type: in particular the header of a frame always holds
\* an IV a sender put there, and every exit is a listed one.
TypeOK ==
  /\ cfg \in [Sides -> ConfigType] /\ path \in [Sides -> HookPaths]
  /\ stats \in [Sides -> [Counters -> Nat]]
  /\ flight \subseteq FrameType
  /\ nsent \in 0..MaxSent /\ repeats \in 0..MaxRepeats
  /\ shown \subseteq [text : [data : Data \union {"unreadable", "malformed"}, len : Nat],
                      msg : Messages, chat : BOOLEAN, oks : [Sides -> Nat]]

\* The host encrypts, the peer decrypts, with one algorithm, key and port.
Matched ==
  /\ cfg["host"] = [cfg["peer"] EXCEPT !.action = ENCRYPT]
  /\ cfg["peer"].action = DECRYPT

MatchedCbc == Matched /\ cfg["peer"].algo = CBC

\* Between matched CBC peers the server prints the text the client sent, in its
\* whole length, when every encryption on the way met one decryption and no text
\* otherwise, whatever failed, was duplicated or reordered.  Two hooks of one
\* loader (--hook both) that decrypt the same frame are such a mismatch.
TextIntact ==
  MatchedCbc =>
    \A d \in shown : d.chat =>
      IF d.oks["host"] = d.oks["peer"] THEN d.text = d.msg
      ELSE d.text.data \in {"unreadable", "malformed"}

\* Every run of a hook is counted under exactly one outcome, and malformed is
\* the sum of the reasons, also when two hooks share the counters.
StatsExact ==
  \A side \in Sides :
    LET s == stats[side]
    IN  /\ s["seen"] = s["passed"] + s["crypto_ok"] + s["crypto_fail"] + s["malformed"]
        /\ s["malformed"] = ReasonTotal(s)

HasTc(hooks) == hooks \in {<<"tc">>, <<"xdp", "tc">>}

\* The one reason of its own the receiving TC hook may have: the driver left the
\* payload where the program does not reach it.
Excused(f, side) ==
  IF side = "peer" /\ ~f.linear /\ HasTc(path["peer"]) THEN {"bad_udp"} ELSE {}

\* The client, the benchmark's sender, the two programs and the server write or
\* check one header, each in its own way: no frame of the senders is malformed to
\* any of them, unless the crypto context is missing, the TC hook of the peer
\* finds the payload outside the linear area, or the body is no longer the
\* sender's.
HeaderAgreed ==
  /\ \A f \in flight, side \in Sides :
       f.chat => f.exits[side] \intersect Reasons \subseteq {"no_crypto_ctx"} \union Excused(f, side)
  /\ \A d \in shown :
       d.chat /\ d.text = Malformed => d.oks["host"] + d.oks["peer"] > 0

\* Nothing was let pass, failed or was malformed so far.
Quiet(s) == s["passed"] = 0 /\ s["crypto_fail"] = 0 /\ s["malformed"] = 0

\* The hooks fail open, so the counters are all that tells of a frame that was
\* not encrypted or not decrypted.  They do tell: as long as those of two matched
\* CBC ends with one hook each are quiet, every frame of the senders crossed the
\* wire encrypted and every text printed is the one sent.
QuietMeansRight ==
  /\ MatchedCbc /\ path["host"] = <<"tc">> /\ path["peer"] \in {<<"tc">>, <<"xdp">>}
  /\ \A side \in Sides : Quiet(stats[side])
  => /\ \A f \in flight : f.chat /\ OnWire(f) => f.pkt.body.form = "sealed"
     /\ \A d \in shown : d.chat => d.text = d.msg

\* README.md, Packet Formats, Framed XDP/TC Mode: "action: 1 encrypt or 2
\* decrypt".  A frame with the right magic is not refused for its action.
ActionAccepted ==
  \A f \in flight, side \in Sides :
    CheckMagic(f.pkt) = "go" => "bad_magic" \notin f.exits[side]

\* README.md, Crypto Modes: "chacha20: kernel chacha20, 256-bit stream
\* cipher, framed path only".  A hook of the framed path does not pass by a
\* frame of the client when no helper fails.
FramedPathCrypts ==
  \A f \in flight : f.chat => "passed" \notin f.exits["host"]
=============================================================================
