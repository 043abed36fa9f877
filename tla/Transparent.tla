---------------------------- MODULE Transparent ----------------------------
(***************************************************************************)
(* Transparent TC mode, src/bpf/tc_transparent.bpf.c, end to end: an       *)
(* application on the host sends plain datagrams, the program on the       *)
(* host's egress hook runs on each, the wire loses, duplicates and         *)
(* reorders them, the program on the peer's ingress hook runs on what      *)
(* arrives, and the peer's stack hands the payload to the application.     *)
(*                                                                         *)
(* One run of the program is one step: it runs to completion on a packet   *)
(* it owns, and the counters it shares with other CPUs are atomic adds.    *)
(* The program never drops a packet (every path returns TC_ACT_OK), so     *)
(* what matters is in which condition each exit leaves the packet.  A run  *)
(* is described by its exit (the label of the return it takes), by what    *)
(* the packet looks like at that exit and by the counters bumped.          *)
(***************************************************************************)
EXTENDS EbafProto, FiniteSets

CONSTANTS
  Data,         \* message contents
  Lens,         \* message lengths in bytes
  Shapes,       \* header shapes of the frames the host emits
  HostConfigs,  \* configurations of the host's ebaf-crypto
  PeerConfigs,  \* configurations of the peer's ebaf-crypto
  Keys,         \* AES keys
  IVs,          \* values fill_iv can produce
  HostFaults,   \* helper calls that may fail on the host
  PeerFaults,   \* helper calls that may fail on the peer
  PeerLinear,   \* may the peer's driver leave the payload in fragments?
  PadBytes,     \* last byte of a body that is not padded text
  Mtu,          \* of both interfaces
  MaxSent       \* bound: frames the host emits

----------------------------------------------------------------------------
(* Packets and configurations. *)

Sides == {"host", "peer"}

Messages == [data : Data, len : Lens]

\* Helper calls that can fail, named for the call.
ResizeFaults == {"len_load", "csum", "ip_store", "udp_store", "check_store"}

KfuncFaults == {"no_ctx", "dynptr_pkt", "dynptr_body", "dynptr_iv", "crypto"}

Faults == {"none", "no_config", "change_tail", "pad_store", "hdr_store",
           "iv_store", "hdr_load", "pad_load"} \union ResizeFaults \union KfuncFaults

PrefixExits == {"bad_eth", "bad_ip", "bad_udp", "passed", "no_config"}

EncryptExits ==
  {"enc_length", "change_tail", "pad_store", "hdr_store", "bad_body",
   "iv_store", "ok"} \union ResizeFaults \union KfuncFaults

DecryptExits ==
  {"dec_short", "hdr_load", "bad_magic", "bad_body", "pad_load", "bad_pad",
   "change_tail", "ok"} \union ResizeFaults \union KfuncFaults

Exits == PrefixExits \union EncryptExits \union DecryptExits

\* struct ebaf_crypto_config, as far as the program reads it.
ConfigType == [action : Actions, algo : Algos, port : Nat, key : Keys]

ShapeType == [proto : {"ip", "other"}, ihl : 5..15, frag : BOOLEAN,
              l4 : {"udp", "other"}, dport : Nat, linear : BOOLEAN]

ASSUME ConstantsAssumption ==
  /\ Lens \subseteq Nat
  /\ Shapes \subseteq ShapeType
  /\ HostConfigs \subseteq ConfigType /\ PeerConfigs \subseteq ConfigType
  /\ IVs \subseteq Nat \ {NoIv}
  /\ HostFaults \subseteq Faults /\ PeerFaults \subseteq Faults
  /\ PeerLinear \subseteq BOOLEAN
  /\ PadBytes \subseteq Nat
  /\ Mtu \in Nat /\ MaxSent \in Nat

\* The trailer appended after the body: struct ebaf_crypto_header at an
\* offset from the start of the UDP payload.
NoTail == [magic |-> FALSE, off |-> 0, payload_len |-> 0, iv |-> NoIv]

Trailer(off, iv) == [magic |-> TRUE, off |-> off, payload_len |-> U16(off), iv |-> iv]

L4Off(p) == EthBytes + 4 * p.shape.ihl

PayloadOff(p) == L4Off(p) + UdpBytes

\* The frame the host's stack builds for a message.  skb holds the bytes
\* between data and data_end and those of the whole frame, hdr the fields
\* update_lengths writes; hexit and pexit record, for the properties only,
\* the exits taken on the host and on the peer.
Frame(m, s) ==
  LET ip == 4 * s.ihl + UdpBytes + m.len
  IN  [shape |-> s,
       skb |-> [lin |-> IF s.linear THEN EthBytes + ip ELSE EthBytes + ip - m.len,
                len |-> EthBytes + ip],
       hdr |-> [ip_len |-> ip, icheck |-> TRUE,
                udp_len |-> UdpBytes + m.len, ucheck |-> "sum"],
       body |-> Plain(m), tail |-> NoTail, hexit |-> "none", pexit |-> "none"]

\* A packet a run has rewritten: the shape of its headers stays.
Rewritten(p, skb, hdr, body, tail) ==
  [shape |-> p.shape, skb |-> skb, hdr |-> hdr, body |-> body, tail |-> tail,
   hexit |-> p.hexit, pexit |-> p.pexit]

----------------------------------------------------------------------------
(* The exit a run takes. *)

PayloadLen(p) == p.hdr.udp_len - UdpBytes

\* Mutant: an aligned payload gets no padding block.
PadLenNoFullBlock(n) == (BlockBytes - (n % BlockBytes)) % BlockBytes

\* pad_len of the encrypt path: 1..16, a full block for an aligned payload.
PadLen(n) == BlockBytes - (n % BlockBytes)

\* The validation both directions share; "go" falls through to them.
PrefixExit(c, p, fault) ==
  IF p.skb.lin < EthBytes THEN "bad_eth"
  ELSE IF p.shape.proto # "ip" THEN "passed"
  ELSE IF p.skb.lin < EthBytes + IpBytes \/ p.shape.ihl # 5 THEN "bad_ip"
  ELSE IF p.skb.lin < L4Off(p) \/ p.shape.frag THEN "bad_ip"
  ELSE IF p.shape.l4 # "udp" THEN "passed"
  ELSE IF p.skb.lin < PayloadOff(p) THEN "bad_udp"
  ELSE IF fault = "no_config" THEN "no_config"
  ELSE IF c.algo # CBC \/ c.action \notin Actions THEN "passed"
  ELSE IF p.shape.dport # c.port THEN "passed"
  ELSE IF p.hdr.udp_len < UdpBytes THEN "bad_udp"
  ELSE IF PayloadOff(p) + PayloadLen(p) > p.skb.lin THEN "bad_udp"
  ELSE "go"

\* Mutant: the limit leaves room for the padding but not for the trailer.
TooLongNoTrailer(n) == n > 1500 - IpBytes - UdpBytes - BlockBytes

TooLong(n) == n > MaxTransparentPayload

\* bpf_skb_change_tail refuses to grow a frame past the device's MTU.
GrowthRefused(p, delta) == p.skb.len + delta > Mtu + EthBytes

EncryptExit(p, fault) ==
  LET n == PayloadLen(p)
  IN  IF n = 0 \/ TooLong(n) THEN "enc_length"
      ELSE IF fault = "change_tail" \/ GrowthRefused(p, PadLen(n) + HdrBytes)
           THEN "change_tail"
      ELSE IF fault \in {"pad_store", "hdr_store"} \union ResizeFaults THEN fault
      ELSE IF ~Aligned(n + PadLen(n)) THEN "bad_body"
      ELSE IF fault \in KfuncFaults \union {"iv_store"} THEN fault
      ELSE "ok"

\* The trailer is recognised where the last 24 payload bytes would hold it.
TrailerAt(p, off) == p.tail.magic /\ p.tail.off = off

\* The pad byte is the last byte of the decrypted body: the padding's own
\* length if the body is padded text, any byte otherwise.
PadByte(b, byte) == IF b.form = "plain" /\ b.pad > 0 THEN b.pad ELSE byte

\* Mutant: only an empty padding is refused.
PadRefusedZero(pad, bodyLen) == pad < 1

PadRefused(pad, bodyLen) == pad < 1 \/ pad > BlockBytes \/ pad > bodyLen

Decrypted(c, p) == Kfunc(DECRYPT, CBC, c.key, p.tail.iv, p.body)

DecryptExit(c, p, fault, byte) ==
  LET n == PayloadLen(p)
      bodyLen == n - HdrBytes
      pad == PadByte(Decrypted(c, p), byte)
  IN  IF n < HdrBytes THEN "dec_short"
      ELSE IF fault = "hdr_load" THEN "hdr_load"
      ELSE IF ~TrailerAt(p, bodyLen) THEN "bad_magic"
      ELSE IF bodyLen = 0 \/ ~Aligned(bodyLen) THEN "bad_body"
      ELSE IF p.tail.payload_len # bodyLen THEN "bad_body"
      ELSE IF fault \in KfuncFaults \union {"pad_load"} THEN fault
      ELSE IF PadRefused(pad, bodyLen) THEN "bad_pad"
      ELSE IF fault = "change_tail" THEN "change_tail"
      ELSE IF p.hdr.ip_len < pad + HdrBytes \/ p.hdr.udp_len < pad + HdrBytes THEN "len_load"
      ELSE IF fault \in ResizeFaults THEN fault
      ELSE "ok"

----------------------------------------------------------------------------
(* What the packet looks like at that exit. *)

\* A UDP checksum that is not zero no longer matches bytes that changed.
Outdated(ucheck) == IF ucheck = "zero" THEN "zero" ELSE "stale"

\* Mutant: the UDP checksum is left as it was.
UpdateLengthsKeepsCheck(h, ip, udp, fault) ==
  CASE fault \in {"len_load", "csum"} -> h
    [] fault = "ip_store" -> [h EXCEPT !.icheck = FALSE]
    [] fault = "udp_store" -> [h EXCEPT !.ip_len = ip]
    [] OTHER -> [ip_len |-> ip, icheck |-> h.icheck,
                 udp_len |-> udp, ucheck |-> Outdated(h.ucheck)]

\* update_lengths: IP checksum, IP length, UDP length and UDP checksum are
\* written in this order; a failing call leaves the earlier writes in place.
UpdateLengths(h, ip, udp, fault) ==
  CASE fault \in {"len_load", "csum"} -> h
    [] fault = "ip_store" -> [h EXCEPT !.icheck = FALSE]
    [] fault = "udp_store" -> [h EXCEPT !.ip_len = ip]
    [] OTHER -> [ip_len |-> ip, icheck |-> h.icheck, udp_len |-> udp,
                 ucheck |-> IF fault = "check_store" THEN Outdated(h.ucheck) ELSE "zero"]

\* Mutant: the trailer keeps the value the kfunc left behind.
ChainedIv(iv) == ClobberedIv

\* After a successful encryption the original IV is written back over the
\* chained value the kfunc left in the trailer.
RestoredIv(iv) == iv

\* bpf_skb_change_tail, after which the whole frame is linear.
Resized(len) == [lin |-> len, len |-> len]

PaddedBody(p) == [p.body EXCEPT !.pad = PadLen(PayloadLen(p))]

EncryptPkt(c, p, exit, iv) ==
  LET n == PayloadLen(p)
      delta == PadLen(n) + HdrBytes
      skb == Resized(p.skb.len + delta)
      hdr == UpdateLengths(p.hdr, U16(p.hdr.ip_len + delta),
                           U16(p.hdr.udp_len + delta), exit)
      sealed == Kfunc(ENCRYPT, CBC, c.key, iv, PaddedBody(p))
      tail(v) == Trailer(n + PadLen(n), v)
  IN  CASE exit \in {"enc_length", "change_tail"} -> p
        [] exit = "pad_store" -> Rewritten(p, skb, p.hdr, p.body, p.tail)
        [] exit = "hdr_store" -> Rewritten(p, skb, p.hdr, PaddedBody(p), p.tail)
        [] exit \in ResizeFaults \union KfuncFaults \union {"bad_body"} ->
             Rewritten(p, skb, hdr, PaddedBody(p), tail(iv))
        [] exit = "iv_store" -> Rewritten(p, skb, hdr, sealed, tail(ClobberedIv))
        [] exit = "ok" -> Rewritten(p, skb, hdr, sealed, tail(RestoredIv(iv)))

DecryptPkt(c, p, exit, byte) ==
  LET opened == Decrypted(c, p)
      read == [p.hdr EXCEPT !.ucheck = Outdated(p.hdr.ucheck)]
      delta == PadByte(opened, byte) + HdrBytes
      hdr == UpdateLengths(read, p.hdr.ip_len - delta, p.hdr.udp_len - delta, exit)
  IN  CASE exit \in {"dec_short", "hdr_load", "bad_magic", "bad_body"}
                      \union KfuncFaults -> p
        [] exit \in {"pad_load", "bad_pad", "change_tail"} ->
             Rewritten(p, p.skb, read, opened, [p.tail EXCEPT !.iv = ClobberedIv])
        [] exit \in ResizeFaults \union {"ok"} ->
             Rewritten(p, Resized(p.skb.len - delta), hdr,
                       [opened EXCEPT !.pad = 0], NoTail)

----------------------------------------------------------------------------
(* The counters it bumps and the event it emits. *)

PrefixBumps(exit) ==
  CASE exit = "passed" -> {"passed"}
    [] exit = "no_config" -> {"crypto_fail"}
    [] OTHER -> Bad(exit)

KfuncBumps(exit) ==
  CASE exit = "no_ctx" -> Bad("no_crypto_ctx")
    [] exit = "dynptr_pkt" -> Bad("bad_alignment")
    [] exit = "dynptr_body" -> Bad("bad_length")
    [] exit = "dynptr_iv" -> Bad("bad_magic")
    [] exit = "crypto" -> Bad("crypto_fail")

EncryptBumps(exit) ==
  CASE exit \in {"enc_length", "change_tail", "bad_body"} -> Bad("bad_length")
    [] exit = "pad_store" -> Bad("bad_udp")
    [] exit \in {"hdr_store", "iv_store"} -> Bad("bad_magic")
    [] exit \in ResizeFaults -> Bad("bad_ip")
    [] exit \in KfuncFaults -> KfuncBumps(exit)
    [] exit = "ok" -> {"crypto_ok"}

\* Mutant: a bad padding bumps its reason without the malformed total.
DecryptBumpsReasonOnly(exit) ==
  CASE exit \in {"dec_short", "bad_body"} -> Bad("bad_length")
    [] exit = "hdr_load" -> {"crypto_fail"}
    [] exit = "bad_magic" -> Bad("bad_magic")
    [] exit \in KfuncFaults -> KfuncBumps(exit)
    [] exit = "bad_pad" -> {"crypto_ok", "bad_length"}
    [] exit \in ResizeFaults \union {"pad_load", "change_tail"} ->
         {"crypto_ok", "crypto_fail"}
    [] exit = "ok" -> {"crypto_ok"}

\* crypto_ok is counted before the padding is looked at.
DecryptBumps(exit) ==
  CASE exit \in {"dec_short", "bad_body"} -> Bad("bad_length")
    [] exit = "hdr_load" -> {"crypto_fail"}
    [] exit = "bad_magic" -> Bad("bad_magic")
    [] exit \in KfuncFaults -> KfuncBumps(exit)
    [] exit = "bad_pad" -> {"crypto_ok"} \union Bad("bad_length")
    [] exit \in ResizeFaults \union {"pad_load", "change_tail"} ->
         {"crypto_ok", "crypto_fail"}
    [] exit = "ok" -> {"crypto_ok"}

\* One run of tc_transparent under configuration c on packet p.
TcTransparent(c, p, fault, iv, byte) ==
  LET pre == PrefixExit(c, p, fault)
      enc == EncryptExit(p, fault)
      dec == DecryptExit(c, p, fault, byte)
  IN  IF pre # "go"
      THEN [exit |-> pre, pkt |-> p, bumps |-> PrefixBumps(pre)]
      ELSE IF c.action = ENCRYPT
      THEN [exit |-> enc, pkt |-> EncryptPkt(c, p, enc, iv), bumps |-> EncryptBumps(enc)]
      ELSE [exit |-> dec, pkt |-> DecryptPkt(c, p, dec, byte), bumps |-> DecryptBumps(dec)]

\* Mutant: the sample is taken before the kfunc runs.
EventTooEarly(c, p, r) ==
  [action |-> c.action, payload_len |-> PayloadLen(p), sample |-> p.body.form,
   hexit |-> p.hexit]

\* emit_event: a sample of the body as it is once the kfunc has run, before
\* the padding is removed; nothing if the ring buffer is full.  hexit is there
\* for the properties only.
Event(c, p, r) ==
  [action |-> c.action, payload_len |-> PayloadLen(p), sample |-> r.pkt.body.form,
   hexit |-> p.hexit]

Emitted(c, p, r, room) ==
  IF "crypto_ok" \in r.bumps /\ room THEN {Event(c, p, r)} ELSE {}

----------------------------------------------------------------------------
(* The system. *)

VARIABLES
  cfg,     \* side -> its configuration, fixed before the hook is attached
  stats,   \* side -> counters
  events,  \* side -> events published in its ring buffer
  sent,    \* messages handed to the host's stack
  nsent,   \* frames the host has emitted
  wire,    \* frames in flight
  inbox    \* frames the peer's stack delivered to a socket

vars == <<cfg, stats, events, sent, nsent, wire, inbox>>

Init ==
  /\ cfg \in {[side \in Sides |-> IF side = "host" THEN h ELSE p] :
                h \in HostConfigs, p \in PeerConfigs}
  /\ stats = [side \in Sides |-> ZeroStats]
  /\ events = [side \in Sides |-> {}]
  /\ sent = {} /\ nsent = 0
  /\ wire = {} /\ inbox = {}

\* The counters and events of a run r on packet p at one side.
Record(side, p, r, room) ==
  /\ stats' = [stats EXCEPT ![side] = Count(@, r.bumps)]
  /\ events' = [events EXCEPT ![side] = @ \union Emitted(cfg[side], p, r, room)]

\* sendto() on the host: the stack builds the frame and the egress hook runs
\* before the driver gets it.
Transmit(m, s, fault, iv, byte, room) ==
  LET p == Frame(m, s)
      r == TcTransparent(cfg["host"], p, fault, iv, byte)
  IN  /\ nsent < MaxSent
      /\ nsent' = nsent + 1
      /\ sent' = sent \union {m}
      /\ wire' = wire \union {[r.pkt EXCEPT !.hexit = r.exit]}
      /\ Record("host", p, r, room)
      /\ UNCHANGED <<cfg, inbox>>

\* The peer's stack: the IP checksum and the nesting of the lengths are
\* verified; the socket gets udp_len - 8 bytes.  A stale UDP checksum is
\* dropped or accepted depending on offloads: dropping is Lose.
Deliverable(p) ==
  /\ p.shape.proto = "ip" /\ ~p.shape.frag /\ p.shape.l4 = "udp"
  /\ p.hdr.icheck
  /\ p.skb.len >= EthBytes + p.hdr.ip_len
  /\ p.hdr.ip_len >= 4 * p.shape.ihl + p.hdr.udp_len

\* The driver may leave the payload outside the linear area.
Arriving(w, linear) ==
  [w EXCEPT !.skb = [lin |-> IF linear THEN w.skb.len ELSE PayloadOff(w),
                     len |-> w.skb.len]]

\* A frame reaches the peer's ingress hook, and the stack behind it.  The
\* wire may hold another copy of it.
Receive(w, linear, fault, iv, byte, room, again) ==
  LET p == Arriving(w, linear)
      r == TcTransparent(cfg["peer"], p, fault, iv, byte)
      q == [r.pkt EXCEPT !.pexit = r.exit]
  IN  /\ w \in wire
      /\ wire' = IF again THEN wire ELSE wire \ {w}
      /\ inbox' = IF Deliverable(q) THEN inbox \union {q} ELSE inbox
      /\ Record("peer", p, r, room)
      /\ UNCHANGED <<cfg, sent, nsent>>

\* A duplicate costs the bound on frames: MaxSent bounds arrivals as well.
CanRepeat == stats["peer"]["seen"] + Cardinality(wire) < MaxSent

Lose(w) ==
  /\ w \in wire
  /\ wire' = wire \ {w}
  /\ UNCHANGED <<cfg, stats, events, sent, nsent, inbox>>

TransmitSome ==
  \E m \in Messages, s \in Shapes, fault \in HostFaults, iv \in IVs,
     byte \in PadBytes, room \in BOOLEAN : Transmit(m, s, fault, iv, byte, room)

ReceiveSome ==
  \E w \in wire, linear \in PeerLinear, fault \in PeerFaults, iv \in IVs,
     byte \in PadBytes, room \in BOOLEAN, again \in BOOLEAN :
       /\ again => CanRepeat
       /\ Receive(w, linear, fault, iv, byte, room, again)

LoseSome == \E w \in wire : Lose(w)

Next == TransmitSome \/ ReceiveSome \/ LoseSome

Spec == Init /\ [][Next]_vars

----------------------------------------------------------------------------
(* Properties. *)

BodyType ==
  [form : {"plain", "sealed", "junk"}, msg : Messages, pad : 0..BlockBytes,
   algo : Algos, key : Keys \union {NoKey}, iv : IVs \union {NoIv}]

TailType ==
  [magic : BOOLEAN, off : Nat, payload_len : Nat, iv : IVs \union {NoIv}]

SkbType == [lin : Nat, len : Nat]

HdrType == [ip_len : Nat, icheck : BOOLEAN, udp_len : {n \in Nat : n >= UdpBytes},
            ucheck : {"sum", "zero", "stale"}]

PacketType ==
  [shape : ShapeType, skb : SkbType, hdr : HdrType, body : BodyType, tail : TailType,
   hexit : Exits \union {"none"}, pexit : Exits \union {"none"}]

EventType == [action : Actions, payload_len : Nat,
              sample : {"plain", "sealed", "junk"}, hexit : Exits \union {"none"}]

\* The state has its type: removing padding and trailer never takes a length
\* below zero nor a UDP length below its header, and every exit of the
\* program is one of the listed ones.
TypeOK ==
  /\ cfg \in [Sides -> ConfigType]
  /\ stats \in [Sides -> [Counters -> Nat]]
  /\ events \in [Sides -> SUBSET EventType]
  /\ sent \subseteq Messages /\ nsent \in 0..MaxSent
  /\ wire \subseteq PacketType /\ inbox \subseteq PacketType

\* The deployment the README describes: the host encrypts and the peer
\* decrypts, with the same key and port.
Matched ==
  /\ cfg["host"].action = ENCRYPT /\ cfg["peer"].action = DECRYPT
  /\ \A side \in Sides : cfg[side].algo = CBC
  /\ cfg["host"].key = cfg["peer"].key /\ cfg["host"].port = cfg["peer"].port

\* What the socket returns for a delivered frame is the message itself.
Intact(p) == p.body.form = "plain" /\ PayloadLen(p) = p.body.msg.len

\* Exits of the encrypt path that leave a frame with trailer and repaired
\* lengths but without a body that can be decrypted: fail-open, too late.
HostMangled == KfuncFaults \union {"iv_store", "check_store"}

\* Exits of the decrypt path that hand an encrypted frame to the stack.
PeerSealed == KfuncFaults \union {"bad_udp", "no_config", "hdr_load", "pad_load",
                                  "change_tail"}

\* Between matched peers, whatever helper fails and whatever the wire does,
\* the application reads the message as it was sent, unless the host gave up
\* after repairing the lengths or the peer gave up on an encrypted frame:
\* early refusals are harmless, no sealed frame is mistaken for a malformed
\* one and no plain one for a sealed one.
DeliveredIntact ==
  Matched => \A p \in inbox :
    Intact(p) \/ p.hexit \in HostMangled \/ (p.hexit = "ok" /\ p.pexit \in PeerSealed)

\* Between matched peers the UDP checksum of a frame is right or switched
\* off: only a failing store on the host can leave a stale one.
ChecksumCurrent ==
  Matched => \A p \in wire \union inbox : p.hdr.ucheck = "stale" => p.hexit = "check_store"

\* EBAF_MAX_TRANSPARENT_PAYLOAD leaves room for the longest padding and the
\* trailer: unless the helper fails of itself, the device never refuses the
\* growth, so no accepted payload leaves in clear text because of its length.
LimitFitsMtu ==
  "change_tail" \notin HostFaults => \A p \in wire : p.hexit # "change_tail"

\* The law the counters of one hook obey.
Accounted(s) ==
  /\ s["seen"] <= s["passed"] + s["crypto_ok"] + s["crypto_fail"] + s["malformed"]
  /\ s["passed"] + s["crypto_ok"] <= s["seen"]
  /\ s["passed"] + s["malformed"] <= s["seen"]
  /\ s["passed"] + s["crypto_fail"] <= s["seen"]
  /\ ReasonTotal(s) <= s["malformed"]
  /\ s["malformed"] <= ReasonTotal(s) + s["crypto_fail"]

\* Every frame seen is accounted for at least once, the passed ones exactly
\* once, and malformed is the sum of the reasons plus those failures of the
\* kfunc that are also counted under crypto_fail.
StatsAccounted == \A side \in Sides : Accounted(stats[side])

\* Between matched peers every event of the host samples ciphertext, and every
\* event of the peer readable text unless the host gave up on that frame after
\* repairing the lengths.
EventsMatchPackets ==
  Matched =>
    /\ \A e \in events["host"] : e.sample = "sealed"
    /\ \A e \in events["peer"] : e.sample = "plain" \/ e.hexit \in HostMangled

\* What the application reads from the socket.
ReadFrom(p) == [data |-> IF p.body.form = "plain" THEN p.body.msg.data ELSE "unreadable",
                len |-> PayloadLen(p)]

\* The frames delivered between matched peers that neither side gave up on.
Promised ==
  {p \in inbox : /\ Matched /\ p.hexit \notin HostMangled
                 /\ ~(p.hexit = "ok" /\ p.pexit \in PeerSealed)}

Channel == INSTANCE DatagramChannel WITH got <- {ReadFrom(p) : p \in Promised}

\* Matched peers, the two hooks and the wire between them implement the plain
\* datagram channel the application had before, whatever fails: a frame that
\* one side gave up on, which the hooks know at their exit, is to the
\* application a datagram lost, and every other is one that was sent.
ImplementsChannel == Channel!Spec
=============================================================================
