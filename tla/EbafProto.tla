----------------------------- MODULE EbafProto -----------------------------
(***************************************************************************)
(* What every eBaF component shares: the constants of                      *)
(* include/crypto_common.h, the counters of struct ebaf_crypto_stats, and  *)
(* the BPF crypto kfuncs.  The kfuncs live in the kernel: they are modelled *)
(* symbolically, by how the programs under src/bpf use them.               *)
(***************************************************************************)
EXTENDS Integers

----------------------------------------------------------------------------
(* Wire constants. *)

BlockBytes == 16              \* EBAF_CRYPTO_BLOCK_BYTES
HdrBytes == 24                \* sizeof(struct ebaf_crypto_header)
MaxTransparentPayload == 1408 \* EBAF_MAX_TRANSPARENT_PAYLOAD
EthBytes == 14                \* sizeof(struct ethhdr)
IpBytes == 20                 \* sizeof(struct iphdr)
UdpBytes == 8                 \* sizeof(struct udphdr)

ENCRYPT == "encrypt"          \* EBAF_ACTION_ENCRYPT
DECRYPT == "decrypt"          \* EBAF_ACTION_DECRYPT
Actions == {ENCRYPT, DECRYPT}

CBC == "cbc-aes"              \* EBAF_ALGO_CBC_AES
CHACHA == "chacha20"          \* EBAF_ALGO_CHACHA20
Algos == {CBC, CHACHA}

\* Lengths travel in 16-bit fields.
U16(n) == n % 65536

Aligned(n) == n % BlockBytes = 0

----------------------------------------------------------------------------
(* Counters, without the packets_ prefix. *)

Reasons == {"bad_eth", "bad_ip", "bad_udp", "bad_magic", "bad_length",
            "bad_alignment", "no_crypto_ctx"}

Counters == {"seen", "passed", "crypto_ok", "crypto_fail", "malformed"}
              \union Reasons

ZeroStats == [c \in Counters |-> 0]

\* stat_bad / stat_reason: the malformed total and the reason, together.
Bad(reason) == {"malformed", reason}

\* One run of a hook counts the packet as seen and bumps the given counters.
Count(stats, bumps) ==
  [c \in Counters |-> stats[c] + IF c = "seen" \/ c \in bumps THEN 1 ELSE 0]

ReasonTotal(s) ==
  s["bad_eth"] + s["bad_ip"] + s["bad_udp"] + s["bad_magic"]
    + s["bad_length"] + s["bad_alignment"] + s["no_crypto_ctx"]

----------------------------------------------------------------------------
(* Payload bytes.  A body is the bytes a kfunc works on, known only up to   *)
(* what a reader can tell: an application message followed by pad bytes     *)
(* ("plain"), that text under one algorithm, key and IV ("sealed"), or      *)
(* bytes nobody can read ("junk").                                          *)

NoIv == 0
NoKey == "no_key"

Plain(msg) == [form |-> "plain", msg |-> msg, pad |-> 0,
               algo |-> CBC, key |-> NoKey, iv |-> NoIv]

Seal(algo, key, iv, b) ==
  [b EXCEPT !.form = "sealed", !.algo = algo, !.key = key, !.iv = iv]

Open(b) == [b EXCEPT !.form = "plain", !.algo = CBC, !.key = NoKey, !.iv = NoIv]

Junk(b) == [b EXCEPT !.form = "junk", !.algo = CBC, !.key = NoKey, !.iv = NoIv]

SealedWith(b, algo, key, iv) ==
  b.form = "sealed" /\ b.algo = algo /\ b.key = key /\ b.iv = iv

\* bpf_crypto_encrypt.  ChaCha20 is a keystream: applying it twice undoes it.
KfuncEncrypt(algo, key, iv, b) ==
  CASE b.form = "plain" -> Seal(algo, key, iv, b)
    [] algo = CHACHA /\ SealedWith(b, algo, key, iv) -> Open(b)
    [] OTHER -> Junk(b)

\* bpf_crypto_decrypt.
KfuncDecrypt(algo, key, iv, b) ==
  CASE SealedWith(b, algo, key, iv) -> Open(b)
    [] algo = CHACHA /\ b.form = "plain" -> Seal(algo, key, iv, b)
    [] OTHER -> Junk(b)

Kfunc(action, algo, key, iv, b) ==
  IF action = ENCRYPT THEN KfuncEncrypt(algo, key, iv, b)
                      ELSE KfuncDecrypt(algo, key, iv, b)

\* The kfuncs take the IV by reference and leave the chained value in it.
ClobberedIv == NoIv
=============================================================================
