# eBaF in TLA+

eBaF encrypts and decrypts UDP payloads inside the Linux kernel: BPF programs on
XDP and TC hooks call the kernel's crypto kfuncs, a loader (`ebaf-crypto`)
attaches them, and Python programs send, receive and show traffic. This
directory holds TLA+ models of the parts that carry the system's own logic, the
TLC configurations that check them on small instances, and proofs, checked by
TLAPS, for every value of the constants.

Paths below are relative to the repository root (`src/bpf/...`,
`scripts/...`). `PROJECT.json` lists components, runs, hazards and theorems, and
for every definition the source lines it stands for.

To repeat: `tlc -config <name>.cfg <module>` for a run, `tlapm <module>Proofs.tla`
for the proofs.

## 1. The system

| Part | Code | State | Operations |
|---|---|---|---|
| Transparent hook | `src/bpf/tc_transparent.bpf.c` | the packet it owns, per-CPU counters, event ring | one run per frame: checks, then encrypt (pad, append a 24-byte trailer, repair lengths, kfunc) or decrypt (check trailer, kfunc, strip padding and trailer, repair lengths) |
| Framed hooks | `src/bpf/tc_crypto.bpf.c`, `src/bpf/xdp_crypto.bpf.c` | the same | one run per frame: check a 24-byte header at the start of the payload, run the kfunc on the body, put the IV back, clear the checksum |
| Context program | `src/bpf/crypto_ctx.bpf.c` | the crypto context in a map | create it, or fail |
| Loader | `src/user/bpf_loader.c`, `src/user/main.c` | skeletons, what is attached, whether the TC hook was made, event ring | start (a dozen calls, each may fail), the loop (statistics, events, signal, duration), stop |
| Command line | `src/user/config.c` | the options read so far | one step per argument, then the checks of the whole |
| Formatting | `event_format.c`, `stats_format.c` | none | formatting |
| Chat client and server | `scripts/udp_chat_client.py`, `scripts/udp_chat_server.py` | a count | build a framed datagram; parse one and print its text |
| Benchmark sender | `tools/udp_bench_sender.c` | a count | build one framed datagram, send it until a deadline |
| Dashboard, shared state | `scripts/demo_live_cipher.py` (`DemoState`, readers, synthetic sender) | `sent_by_seq`, `event_count`, packets, statistics, one lock | `add_event`, notes of messages sent, snapshots |
| Dashboard, processes | `scripts/demo_live_cipher.py` (`Demo`, `main`) | namespace, veth pair, four children, stop event | start, stop, cleanup |
| Page, benchmark scripts, physical-NIC scripts, kernel probe, tests | `web/`, `scripts/`, `tests/` | none of their own | presentation and measurement |

How they meet. The loader writes the configuration into a map and lets the
context program store the crypto context in another *before* it attaches a hook;
the hooks read both on every frame. Hooks add to per-CPU counters and publish
events in a ring buffer; the loader's loop copies the counters, CPU by CPU, and
consumes the ring. Two peers meet only through packets on a wire that loses,
duplicates and reorders. Several `ebaf-crypto` may work on one interface and
meet in the kernel's XDP slot, the clsact qdisc and its filter lists. The
dashboard starts two `ebaf-crypto` and reads their output in one thread each.

What is hard about it, and what makes each part correct:

- **Hooks.** A dozen helper calls change the packet one by one and each can
  fail; the programs never drop, so each exit leaves *some* packet to be
  delivered. Correct: between matched peers the application reads what was
  sent; the UDP checksum is never out of date; lengths stay in range whatever
  pad byte comes out of a decryption; the counters obey one law.
- **IV.** The CBC kfunc overwrites the IV it is given, and that is the one in
  the packet. Correct: it is put back before the packet leaves.
- **Wire.** Correct: each frame can be decoded alone, and a copy again.
- **Many hands on one header.** Two senders write it, two programs and the server
  check it, each in its own way. Correct: they agree on values, lengths and byte
  order, and the hooks, which fail open, let no frame pass untransformed without a
  counter that tells.
- **Command line.** An option takes what follows it for its value, also another
  option; the key's length depends on an option that may come later; `strtoul`
  reads more than numerals in range. Correct: the order of options does not
  matter, and an accepted line gives what the loader and the hooks rely on.
- **Loader.** Any call may fail, a signal or SIGKILL may come at any point, and
  other processes use the same interface. Correct: no hook sees traffic before
  it is ready; a process that ends by itself leaves nothing but what the kernel
  refused to remove; no process takes away another's XDP program; a start returns and a signal ends the program.
- **Running program.** Counters are read while they change and no line is a
  snapshot. Correct: rates are not negative; what a line reports as processed
  the next one reports as seen; events are whole, once, in order; in the end
  the line is exact and the ring is empty, also if the wall clock is set back.
- **Dashboard.** `add_event` takes the lock three times. Correct: no event is
  lost, one reader's numbers grow, a note is missing only when it must be. Two
  threads share the statistics fields. Correct: a rate is that of one process when
  two of its lines follow each other.
  Whatever step of its start fails, no child is left behind, and a namespace or
  link only if its deletion was refused.

`PROJECT.json` lists the 40 hazards, each at its line with the properties that
watch it; those without one say why.

## 2. The modules

| Module | Models | Uses |
|---|---|---|
| `EbafProto` | constants of `include/crypto_common.h`, the counters and how a run is counted, the kfunc as symbolic encryption | |
| `DatagramChannel` | what an application is promised: UDP (abstract specification) | |
| `Transparent` | host hook, wire and peer hook of transparent mode | `EbafProto`; implements `DatagramChannel` |
| `Framed` | chat client and benchmark sender, the hooks on the way, network, chat server | `EbafProto` |
| `Config` | `ebaf_parse_args` | `EbafProto` |
| `Loader` | several `ebaf-crypto` processes and the kernel's attach points | |
| `Runtime` | hooks on several CPUs, the maps, main's loop | |
| `LiveFeed` | two readers and the synthetic sender over `DemoState` | |
| `LiveStats` | the two readers over `DemoState`'s statistics and rates | |
| `LiveDemo` | the dashboard's processes | |
| `MC*` | values for the constants of the runs | the module they are named for |
| `*Proofs` | theorems and proofs | the module they are named for |

### Transparent

A run of the hook is one step: it runs to completion on a packet it owns.
`EncryptExit` and `DecryptExit` say which `return` it takes, as a function of
configuration, packet, failing helper (`fault`), room on the device and, for a
decryption that yields no padded text, its last byte; `EncryptPkt` and
`DecryptPkt` say what the packet is like at that exit, with the effect of every
call made before it; `EncryptBumps` and `DecryptBumps` which counters went up,
and `Emitted` whether an event was published. `TcTransparent` puts them together. The
actions are `TransmitSome` (the application sends; the host hook runs at
egress), `ReceiveSome` (any frame on the wire arrives, in any order, and a copy may
stay behind; the peer hook runs at ingress; the stack checks the result) and
`LoseSome`. A copy counts against `MaxSent` (`CanRepeat`).

The packet is lengths, not bytes: linear and whole length, IP and UDP length
fields, three conditions of the UDP checksum (right, switched off, out of date),
a body that is plain, sealed under an algorithm, key and IV, or junk, and a
trailer at an offset. Encryption is symbolic: a decryption gives the plain body
back exactly when algorithm, key and IV are those of the encryption, else junk.
A trailer is one that a host hook appended: plain application bytes that look like
a trailer by chance are never taken for one here, although the code, which only
compares magic, version and length, would do so.

### Framed

A frame carries its body, header and what happened to it (`exits`, `oks`: how
often a hook on either side transformed it). The header's magic and length are
kept in the order in which they lie in the packet (`Htonl`, `Htons`, `Ntohs`):
each program converts, or forgets to convert, for itself. The offsets of the fields
are abstracted, a header being a record. The two programs are one function
of the checks with two compositions, `TcExit` and `XdpExit`, in the order each
makes them. `path` says which hooks a frame meets on either side: none, TC, XDP,
or XDP and then TC, as `--hook both` attaches them. On the peer the driver may have
left the payload outside the linear area of the skb (`linear`, chosen in `Arrive`);
the TC program, which does not pull it in, then sees the headers alone (`Seen`) and
counts `bad_udp` (`tc_crypto.bpf.c:219`). The XDP program runs on the driver's whole
buffer. That choice is free also after an XDP program has run, which may be more than
some drivers do. `Receive` is the stack and
the server: a datagram that is whole, for its port and with a valid checksum
reaches the server, which parses the header, removes the padding and prints the text
(its content and its length), or reports the datagram as malformed. A junk body may happen to unpad (`chance`).
`SendChat` and `SendBench` are the two senders. The benchmark's body is whole
blocks and ends in a byte 1, which every receiver takes for one byte of padding;
`BenchSizes` are the sizes its argument checks accept and a frame can hold.
`SendOther` are frames built by hand.

### Config

One action per kind of option (`TakeText`, `TakeNumber`, `TakeHook`, `TakeFlag`,
`TakePoint`), each reading the next token as its value where the option has one,
`BadValue` and `Stray` for the early returns, `Accept` and `Incomplete` for the
checks after the loop. A token is an argument; its length, the key and the
numeral it spells are functions on tokens. `Strtoul` keeps its modulus, so
`-ULONG_MAX` is 1, as in the C library. `ParsedAsMeant` compares the loop with a
definition that does not know its order (`Given`, `Meant`, `WellFormed`).

### Loader

One action per call of `ebaf_bpf_start` that can fail or changes state, with the
error path it leads to, and per call of `ebaf_bpf_stop`; `err_out` is stop with
a result. The kernel side is the XDP slot (mode, owner), whether the clsact
qdisc exists and, for each direction, the list of filters, newest first.
`StopTc` models that `bpf_tc_detach` is refused, because the options still carry
`prog_fd`, and that nobody looks at its result; `StopTcHook`, and `TcUndo` after a
failed attach, that `bpf_tc_hook_destroy` flushes the filters of the hook's own
direction. `bpf_xdp_detach` and `bpf_tc_hook_destroy` may be refused as well
(`bpf_loader.c:318`, `:322`, `:138`): nobody looks at their results, so the stop goes
on, forgets what it holds and leaves the program or filter where it is. `refused`
remembers, for the properties, what a process was refused.
`Signal` may come at any point from `Launch` on; `Kill` is SIGKILL.

### Runtime

A hook's run is the sequence of its map operations (`Arrive` chooses an outcome
and `HookStep` does one operation), so hooks on several CPUs and the loop
interleave between any two. The loop is main's: `Iterate` decides what is due,
`Read` copies one value of one CPU, `PrintStats` sums and prints, `Consume`
takes the oldest record once it is submitted, `PollEnds` and `Leave` end the
poll and the loop. `PrintZeros` is `ebaf_bpf_print_stats` when its allocation
or lookup fails. Reasons of malformed packets are one counter. `time()` is the
wall clock: `Tick` and `Expire` are the ends of the interval and of `--duration`,
`SetBack` makes both begin anew, at most `MaxJumps` times. `limited` says whether
`--duration` was given.

### LiveFeed, LiveStats and LiveDemo

`LiveFeed`: one action for each of the three locked sections of `add_event`, so
the other threads run in between; `Note` and `SendBatch` are the synthetic
sender; a reader may miss events, since the network and a full ring lose them.
`LiveStats`: a reader parses a line and reads the clock (`ParseLine`), and then
updates fields and rates under the lock (`UpdateStats`), so the other thread may
come between. The clock may show anything; a process may print a line of zeros.
`LiveDemo`: each step of `setup` and the start, any of which may raise; children
that die by themselves or ignore SIGTERM; `cleanup` in its order with
`terminate`, the wait of three seconds, `kill`; `ip netns del` and `ip link del`, whose
results are ignored and which may leave what they should delete; and the synthetic
sender's thread with its batch process, which `cleanup` does not know.

### What is external

Modelled from how the code uses it: the crypto kfuncs and dynptrs (which may
fail), the packet helpers (each fails and changes nothing, or does its work),
`bpf_skb_change_tail`'s refusal above the MTU, the XDP and TC attach calls, the
ring buffer (reserve, submit, consume in order of reservation), the copy of a
per-CPU map, the network, the receiving stack's checksum and length tests,
process creation and signals. They are marked `external` in the map.

## 3. The runs

| Run | Question | Bounds, and why they are enough |
|---|---|---|
| `transparent_faults` | `TypeOK`, `DeliveredIntact`, `ChecksumCurrent`, `StatsAccounted`: what does any failure leave behind? | one message; any two configurations (both actions, two keys, ChaCha20), foreign and malformed frames, each helper failing on either side, payload in or out of the linear area; lengths 0, 1, 16, 40, 1408, 1409, which are empty, short, aligned, above the trailer's size, at and above the limit; pad bytes 0, 1, a block, one more, 255. The handling of a frame depends on no other frame, so one is enough |
| `transparent_channel` | `ImplementsChannel`, `EventsMatchPackets`, `LimitFitsMtu`: is it still UDP underneath? | two messages, so that frames can change order and IVs; 16 is aligned, 1407 is padded up to the limit, 1440 is refused; early and late faults on the host, a failing kfunc and a failing last store on the peer |
| `framed` | `TypeOK`, `TextIntact`, `StatsExact`, `HeaderAgreed`, `QuietMeansRight` | one frame and one copy of it, on every path, with matched peers and any pair of configurations; frames of both senders and hand-made ones with one deviation each, as the integration tests build them, one of them with its magic in host byte order; every
fault; a payload in or out of the linear area on the peer. A frame is handled without regard to others, so a second one would only add to the counters |
| `framed_action`, `framed_chacha` | two statements of the README that the code contradicts (section 6) | one frame |
| `loader` | `TypeOK`, `AttachedReady`, `XdpOwned`, `CleanExit`, `RunningServes`, `OnlyOwnerDetaches`, `SignalEnds`, `StartReturns` | any two (`MaxLaunched`) of three processes: the two directions of one interface, rivals for XDP, and a rival for the first one's attach point; both XDP modes, every call failing, those that undo and remove included, signals, SIGKILL. A process runs once; a restart is another one starting later. Every property is about at most two processes |
| `runtime_lines` | `TypeOK`, `LinesGrow`, `OutcomesSeen`, `EventsComplete`, `LineCountsEvents` | two CPUs, two packets, a ring of one record: torn lines, a full ring, a slow writer |
| `runtime_live` | `CatchesUp`, `EventsDrain`, `LoopEnds` | one CPU, two packets of two outcomes (with and without an event), a ring of one, a clock set back once; ended by a signal or by `--duration` |
| `config` | `TypeOK`, `ParsedAsMeant`, `SwallowedShows` | the three required options in every order with any two more pieces before, between or after them: repeated options, each kind of bad value, an option without a value, a stray word. `ULONG_MAX` and `UINT_MAX` are made smaller, above 65535, because TLC's integers have 32 bits; the theorem has no such bound |
| `live_feed` | `TypeOK`, `CountExact`, `ReaderNumbersGrow`, `NotesKept` | two readers, four messages in batches of two, two notes kept, one dropped at a time: every batch overflows the notes |
| `live_stats` | `RatesOfLines` | two processes of two packets each, two times of the clock: lines handled against the order of their times, lines of zeros |
| `live_demo` | `TypeOK`, `Cleaned`, `EndsAlone` | both kinds of traffic, two stubborn children, each step failing, each child dying, each deletion refused |

`MaxSent`, `MaxRepeats`, `MaxLaunched`, `Packets`, `MaxJumps`, `Messages` and
`MaxCounted` are the only bounds on behaviours; they stop the environment from producing more and cut no handler
short. Deadlock is not checked, because in each of these models the program
ends, or the traffic does.

Exceptions a property states are part of what it says. `DeliveredIntact` names
the late failures, in which the code fails open too late: on the host a kfunc
failure, or a failing store, after trailer and lengths are written leaves a frame that nobody
can decode (`HostMangled`); on the peer a failure before the decryption, or of
the final trimming, hands ciphertext or an untrimmed payload to the application
(`PeerSealed`). Everything else arrives as it was sent. The refinement has no
fault left out: a frame that one of the hooks gave up on late, which it knows at
its exit, is to the application a datagram lost (`Promised`), and everything else
that arrives is what `DatagramChannel` delivers. `EventsMatchPackets` has the
same exception for the peer's events. `TextIntact` is exact about
`--hook both`: a frame that meets two decrypting hooks is decrypted twice, and
the server does not print the text that was sent. `HeaderAgreed` excepts a missing
crypto context, which is not the frame's fault, and on the peer's TC hook a payload
outside the linear area (`Excused`). `QuietMeansRight` is what is left to an operator of
hooks that fail open: a sender's frame may cross the wire in clear or arrive sealed, but
not while `packets_passed`, `packets_crypto_fail` and `packets_malformed` are all 0
on both ends. It speaks of one hook on each side; with `--hook both` a frame is
decrypted twice and both count it as a success.

`NotesKept` speaks of the number a packet shows. With two readers a packet's
number is not the number of its message (each message yields two events), so the
note shown often belongs to another message; the property is about notes being
kept, and does not claim that they match.

`RatesOfLines` does not say that a rate is right at all times: across lines of two
processes it is a difference of two programs' counters, divided by a time that
may be clamped to a millisecond because the clock was read before the lock. It
says that this is all that can go wrong.

`SwallowedShows` says where a swallowed option can hide in an accepted line: in
the interface's name, or in a value that a later option replaces.

`RunningServes` assumes distinct attach points. Two processes at one point
shadow each other, and the stop of one flushes the other's filter. `CleanExit`
holds although `bpf_tc_detach` never succeeds, because destroying the hook
flushes the filters of its direction; it is that second call that cleans up. A program
or filter may stay when the kernel refuses the call that removes it, for such
a refusal goes unnoticed; `CleanExit` says that it stays for no other reason, whichever
call of the start failed, and that memory and skeletons are freed even then.

## 4. Fairness

Only temporal properties use it.

- `Loader`: weak fairness on each process's start, stop and leaving the loop
  after a signal. System calls return, and the loop's poll has a timeout
  (`main.c`). Nobody is obliged to launch, signal or kill.
- `Runtime`: weak fairness on each CPU's hook (a BPF program runs to
  completion), on the loop (a thread that is not blocked is scheduled), on
  `Tick` and on `Expire` (time passes). Packets and signals need not come. The
  clock is set back finitely often, or neither line nor end would be due.
  `LoopEnds` is about the end of a *burst*: the number of packets is
  bounded, and `ring_buffer__poll` need not return while events
  keep coming.
- `LiveDemo`: weak fairness on main's thread, the sender's thread, the end of a
  batch and the end of a child that was killed, or asked to end and is not
  stubborn. `EndsAlone` says that an end is *reached and kept*; the batch
  process may outlive `cleanup` for a while.
- `Transparent`, `Framed`, `Config`, `LiveFeed`, `LiveStats`: none; they have only safety properties.

## 5. What is proved

All proofs are checked by TLAPS, for every value of the constants that meets the
named assumption of the module: types, and that special values such as
`NoIv` differ from ordinary ones. `FramedAssumption` also says that a text is
shorter than 1440 bytes, so that a frame fits an MTU of 1500, and that the
benchmark's sizes are those its argument checks accept.

| Module | Theorem | Argument |
|---|---|---|
| `TransparentProofs` | `TypeTheorem`: `TypeOK` | one lemma per operator: padding in 1..16, `U16` in range, `DecryptTrim` that no pad byte that passes the test takes a length below zero |
| | `StatsTheorem`: `StatsAccounted` | `StatsInv`; each set of counters that a run may bump keeps the law (`CountAccounted`) |
| | `DeliveryTheorem`: `DeliveredIntact` | `DeliveryInv`: a frame on the wire is either clean, or sealed with its trailer where its length fields say (`SealedFor`), or left by a listed late failure. It is needed because `DeliveredIntact` speaks of the inbox only; `EncryptFrame` establishes it, `PeerLeavesClean` and `PeerOpensSealed` use it |
| | `LimitTheorem`: `LimitFitsMtu`, for an MTU of at least 1500 | arithmetic on the accepted lengths |
| | `ChannelTheorem`: `ImplementsChannel` | the initial states map to an initial state; a transmission is `Send`; a reception is `Deliver` of a message in `sent`, or a stutter (`TransmitSends`, `ReceiveDelivers`), by `DeliveryInv` and `SentInv`: every body on the wire is of a sent message. No fault is excluded |
| | `ChecksumTheorem`: `ChecksumCurrent` | `CheckInv`: a frame that is no longer clean has its checksum switched off unless that store failed; `ChecksumCurrent` alone does not say so of frames that the peer has yet to rewrite |
| | `EventsTheorem`: `EventsMatchPackets` | only runs that get past the kfunc publish; what it makes of a body follows from `DeliveryInv` |
| | `RoundTripTheorem` | `HostSeals`: no exit but the last is open to a frame that fits, and the frame left is `SealedFor`; `PeerRestores` computes the peer's run on such a frame, length by length |
| `FramedProofs` | `TypeTheorem`, `StatsTheorem` | types and a case split over exits; a number survives being sent as two bytes (`NtohsHtons`), a parsed body is at least a block long (`TextType`) |
| | `HeaderTheorem`: `HeaderAgreed`; `TextTheorem`: `TextIntact` | `ChatInv`: a sender's frame keeps its header for every parser (`HeaderOK`), a hook can only find it too short (`SeenVerdict`), and its body is plain, sealed under the IV in its header, or junk, according to how many hooks transformed it on either side (`BodyOK`) |
| | `QuietTheorem`: `QuietMeansRight` | `QuietInv`: while the counters are quiet, a frame has its side's hook before it or has been transformed by it (`FrameDone`). The one exit that leaves quiet counters quiet is a success (`CountQuiet`); `ChatInv` says what a frame so often transformed is like |
| | `ChatTheorem` | every check lets a well-formed frame for the hook's port go on (`HookCrypts`); decryption undoes encryption (`KfuncInverse`); the header is kept |
| `LoaderProofs` | `TypeTheorem`, `ReadyTheorem`, `XdpTheorem`, `CleanExitTheorem`, `ServesTheorem`, `DetachTheorem` | one invariant, `TypeOK /\ PhaseInv /\ XdpInv /\ FilterInv /\ ServeInv`: what a process holds follows from where it is; slot and filters name a process that is ready and knows of them, was killed, or was refused their removal. `AttachedReady` alone is not inductive: it needs to know that an attached program's process is past its configuration |
| | `RunningXdpTheorem` | `ModeKept`: a process that was asked for XDP has attached in some mode once its start is past that; with `XdpInv` the slot is its own in that mode |
| | `ProgressTheorem` | `Rank` numbers the calls in their order; each action is a `Goto` to a higher rank, or sets a flag that was clear |
| `RuntimeProofs` | `TypeTheorem`, `LinesTheorem`, `OutcomesTheorem`, `EventsTheorem`, `LineCountsTheorem` | one invariant, `Hooked /\ Budget /\ RingInv /\ ReadInv /\ LineInv /\ LoopInv`: what a hook may still add is bounded by the packets that arrived (`Budget`); a record in the ring belongs to a hook that is still at it, or is filled (`RingInv`); a value read is at most what that CPU counts now, and the line being read holds at least what the last one held (`ReadInv`, `LineInv`). Sums over the CPUs are monotone and additive; the induction this takes is made by hand from the library's `WFMin`: a set of counterexamples would have a least one (`LeastElement`) |
| | `CatchUpTheorem`, `NoEventLostTheorem` | `Quiet` (no packet in a hook or to come) is kept by every step; then `Fresh` (what was read of the line so far is what that CPU counts) is kept until the line is printed, which makes it `Exact`, and lines that only grow stay exact. For the events, `RingInv` |
| `ConfigProofs` | `TypeTheorem`: `TypeOK` | inductive as it stands: `IsUint` keeps numbers in range wherever they are read, `ResultUsable` the rest at the end |
| | `MeantTheorem`: `ParsedAsMeant`; `SwallowedTheorem`: `SwallowedShows` | `ParseInv`: while the line is read, `ScanInv` says that the parser stands at the beginning of a piece and that its configuration is what the options before it mean. Where pieces begin (`Begins`) is recursive in the position; that the function exists and obeys its equation (`BeginsExist`, `BeginsIs`) is shown by least counterexample. `SwallowedShows` follows from `ParsedAsMeant` |
| `LiveDemoProofs` | `TypeTheorem`; `CleanedTheorem`: `Cleaned` | `Ahead`: while cleanup runs, a child that is not settled is still on its list, and past a deletion nothing is "present": it is gone or refused |
| | `EndTheorem` | the safety half of `EndsAlone`, one lemma per claim and action |
| `LiveStatsProofs` | `RatesTheorem`: `RatesOfLines` | `RatesInv`: what the next line is compared with is the line handled last (`LastIsNewest`); a line on its way to the lock is what its process has counted, or zeros (`ParsedIsCounted`), and the one handled last is at most that (`NewestCounted`). A rate alone says nothing about the next one |
| `LiveFeedProofs` | `TypeTheorem`, `CountTheorem`, `NumbersTheorem`, `NotesTheorem` | cardinality of the readers that are about to add; `NumberInv`: a number in use is below the count once it is counted; `NotesInv`: trimming leaves at least `Keep + 1 - Drop` notes |

`DeliveredIntact` and `TextIntact` also hold of hooks that transform nothing, and
`QuietMeansRight` of hooks that never succeed. `RoundTripTheorem` and `ChatTheorem` close
that gap: they say of a single message
of any accepted length, with no helper failing, that the hooks take it there and
back. They are about the operators a run is built from, so no run states them.

`ConfigAssumption` says of the tokens that no option's name is also a key or a
number. Without it a token could be read in two ways and `ParsedAsMeant` would
depend on which one is asked about.

Every invariant and every safety property of the runs is proved. Only
model-checked is liveness (`StartReturns`, `SignalEnds`, `CatchesUp`,
`EventsDrain`, `LoopEnds`, `EndsAlone`): liveness under fairness and `ENABLED` are
out of the prover's reach. Of `CatchesUp`, `EventsDrain` and `EndsAlone` the
safety half is proved: what holds once the awaited state is reached, and that
nothing is lost on the way there. Of `StartReturns` and `SignalEnds` it is that no
step leads back (`ProgressTheorem`), so that a process that stays in its start
would have to stand still. That the awaited state is reached, TLC checks.

The modules use no `RECURSIVE` operator.

## 6. Disagreements between code and documentation

- **Action 2 is refused.** `README.md:144` gives the framed header's action as
  "`1` encrypt or `2` decrypt". The TC hook refuses any action other than 1, also
  on the decrypting side (`tc_crypto.bpf.c:234-239`), and counts the packet under
  `packets_bad_magic`; the XDP hook does not look at the action. Run
  `framed_action`.
- **ChaCha20 passes in clear.** `README.md:172` lists `chacha20` for the framed
  path. The TC hook of that path counts a packet as passed unless the algorithm is
  `cbc-aes` (`tc_crypto.bpf.c:198-204`), so with `--algo chacha20`, which the
  options accept, it transforms nothing; the XDP hook has no such test, and a
  decrypting XDP peer makes junk of what the sender's TC hook passed. Run
  `framed_chacha`.

## 7. What is not modelled

- `event_format.c`, `stats_format.c`: formatting without state.
- The key itself and the strength of ciphers: encryption is symbolic.
- The dashboard's HTTP handlers (snapshots under the lock), text lines and the
  fields of an event; the chat programs' terminal side, and the server's `--count` and
  `--timeout`.
- Plain application bytes that look like a transparent trailer by chance, and the
  offsets of the fields of the framed header.
- Fragments of datagrams above the MTU, as the benchmark sender makes them with a
  large size: only hand-made frames with fragment bits are in `framed`, and the
  repository does not say what should happen to them.
- Losses of the dashboard that no line of the repository speaks of: a packet's
  number is not its message's when two readers count, and an `ebaf-crypto` that dies
  after the start is not noticed.
- `xdp_probe`, web page, benchmark scripts, experiments, physical-NIC and kernel-probe
  scripts: measurement, presentation and shell around other tools.
- Abstracted on purpose: the wall clock (that an interval ends, and that a step back
  begins it anew), key bytes,
  IPv4 header checksum (recomputed in one place), names and wording.

## 8. Plan

Order of work, the most important behaviour first. Done: 1 to 7 and 9.

1. `EbafProto`, `Transparent`, `DatagramChannel`: end to end delivery.
2. `Loader`: start, failure, stop, rivals.
3. `Framed`: second data path, header agreement, `--hook both`.
4. `Runtime`: counters, lines and events.
5. `LiveFeed`, `LiveStats`, `LiveDemo`: the dashboard.
6. `Config`: the command line.
7. Proofs of the safety properties of all these, the refinement included.
8. Model further: a composition of `Loader` and the hooks (`Deployment`): traffic
   while processes start, stop and are killed, and which frames leave in clear; the
   counters of `packet_proof.py` and of `run_experiment.py`.
9. Proofs of what the safety properties leave open: the round trips, and the
   safety halves of the liveness properties.
10. Prove further: that the framed path between matched CBC peers with one hook on
    each side implements `DatagramChannel` up to the frames whose kfunc failed, and a
    rank for the dashboard's cleanup as `Rank` is one for the loader.

New questions join an existing run of the same module where the bounds allow.
