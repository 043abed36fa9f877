------------------------------- MODULE Config -------------------------------
(***************************************************************************)
(* The command line of ebaf-crypto: ebaf_parse_args of src/user/config.c,  *)
(* one step per option.                                                    *)
(*                                                                         *)
(* A token stands for an argument; what the parser can tell about its      *)
(* characters (its length, the key it spells, the number it spells) is     *)
(* given by functions on tokens.  An option that takes a value takes the   *)
(* next token whatever it is, so an option name may be read as a value.    *)
(***************************************************************************)
EXTENDS EbafProto, Sequences, FiniteSetsExt

CONSTANTS
  Tokens,    \* what a command line is made of
  Length,    \* token -> its length in characters
  KeyBytes,  \* token of hexadecimal digit pairs -> bytes of the key it spells
  Numeral,   \* token that is a numeral for strtoul -> its sign and magnitude
  UIntMax, ULongMax, \* UINT_MAX, ULONG_MAX
  Lines      \* the command lines given, without the program's name

TextOptions == {"--iface", "--mode", "--key", "--algo"}

NumberOptions == {"--port", "--stats-interval", "--duration"}

TakesValue == TextOptions \union NumberOptions \union {"--hook"}

Flags == {"--events", "--jsonl", "--transparent"}

PointFlags == {"--tc-ingress", "--tc-egress"}

Options == TakesValue \union Flags \union PointFlags

None == "NULL"

IfaceMax == 64

PortMax == 65535

Hooks == {"xdp", "tc", "both"}

ASSUME ConfigAssumption ==
  /\ Options \union {CBC} \subseteq Tokens /\ None \notin Tokens
  /\ Options \intersect (DOMAIN KeyBytes \union DOMAIN Numeral) = {}  \* they begin with "--"
  /\ Length \in [Tokens -> Nat]
  /\ KeyBytes \in [DOMAIN KeyBytes -> Nat]
  /\ Numeral \in [DOMAIN Numeral -> [neg : BOOLEAN, value : Nat]]
  /\ UIntMax \in Nat /\ ULongMax \in Nat /\ PortMax <= UIntMax /\ UIntMax <= ULongMax
  /\ Lines \subseteq Seq(Tokens)

----------------------------------------------------------------------------
VARIABLES
  argv,      \* the command line
  i,         \* the argument the loop is at
  text,      \* iface, mode, key and algo: the value each option had last
  number,    \* port, stats_interval_sec and duration_sec, in the same way
  flags,     \* the flags seen
  hook,      \* cfg->hook
  tc_attach, \* cfg->tc_attach
  status,    \* "reading", or what the function returned
  cfg        \* the structure handed to ebaf_bpf_start

read == <<text, number, flags, hook, tc_attach>>

vars == <<argv, i, read, status, cfg>>

NoConfig == [iface |-> None]

Init ==
  /\ argv \in Lines
  /\ i = 1
  /\ text = [o \in TextOptions |-> IF o = "--algo" THEN CBC ELSE None]
  /\ number = [o \in NumberOptions |->
                CASE o = "--port" -> 7777 [] o = "--stats-interval" -> 1 [] o = "--duration" -> 0]
  /\ flags = {}
  /\ hook = "xdp"
  /\ tc_attach = "auto"
  /\ status = "reading"
  /\ cfg = NoConfig

\* strtoul in base 10: a sign is accepted, and a minus negates in 64 bits.
Strtoul(n) == IF n.neg /\ n.value > 0 THEN ULongMax + 1 - n.value ELSE n.value

\* Mutant: only the upper end of the range is checked.
IsUintFromZero(v, min, max) ==
  /\ v \in DOMAIN Numeral
  /\ Numeral[v].value <= ULongMax
  /\ Strtoul(Numeral[v]) <= max

\* parse_uint: all of the text is the numeral, which does not overflow.
IsUint(v, min, max) ==
  /\ v \in DOMAIN Numeral
  /\ Numeral[v].value <= ULongMax
  /\ Strtoul(Numeral[v]) \in min..max

Largest(o) == IF o = "--port" THEN PortMax ELSE UIntMax

\* Mutant: the key is checked where it is read, against the algorithm so far.
ReadableKeyToo(o, v) ==
  /\ o \in NumberOptions => IsUint(v, 1, Largest(o))
  /\ o = "--hook" => v \in Hooks
  /\ o = "--key" =>
       v \in DOMAIN KeyBytes /\ KeyBytes[v] = IF text["--algo"] = CBC THEN 16 ELSE 32

\* Mutant: an unknown hook is not refused.
ReadableAnyHook(o, v) == o \in NumberOptions => IsUint(v, 1, Largest(o))

\* Values that are looked at when they are read; the others wait for the end.
Readable(o, v) ==
  /\ o \in NumberOptions => IsUint(v, 1, Largest(o))
  /\ o = "--hook" => v \in Hooks

Refuse == status' = "refused" /\ UNCHANGED <<argv, i, read, cfg>>

InLoop == status = "reading" /\ i <= Len(argv)

\* The option at i has a value: i + 1 < argc.
HasValue == i < Len(argv)

ReadValue(options) ==
  /\ InLoop /\ argv[i] \in options /\ HasValue
  /\ Readable(argv[i], argv[i + 1])
  /\ i' = i + 2
  /\ UNCHANGED <<argv, status, cfg>>

ReadFlag(options) ==
  /\ InLoop /\ argv[i] \in options
  /\ i' = i + 1
  /\ UNCHANGED <<argv, status, cfg>>

TakeText ==
  /\ ReadValue(TextOptions)
  /\ text' = [text EXCEPT ![argv[i]] = argv[i + 1]]
  /\ UNCHANGED <<number, flags, hook, tc_attach>>

TakeNumber ==
  /\ ReadValue(NumberOptions)
  /\ number' = [number EXCEPT ![argv[i]] = Strtoul(Numeral[argv[i + 1]])]
  /\ UNCHANGED <<text, flags, hook, tc_attach>>

TakeHook ==
  /\ ReadValue({"--hook"})
  /\ hook' = argv[i + 1]
  /\ UNCHANGED <<text, number, flags, tc_attach>>

TakeFlag ==
  /\ ReadFlag(Flags)
  /\ flags' = flags \union {argv[i]}
  /\ UNCHANGED <<text, number, hook, tc_attach>>

TakePoint ==
  /\ ReadFlag(PointFlags)
  /\ tc_attach' = IF argv[i] = "--tc-ingress" THEN "ingress" ELSE "egress"
  /\ UNCHANGED <<text, number, flags, hook>>

\* A value that is refused where it is read.
BadValue ==
  /\ InLoop /\ argv[i] \in TakesValue /\ HasValue
  /\ ~Readable(argv[i], argv[i + 1])
  /\ Refuse

\* A token that is no option, or an option without its value at the end.
Stray ==
  /\ InLoop
  /\ argv[i] \notin Flags \union PointFlags /\ ~(argv[i] \in TakesValue /\ HasValue)
  /\ Refuse

KeyLen(algo) == IF algo = CBC THEN 16 ELSE 32

\* ebaf_parse_hex_key: twice as many characters as bytes, all of them digits.
ParsesHexKey(v, out_len) == v \in DOMAIN KeyBytes /\ KeyBytes[v] = out_len

\* The checks after the loop, on the values that came last.
Complete(t) ==
  /\ t["--iface"] # None /\ t["--mode"] # None /\ t["--key"] # None
  /\ Length[t["--iface"]] < IfaceMax
  /\ t["--mode"] \in Actions
  /\ t["--algo"] \in Algos
  /\ ParsesHexKey(t["--key"], KeyLen(t["--algo"]))

Result(t, n, f, h, point) ==
  [iface |-> t["--iface"], action |-> t["--mode"], algo |-> t["--algo"], key |-> t["--key"],
   key_len |-> KeyLen(t["--algo"]), udp_port |-> n["--port"],
   stats_interval_sec |-> n["--stats-interval"], duration_sec |-> n["--duration"],
   hook |-> h, tc_attach |-> point, transparent |-> "--transparent" \in f,
   print_events |-> f \intersect {"--events", "--jsonl"} # {}, output_jsonl |-> "--jsonl" \in f]

Accept ==
  /\ status = "reading" /\ i > Len(argv)
  /\ Complete(text)
  /\ cfg' = Result(text, number, flags, hook, tc_attach)
  /\ status' = "accepted"
  /\ UNCHANGED <<argv, i, read>>

Incomplete ==
  /\ status = "reading" /\ i > Len(argv)
  /\ ~Complete(text)
  /\ Refuse

Next ==
  \/ TakeText \/ TakeNumber \/ TakeHook \/ TakeFlag \/ TakePoint
  \/ BadValue \/ Stray
  \/ Accept \/ Incomplete

Spec == Init /\ [][Next]_vars

----------------------------------------------------------------------------
(* Properties. *)

\* What the loader and the hooks take for granted of a configuration.
Known(c) ==
  /\ c.iface \in Tokens /\ Length[c.iface] < IfaceMax
  /\ c.action \in Actions /\ c.algo \in Algos
  /\ c.key_len = KeyLen(c.algo) /\ ParsesHexKey(c.key, c.key_len)

InRange(c) ==
  /\ c.udp_port \in 1..PortMax
  /\ c.stats_interval_sec \in 1..UIntMax /\ c.duration_sec \in 0..UIntMax
  /\ c.hook \in Hooks /\ c.tc_attach \in {"auto", "ingress", "egress"}
  /\ c.output_jsonl => c.print_events

Usable(c) == Known(c) /\ InRange(c)

\* The state has its type; an accepted command line gives a configuration the
\* other components can rely on: an interface name that fits, a known action
\* and algorithm, a key of the algorithm's length, numbers in their ranges.
TypeOK ==
  /\ argv \in Seq(Tokens) /\ i \in 1..(Len(argv) + 1)
  /\ text \in [TextOptions -> Tokens \union {None}]
  /\ number \in [NumberOptions -> 0..UIntMax]
  /\ number["--port"] \in 1..PortMax /\ number["--stats-interval"] \in 1..UIntMax
  /\ flags \subseteq Flags
  /\ hook \in Hooks /\ tc_attach \in {"auto", "ingress", "egress"}
  /\ status \in {"reading", "accepted", "refused"}
  /\ IF status = "accepted" THEN Usable(cfg) ELSE cfg = NoConfig

\* Is the token at k read as an option, not as the value of the one before?
Begins ==
  LET begins[k \in 1..Len(argv)] ==
        k = 1 \/ ~(begins[k - 1] /\ argv[k - 1] \in TakesValue)
  IN  begins

Given(o) == {k \in 1..Len(argv) : Begins[k] /\ argv[k] = o}

LastValue(o, default) == IF Given(o) = {} THEN default ELSE argv[Max(Given(o)) + 1]

LastNumber(o, default) ==
  IF Given(o) = {} THEN default ELSE Strtoul(Numeral[argv[Max(Given(o)) + 1]])

MeantText == [o \in TextOptions |-> LastValue(o, IF o = "--algo" THEN CBC ELSE None)]

MeantNumber ==
  [o \in NumberOptions |->
    LastNumber(o, CASE o = "--port" -> 7777 [] o = "--stats-interval" -> 1 [] OTHER -> 0)]

MeantPoint ==
  LET points == Given("--tc-ingress") \union Given("--tc-egress")
  IN  IF points = {} THEN "auto"
      ELSE IF Max(points) \in Given("--tc-ingress") THEN "ingress" ELSE "egress"

\* What the command line says, whatever the order of its options.
Meant ==
  Result(MeantText, MeantNumber, {o \in Flags : Given(o) # {}},
         LastValue("--hook", "xdp"), MeantPoint)

\* Every token is an option or the value of one, and no value is one that is
\* refused where it is read, not even if a later one replaces it.
WellFormed ==
  \A k \in 1..Len(argv) :
    Begins[k] =>
      /\ argv[k] \in Options
      /\ argv[k] \in TakesValue => k < Len(argv) /\ Readable(argv[k], argv[k + 1])

\* The function accepts the command lines that are well formed and complete,
\* and no others, and returns what they say: the order of different options
\* does not matter, of equal ones the last counts, and what is not given has
\* its default. In particular the key may stand before the algorithm that
\* decides its length.
ParsedAsMeant ==
  status # "reading" =>
    IF WellFormed /\ Complete(MeantText) THEN status = "accepted" /\ cfg = Meant
    ELSE status = "refused"

\* A forgotten value makes an option take the name of the next one for its
\* value, and that one is lost. In an accepted line this can only be seen in
\* the name of the interface, which ebaf_bpf_start then does not find, or in a
\* mode, key or algorithm that a later one replaced.
SwallowedShows ==
  status = "accepted" =>
    \A k \in 2..Len(argv) :
      ~Begins[k] /\ argv[k] \in Options =>
        \/ argv[k - 1] = "--iface"
        \/ argv[k - 1] \in {"--mode", "--key", "--algo"} /\ k - 1 # Max(Given(argv[k - 1]))
=============================================================================
