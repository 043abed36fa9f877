---------------------------- MODULE ConfigProofs ----------------------------
(***************************************************************************)
(* Theorems about Config, for any set of tokens and command lines:         *)
(* whatever the order of the options, an accepted command line gives a     *)
(* configuration the loader and the hooks can rely on, each of its fields  *)
(* is what the last option naming it says, and an option that vanished was *)
(* taken for the value of the one before it, which shows in that field.    *)
(* What the recursion over the pieces of the line computes is shown by     *)
(* least counterexample.                                                   *)
(***************************************************************************)
EXTENDS Config, WellFoundedInduction, TLAPS

\* The largest number of an option is one its field can hold.
LEMMA LargestFits ==
  ASSUME NEW o \in NumberOptions
  PROVE  Largest(o) \in Nat /\ 1 <= Largest(o) /\ Largest(o) <= UIntMax
BY ConfigAssumption DEF Largest, PortMax

\* A number that parse_uint accepts lies in the range asked for.
LEMMA NumberInRange ==
  ASSUME NEW o \in NumberOptions, NEW v, Readable(o, v)
  PROVE  /\ Strtoul(Numeral[v]) \in 1..UIntMax
         /\ o = "--port" => Strtoul(Numeral[v]) \in 1..PortMax
<1> DEFINE n == Strtoul(Numeral[v])
           most == Largest(o)
           port == PortMax
<1>1. n \in 1..most
  BY LargestFits DEF Readable, IsUint
<1>2. most \in Nat /\ most <= UIntMax /\ UIntMax \in Nat /\ (o = "--port" => most = port)
  BY LargestFits, ConfigAssumption DEF Largest
<1> HIDE DEF n, most, port
<1>3. n \in 1..UIntMax /\ (o = "--port" => n \in 1..port)
  BY <1>1, <1>2
<1> QED BY <1>3 DEF n, port

\* The part of the type invariant that options change.
ReadOK ==
  /\ text \in [TextOptions -> Tokens \union {None}]
  /\ number \in [NumberOptions -> 0..UIntMax]
  /\ number["--port"] \in 1..PortMax /\ number["--stats-interval"] \in 1..UIntMax
  /\ flags \subseteq Flags
  /\ hook \in Hooks /\ tc_attach \in {"auto", "ingress", "egress"}

\* An option with a value leaves the place of the next one.
LEMMA ValuePlace ==
  ASSUME TypeOK, NEW options, ReadValue(options)
  PROVE  /\ argv[i] \in options /\ argv[i + 1] \in Tokens
         /\ argv' \in Seq(Tokens) /\ i' \in 1..(Len(argv') + 1)
BY DEF ReadValue, InLoop, HasValue, TypeOK

LEMMA FlagPlace ==
  ASSUME TypeOK, NEW options, ReadFlag(options)
  PROVE  argv[i] \in options /\ argv' \in Seq(Tokens) /\ i' \in 1..(Len(argv') + 1)
BY DEF ReadFlag, InLoop, TypeOK

\* What is read has its type as long as the function has not returned.
LEMMA Reading ==
  ASSUME TypeOK, argv' \in Seq(Tokens), i' \in 1..(Len(argv') + 1), ReadOK',
         status = "reading", UNCHANGED <<status, cfg>>
  PROVE  TypeOK'
BY DEF TypeOK, ReadOK

LEMMA RefuseType ==
  ASSUME TypeOK, status = "reading", Refuse
  PROVE  TypeOK'
BY DEF Refuse, read, TypeOK

\* The checks after the loop leave only configurations that can be used.
LEMMA ResultUsable ==
  ASSUME ReadOK, Complete(text)
  PROVE  Usable(Result(text, number, flags, hook, tc_attach))
<1> DEFINE c == Result(text, number, flags, hook, tc_attach)
<1>1. /\ c.iface \in Tokens /\ Length[c.iface] < IfaceMax
      /\ c.action \in Actions /\ c.algo \in Algos
  BY DEF Complete, ReadOK, Result, TextOptions
<1>2. c.key_len = KeyLen(c.algo) /\ ParsesHexKey(c.key, c.key_len)
  BY DEF Complete, Result
<1>3. /\ c.udp_port \in 1..PortMax
      /\ c.stats_interval_sec \in 1..UIntMax /\ c.duration_sec \in 0..UIntMax
  <2> DEFINE port == number["--port"]
             interval == number["--stats-interval"]
             duration == number["--duration"]
  <2>1. port \in 1..PortMax /\ interval \in 1..UIntMax /\ duration \in 0..UIntMax
    BY DEF ReadOK, NumberOptions
  <2>2. c.udp_port = port
    BY DEF Result
  <2>3. c.stats_interval_sec = interval
    BY DEF Result
  <2>4. c.duration_sec = duration
    BY DEF Result
  <2> HIDE DEF c, port, interval, duration
  <2> QED BY <2>1, <2>2, <2>3, <2>4
<1>4. c.hook \in Hooks /\ c.tc_attach \in {"auto", "ingress", "egress"}
  BY DEF ReadOK, Result
<1>5. c.output_jsonl => c.print_events
  <2>1. c.output_jsonl = ("--jsonl" \in flags)
    BY DEF Result
  <2>2. c.print_events = (flags \intersect {"--events", "--jsonl"} # {})
    BY DEF Result
  <2>3. "--jsonl" \in flags => flags \intersect {"--events", "--jsonl"} # {}
    OBVIOUS
  <2> HIDE DEF c
  <2> QED BY <2>1, <2>2, <2>3, Zenon
<1> HIDE DEF c
<1>6. Known(c)
  BY <1>1, <1>2, Zenon DEF Known
<1>7. InRange(c)
  BY <1>3, <1>4, <1>5 DEF InRange
<1>8. Usable(c)
  BY <1>6, <1>7 DEF Usable
<1> QED BY <1>8 DEF c

\* Nothing is read yet: every option has the default of the code.
LEMMA InitType == Init => TypeOK
<1> SUFFICES ASSUME Init PROVE TypeOK
  OBVIOUS
<1>1. argv \in Seq(Tokens) /\ i \in 1..(Len(argv) + 1)
  BY ConfigAssumption DEF Init
<1>2. text \in [TextOptions -> Tokens \union {None}]
  BY ConfigAssumption DEF Init
<1>3. /\ number["--port"] = 7777 /\ number["--stats-interval"] = 1
      /\ number \in [NumberOptions -> 0..UIntMax]
  BY ConfigAssumption DEF Init, NumberOptions, PortMax
<1>4. number["--port"] \in 1..PortMax /\ number["--stats-interval"] \in 1..UIntMax
  BY <1>3, ConfigAssumption DEF PortMax
<1>5. /\ flags \subseteq Flags /\ hook \in Hooks /\ tc_attach \in {"auto", "ingress", "egress"}
      /\ status = "reading" /\ cfg = NoConfig
  BY DEF Init, Hooks
<1> QED BY <1>1, <1>2, <1>3, <1>4, <1>5 DEF TypeOK

\* One argument, or the end of the line, keeps the types.
LEMMA NextType == TypeOK /\ [Next]_vars => TypeOK'
<1> SUFFICES ASSUME TypeOK, [Next]_vars PROVE TypeOK'
  OBVIOUS
<1>0. ReadOK
  BY DEF TypeOK, ReadOK
<1>1. CASE TakeText
  <2>1. ReadOK'
    BY <1>0, <1>1, ValuePlace DEF TakeText, ReadOK
  <2> QED BY <1>1, <2>1, ValuePlace, Reading DEF TakeText, ReadValue, InLoop
<1>2. CASE TakeNumber
  <2> DEFINE o == argv[i]
             n == Strtoul(Numeral[argv[i + 1]])
  <2>1. o \in NumberOptions /\ n \in 1..UIntMax /\ (o = "--port" => n \in 1..PortMax)
    BY <1>2, ValuePlace, NumberInRange DEF TakeNumber, ReadValue
  <2>2. n \in 0..UIntMax
    BY <2>1
  <2>3. number' = [number EXCEPT ![o] = n]
    BY <1>2 DEF TakeNumber
  <2> HIDE DEF o, n
  <2>4. number' \in [NumberOptions -> 0..UIntMax]
    BY <1>0, <2>1, <2>2, <2>3 DEF ReadOK
  <2>5. number'["--port"] \in 1..PortMax /\ number'["--stats-interval"] \in 1..UIntMax
    BY <1>0, <2>1, <2>3 DEF ReadOK, NumberOptions
  <2>6. ReadOK'
    BY <1>0, <1>2, <2>4, <2>5 DEF TakeNumber, ReadOK
  <2> QED BY <1>2, <2>6, ValuePlace, Reading DEF TakeNumber, ReadValue, InLoop
<1>3. CASE TakeHook
  <2>1. ReadOK'
    BY <1>0, <1>3 DEF TakeHook, ReadValue, Readable, ReadOK
  <2> QED BY <1>3, <2>1, ValuePlace, Reading DEF TakeHook, ReadValue, InLoop
<1>4. CASE TakeFlag
  <2>1. ReadOK'
    BY <1>0, <1>4, FlagPlace DEF TakeFlag, ReadOK
  <2> QED BY <1>4, <2>1, FlagPlace, Reading DEF TakeFlag, ReadFlag, InLoop
<1>5. CASE TakePoint
  <2>1. ReadOK'
    BY <1>0, <1>5 DEF TakePoint, ReadOK
  <2> QED BY <1>5, <2>1, FlagPlace, Reading DEF TakePoint, ReadFlag, InLoop
<1>6. CASE BadValue \/ Stray \/ Incomplete
  BY <1>6, RefuseType DEF BadValue, Stray, Incomplete, InLoop
<1>7. CASE Accept
  <2>1. Usable(cfg')
    BY <1>0, <1>7, ResultUsable DEF Accept
  <2>2. ReadOK' /\ UNCHANGED <<argv, i>> /\ status' = "accepted"
    BY <1>0, <1>7 DEF Accept, read, ReadOK
  <2>3. argv' \in Seq(Tokens) /\ i' \in 1..(Len(argv') + 1)
    BY <2>2 DEF TypeOK
  <2> QED BY <2>1, <2>2, <2>3 DEF TypeOK, ReadOK
<1>8. CASE UNCHANGED vars
  BY <1>8 DEF vars, read, TypeOK
<1> QED BY <1>1, <1>2, <1>3, <1>4, <1>5, <1>6, <1>7, <1>8 DEF Next

\* For any command lines: the loop stays within the line, and an accepted line
\* gives an interface name that fits, a known action and algorithm, a key of
\* the algorithm's length and numbers in their ranges.
THEOREM TypeTheorem == Spec => []TypeOK
BY InitType, NextType, PTL DEF Spec


----------------------------------------------------------------------------
(* Which tokens are read as options.                                        *)

LEMMA LeastElement ==
  ASSUME NEW T, T \subseteq Nat, T # {}
  PROVE  \E x \in T : \A y \in T : x <= y
<1> DEFINE R == OpToRel(<, Nat)
<1>1. IsWellFoundedOn(R, Nat)
  BY NatLessThanWellFounded
<1>2. \A x, y \in Nat : y < x => <<y, x>> \in R
  BY DEF OpToRel
<1> HIDE DEF R
<1>3. PICK x \in T : \A y \in T : ~(<<y, x>> \in R)
  BY <1>1, WFMin
<1>4. ASSUME NEW y \in T PROVE x <= y
  <2>1. x \in Nat /\ y \in Nat
    OBVIOUS
  <2>2. ~(y < x)
    BY <1>2, <1>3, <2>1, Zenon
  <2> QED BY <2>1, <2>2
<1> QED BY <1>4

\* b tells the options of the first n tokens of a line from their values.
BeginsUpTo(line, b, n) ==
  b = [k \in 1..n |-> k = 1 \/ ~(b[k - 1] /\ line[k - 1] \in TakesValue)]

LEMMA BeginsExist ==
  ASSUME NEW line, NEW m \in Nat
  PROVE  \E b : BeginsUpTo(line, b, m)
<1> DEFINE T == {n \in Nat : ~\E b : BeginsUpTo(line, b, n)}
<1>1. CASE T = {}
  BY <1>1
<1>2. CASE T # {}
  <2>1. PICK n \in T : \A y \in T : n <= y
    BY <1>2, LeastElement
  <2>2. n # 0
    <3>1. BeginsUpTo(line, [k \in 1..0 |-> TRUE], 0)
      BY DEF BeginsUpTo
    <3> QED BY <2>1, <3>1
  <2>3. n - 1 \in Nat /\ n - 1 \notin T /\ n \in Nat
    BY <2>1, <2>2
  <2>4. PICK b : BeginsUpTo(line, b, n - 1)
    BY <2>3
  <2> DEFINE c == [k \in 1..n |-> k = 1 \/ ~(b[k - 1] /\ line[k - 1] \in TakesValue)]
  <2>5. ASSUME NEW k \in 1..(n - 1) PROVE c[k] = b[k]
    BY <2>3, <2>4 DEF BeginsUpTo
  <2>6. BeginsUpTo(line, c, n)
    <3>1. ASSUME NEW k \in 1..n, k # 1 PROVE c[k - 1] = b[k - 1]
      <4>1. k - 1 \in 1..(n - 1)
        BY <2>3, <3>1
      <4> HIDE DEF c
      <4> QED BY <2>5, <4>1
    <3>2. \A k \in 1..n : c[k] = (k = 1 \/ ~(c[k - 1] /\ line[k - 1] \in TakesValue))
      BY <3>1, Zenon
    <3>3. c = [k \in 1..n |-> c[k]]
      BY Zenon
    <3> HIDE DEF c
    <3> QED BY <3>2, <3>3, Zenon DEF BeginsUpTo
  <2> QED BY <2>1, <2>6
<1> QED BY <1>1, <1>2

\* Begins as a function of the line, so that it is the same in every state.
BeginsOf(line) == CHOOSE b : BeginsUpTo(line, b, Len(line))

LEMMA BeginsSame == Begins = BeginsOf(argv) /\ Begins' = BeginsOf(argv')
BY DEF Begins, BeginsOf, BeginsUpTo

LEMMA BeginsIs ==
  ASSUME argv \in Seq(Tokens), NEW k \in 1..Len(argv)
  PROVE  Begins[k] <=> (k = 1 \/ ~(Begins[k - 1] /\ argv[k - 1] \in TakesValue))
<1>1. Len(argv) \in Nat
  OBVIOUS
<1>2. BeginsUpTo(argv, Begins, Len(argv))
  BY <1>1, BeginsExist, BeginsSame DEF BeginsOf
<1> QED BY <1>2 DEF BeginsUpTo

----------------------------------------------------------------------------
(* What was read so far is what the line says up to the argument reached.   *)

\* The places before n where o is read as an option.
Before(o, n) == {k \in Given(o) : k < n}

\* An option that was not given has its default, of equal ones the last counts.
TextUpTo(t, n) ==
  \A o \in TextOptions :
    t[o] = IF Before(o, n) = {} THEN IF o = "--algo" THEN CBC ELSE None
           ELSE argv[Max(Before(o, n)) + 1]

NumberUpTo(m, n) ==
  \A o \in NumberOptions :
    m[o] = IF Before(o, n) = {}
           THEN CASE o = "--port" -> 7777 [] o = "--stats-interval" -> 1 [] OTHER -> 0
           ELSE Strtoul(Numeral[argv[Max(Before(o, n)) + 1]])

HookUpTo(h, n) ==
  h = IF Before("--hook", n) = {} THEN "xdp" ELSE argv[Max(Before("--hook", n)) + 1]

Points(n) == Before("--tc-ingress", n) \union Before("--tc-egress", n)

PointUpTo(p, n) ==
  p = IF Points(n) = {} THEN "auto"
      ELSE IF Max(Points(n)) \in Before("--tc-ingress", n) THEN "ingress" ELSE "egress"

FlagsUpTo(f, n) == f = {o \in Flags : Before(o, n) # {}}

\* The token at k is an option that is known, with a value that is not refused.
FormedAt(k) ==
  Begins[k] =>
    /\ argv[k] \in Options
    /\ argv[k] \in TakesValue => k < Len(argv) /\ Readable(argv[k], argv[k + 1])

ScanAt(n, t, m, f, h, p) ==
  /\ n <= Len(argv) => Begins[n]
  /\ TextUpTo(t, n) /\ NumberUpTo(m, n) /\ FlagsUpTo(f, n)
  /\ HookUpTo(h, n) /\ PointUpTo(p, n)
  /\ \A k \in 1..Len(argv) : k < n => FormedAt(k)

ScanInv == ScanAt(i, text, number, flags, hook, tc_attach)

\* The loop is where the line says, and what the function returned is right.
ParseInv == TypeOK /\ (status = "reading" => ScanInv) /\ ParsedAsMeant

LEMMA MaxIs ==
  ASSUME NEW S, S \subseteq Nat, NEW x \in S, \A y \in S : y <= x
  PROVE  Max(S) = x
<1>1. \E z \in S : \A y \in S : z >= y
  <2>1. \A y \in S : x >= y
    OBVIOUS
  <2> QED BY <2>1
<1>2. Max(S) \in S /\ \A y \in S : Max(S) >= y
  BY <1>1, Zenon DEF Max
<1>3. Max(S) >= x /\ Max(S) <= x /\ Max(S) \in Nat /\ x \in Nat
  BY <1>2
<1> QED BY <1>3

\* What the option at n adds to the places of an option, and the next place.
Adds(o, n, m) == Before(o, m) = Before(o, n) \union (IF o = argv[n] THEN {n} ELSE {})

LEMMA PlacesType ==
  ASSUME NEW o, NEW n
  PROVE  Before(o, n) \subseteq Nat /\ \A k \in Before(o, n) : k < n
BY DEF Before, Given

LEMMA AfterFlag ==
  ASSUME argv \in Seq(Tokens), NEW n \in 1..Len(argv), Begins[n], argv[n] \notin TakesValue
  PROVE  /\ n + 1 <= Len(argv) => Begins[n + 1]
         /\ \A o : Adds(o, n, n + 1)
<1>1. n + 1 <= Len(argv) => Begins[n + 1]
  <2> SUFFICES ASSUME n + 1 <= Len(argv) PROVE Begins[n + 1]
    OBVIOUS
  <2>1. n + 1 \in 1..Len(argv) /\ n + 1 # 1 /\ (n + 1) - 1 = n
    OBVIOUS
  <2> QED BY <2>1, BeginsIs
<1>2. ASSUME NEW o PROVE Adds(o, n, n + 1)
  <2>1. \A k \in 1..Len(argv) : k < n + 1 <=> k < n \/ k = n
    OBVIOUS
  <2> QED BY <2>1 DEF Adds, Before, Given
<1> QED BY <1>1, <1>2

LEMMA AfterValue ==
  ASSUME argv \in Seq(Tokens), NEW n \in 1..Len(argv), Begins[n], argv[n] \in TakesValue,
         n < Len(argv)
  PROVE  /\ ~Begins[n + 1]
         /\ n + 2 <= Len(argv) => Begins[n + 2]
         /\ \A o : Adds(o, n, n + 2)
<1>1. ~Begins[n + 1]
  <2>1. n + 1 \in 1..Len(argv) /\ n + 1 # 1 /\ (n + 1) - 1 = n
    OBVIOUS
  <2> QED BY <2>1, BeginsIs
<1>2. n + 2 <= Len(argv) => Begins[n + 2]
  <2> SUFFICES ASSUME n + 2 <= Len(argv) PROVE Begins[n + 2]
    OBVIOUS
  <2>1. n + 2 \in 1..Len(argv) /\ n + 2 # 1 /\ (n + 2) - 1 = n + 1
    OBVIOUS
  <2> QED BY <1>1, <2>1, BeginsIs
<1>3. ASSUME NEW o PROVE Adds(o, n, n + 2)
  <2>1. \A k \in 1..Len(argv) : k < n + 2 <=> k < n \/ k = n \/ k = n + 1
    OBVIOUS
  <2> QED BY <1>1, <2>1 DEF Adds, Before, Given
<1> QED BY <1>1, <1>2, <1>3

\* The newest place of an option is its last one.
LEMMA AddedMax ==
  ASSUME NEW o, NEW n \in Nat, NEW m, Adds(o, n, m), o = argv[n]
  PROVE  Before(o, m) # {} /\ Max(Before(o, m)) = n
<1>1. Before(o, m) = Before(o, n) \union {n}
  BY DEF Adds
<1>2. Before(o, m) \subseteq Nat /\ n \in Before(o, m) /\ \A k \in Before(o, m) : k <= n
  BY <1>1, PlacesType
<1> QED BY <1>2, MaxIs

\* Options that are not at n are where they were.
LEMMA AddedNone ==
  ASSUME NEW o, NEW n, NEW m, Adds(o, n, m), o # argv[n]
  PROVE  Before(o, m) = Before(o, n)
BY DEF Adds

\* The line does not change.
LEMMA ScanSame ==
  ASSUME argv' = argv, NEW n, NEW t, NEW m, NEW f, NEW h, NEW p,
         n = i', t = text', m = number', f = flags', h = hook', p = tc_attach',
         ScanAt(n, t, m, f, h, p)
  PROVE  ScanInv'
<1>1. Begins' = Begins
  BY BeginsSame
<1>2. \A o : Given(o)' = Given(o)
  BY <1>1 DEF Given
<1>3. TextUpTo(text, i)'
  BY <1>2 DEF ScanAt, TextUpTo, Before
<1>4. NumberUpTo(number, i)'
  BY <1>2 DEF ScanAt, NumberUpTo, Before
<1>5. FlagsUpTo(flags, i)'
  BY <1>2 DEF ScanAt, FlagsUpTo, Before
<1>6. HookUpTo(hook, i)'
  BY <1>2 DEF ScanAt, HookUpTo, Before
<1>7. PointUpTo(tc_attach, i)'
  BY <1>2 DEF ScanAt, PointUpTo, Points, Before
<1>8. (i <= Len(argv) => Begins[i])'
  BY <1>1 DEF ScanAt
<1>9. (\A k \in 1..Len(argv) : k < i => FormedAt(k))'
  BY <1>1 DEF ScanAt, FormedAt
<1> QED BY <1>3, <1>4, <1>5, <1>6, <1>7, <1>8, <1>9 DEF ScanInv, ScanAt

\* The tokens before m are well formed if those before n are, and n itself.
LEMMA FormedStep ==
  ASSUME NEW n \in 1..Len(argv), NEW m, \A k \in 1..Len(argv) : k < n => FormedAt(k),
         FormedAt(n), m = n + 1 \/ (m = n + 2 /\ ~Begins[n + 1])
  PROVE  \A k \in 1..Len(argv) : k < m => FormedAt(k)
<1> SUFFICES ASSUME NEW k \in 1..Len(argv), k < m PROVE FormedAt(k)
  OBVIOUS
<1>1. k < n \/ k = n \/ (k = n + 1 /\ m = n + 2)
  OBVIOUS
<1> QED BY <1>1 DEF FormedAt

\* The place of the option at hand.
LEMMA AtPlace ==
  ASSUME TypeOK, ScanInv, InLoop
  PROVE  /\ i \in 1..Len(argv) /\ Begins[i] /\ argv \in Seq(Tokens)
         /\ ScanAt(i, text, number, flags, hook, tc_attach)
BY DEF TypeOK, InLoop, ScanInv, ScanAt

\* What is not read at n stays as it was said.
LEMMA TextStays ==
  ASSUME NEW t, NEW n, NEW m, TextUpTo(t, n), \A o : Adds(o, n, m), argv[n] \notin TextOptions
  PROVE  TextUpTo(t, m)
<1>1. \A o \in TextOptions : Before(o, m) = Before(o, n)
  BY AddedNone
<1> QED BY <1>1 DEF TextUpTo

LEMMA NumberStays ==
  ASSUME NEW t, NEW n, NEW m, NumberUpTo(t, n), \A o : Adds(o, n, m),
         argv[n] \notin NumberOptions
  PROVE  NumberUpTo(t, m)
<1>1. \A o \in NumberOptions : Before(o, m) = Before(o, n)
  BY AddedNone
<1> QED BY <1>1 DEF NumberUpTo

LEMMA FlagsStay ==
  ASSUME NEW t, NEW n, NEW m, FlagsUpTo(t, n), \A o : Adds(o, n, m), argv[n] \notin Flags
  PROVE  FlagsUpTo(t, m)
<1>1. \A o \in Flags : Before(o, m) = Before(o, n)
  BY AddedNone
<1> QED BY <1>1 DEF FlagsUpTo

LEMMA HookStays ==
  ASSUME NEW t, NEW n, NEW m, HookUpTo(t, n), \A o : Adds(o, n, m), argv[n] # "--hook"
  PROVE  HookUpTo(t, m)
<1>1. Before("--hook", m) = Before("--hook", n)
  BY AddedNone
<1> QED BY <1>1 DEF HookUpTo

LEMMA PointStays ==
  ASSUME NEW t, NEW n, NEW m, PointUpTo(t, n), \A o : Adds(o, n, m), argv[n] \notin PointFlags
  PROVE  PointUpTo(t, m)
<1>1. \A o \in PointFlags : Before(o, m) = Before(o, n)
  BY AddedNone
<1>2. "--tc-ingress" \in PointFlags /\ "--tc-egress" \in PointFlags
  BY DEF PointFlags
<1> QED BY <1>1, <1>2 DEF PointUpTo, Points

\* The options are of different kinds.
LEMMA KindsDiffer ==
  ASSUME NEW o
  PROVE  /\ o \in TextOptions => o \notin NumberOptions \union Flags \union PointFlags
                                 /\ o # "--hook" /\ o \in TakesValue
         /\ o \in NumberOptions => o \notin Flags \union PointFlags
                                   /\ o # "--hook" /\ o \in TakesValue
         /\ o = "--hook" => o \notin Flags \union PointFlags /\ o \in TakesValue
         /\ o \in Flags => o \notin PointFlags /\ o \notin TakesValue
         /\ o \in PointFlags => o \notin TakesValue
         /\ o \in TakesValue \union Flags \union PointFlags => o \in Options
BY DEF TextOptions, NumberOptions, Flags, PointFlags, TakesValue, Options

\* An option with its value, or a flag, is well formed and leads to the next place.
LEMMA ValueRead ==
  ASSUME TypeOK, ScanInv, NEW options, options \subseteq TakesValue, ReadValue(options)
  PROVE  /\ i + 2 <= Len(argv) => Begins[i + 2]
         /\ \A o : Adds(o, i, i + 2)
         /\ \A k \in 1..Len(argv) : k < i + 2 => FormedAt(k)
<1>1. InLoop /\ argv[i] \in options /\ i < Len(argv) /\ Readable(argv[i], argv[i + 1])
  BY DEF ReadValue, HasValue
<1>2. /\ i \in 1..Len(argv) /\ Begins[i] /\ argv \in Seq(Tokens)
      /\ \A k \in 1..Len(argv) : k < i => FormedAt(k)
  BY <1>1, AtPlace DEF ScanAt
<1>3. argv[i] \in TakesValue /\ argv[i] \in Options
  BY <1>1, KindsDiffer
<1>4. /\ ~Begins[i + 1] /\ (i + 2 <= Len(argv) => Begins[i + 2])
      /\ \A o : Adds(o, i, i + 2)
  BY <1>1, <1>2, <1>3, AfterValue
<1>5. FormedAt(i)
  BY <1>1, <1>3 DEF FormedAt
<1> QED BY <1>2, <1>4, <1>5, FormedStep

LEMMA FlagRead ==
  ASSUME TypeOK, ScanInv, NEW options, options \subseteq Flags \union PointFlags,
         ReadFlag(options)
  PROVE  /\ i + 1 <= Len(argv) => Begins[i + 1]
         /\ \A o : Adds(o, i, i + 1)
         /\ \A k \in 1..Len(argv) : k < i + 1 => FormedAt(k)
<1>1. InLoop /\ argv[i] \in options
  BY DEF ReadFlag
<1>2. /\ i \in 1..Len(argv) /\ Begins[i] /\ argv \in Seq(Tokens)
      /\ \A k \in 1..Len(argv) : k < i => FormedAt(k)
  BY <1>1, AtPlace DEF ScanAt
<1>3. argv[i] \notin TakesValue /\ argv[i] \in Options
  BY <1>1, KindsDiffer
<1>4. (i + 1 <= Len(argv) => Begins[i + 1]) /\ \A o : Adds(o, i, i + 1)
  BY <1>2, <1>3, AfterFlag
<1>5. FormedAt(i)
  BY <1>3 DEF FormedAt
<1> QED BY <1>2, <1>4, <1>5, FormedStep

LEMMA TakeTextScan ==
  ASSUME TypeOK, ScanInv, TakeText
  PROVE  ScanInv'
<1> DEFINE n == i + 2
           t == [text EXCEPT ![argv[i]] = argv[i + 1]]
<1>1. ReadValue(TextOptions) /\ argv[i] \in TextOptions /\ i \in Nat
  BY DEF TakeText, ReadValue, TypeOK
<1>2. /\ n <= Len(argv) => Begins[n]
      /\ \A o : Adds(o, i, n)
      /\ \A k \in 1..Len(argv) : k < n => FormedAt(k)
  BY <1>1, ValueRead, KindsDiffer
<1>3. ScanAt(i, text, number, flags, hook, tc_attach)
  BY DEF ScanInv
<1> HIDE DEF n
<1>4. TextUpTo(t, n)
  <2> SUFFICES ASSUME NEW o \in TextOptions
               PROVE  t[o] = IF Before(o, n) = {} THEN IF o = "--algo" THEN CBC ELSE None
                             ELSE argv[Max(Before(o, n)) + 1]
    BY DEF TextUpTo
  <2>1. text \in [TextOptions -> Tokens \union {None}]
    BY DEF TypeOK
  <2>2. CASE o = argv[i]
    BY <1>1, <1>2, <2>1, <2>2, AddedMax
  <2>3. CASE o # argv[i]
    BY <1>2, <1>3, <2>1, <2>3, AddedNone DEF ScanAt, TextUpTo
  <2> QED BY <2>2, <2>3
<1>5. NumberUpTo(number, n) /\ FlagsUpTo(flags, n) /\ HookUpTo(hook, n) /\ PointUpTo(tc_attach, n)
  BY <1>1, <1>2, <1>3, KindsDiffer, NumberStays, FlagsStay, HookStays, PointStays DEF ScanAt
<1>6. ScanAt(n, t, number, flags, hook, tc_attach)
  BY <1>2, <1>4, <1>5 DEF ScanAt
<1>7. /\ argv' = argv /\ n = i' /\ t = text'
      /\ UNCHANGED <<number, flags, hook, tc_attach>>
  BY DEF TakeText, ReadValue, n
<1> HIDE DEF t
<1> QED BY <1>6, <1>7, ScanSame

LEMMA TakeNumberScan ==
  ASSUME TypeOK, ScanInv, TakeNumber
  PROVE  ScanInv'
<1> DEFINE n == i + 2
           t == [number EXCEPT ![argv[i]] = Strtoul(Numeral[argv[i + 1]])]
<1>1. ReadValue(NumberOptions) /\ argv[i] \in NumberOptions /\ i \in Nat
  BY DEF TakeNumber, ReadValue, TypeOK
<1>2. /\ n <= Len(argv) => Begins[n]
      /\ \A o : Adds(o, i, n)
      /\ \A k \in 1..Len(argv) : k < n => FormedAt(k)
  BY <1>1, ValueRead, KindsDiffer
<1>3. ScanAt(i, text, number, flags, hook, tc_attach)
  BY DEF ScanInv
<1> HIDE DEF n
<1>4. NumberUpTo(t, n)
  <2> SUFFICES ASSUME NEW o \in NumberOptions
               PROVE  t[o] = IF Before(o, n) = {}
                             THEN CASE o = "--port" -> 7777
                                    [] o = "--stats-interval" -> 1 [] OTHER -> 0
                             ELSE Strtoul(Numeral[argv[Max(Before(o, n)) + 1]])
    BY DEF NumberUpTo
  <2>1. DOMAIN number = NumberOptions
    BY DEF TypeOK
  <2>2. CASE o = argv[i]
    <3>1. t[o] = Strtoul(Numeral[argv[i + 1]])
      BY <2>1, <2>2
    <3>2. Before(o, n) # {} /\ Max(Before(o, n)) = i
      BY <1>1, <1>2, <2>2, AddedMax
    <3> HIDE DEF t
    <3> QED BY <3>1, <3>2
  <2>3. CASE o # argv[i]
    <3>1. t[o] = number[o]
      BY <2>1, <2>3
    <3>2. Before(o, n) = Before(o, i)
      BY <1>2, <2>3, AddedNone
    <3> HIDE DEF t
    <3> QED BY <1>3, <3>1, <3>2 DEF ScanAt, NumberUpTo
  <2> QED BY <2>2, <2>3
<1>5. TextUpTo(text, n) /\ FlagsUpTo(flags, n) /\ HookUpTo(hook, n) /\ PointUpTo(tc_attach, n)
  BY <1>1, <1>2, <1>3, KindsDiffer, TextStays, FlagsStay, HookStays, PointStays DEF ScanAt
<1>6. ScanAt(n, text, t, flags, hook, tc_attach)
  BY <1>2, <1>4, <1>5 DEF ScanAt
<1>7. /\ argv' = argv /\ n = i' /\ t = number'
      /\ UNCHANGED <<text, flags, hook, tc_attach>>
  BY DEF TakeNumber, ReadValue, n
<1> HIDE DEF t
<1> QED BY <1>6, <1>7, ScanSame

LEMMA TakeHookScan ==
  ASSUME TypeOK, ScanInv, TakeHook
  PROVE  ScanInv'
<1> DEFINE n == i + 2
<1>1. ReadValue({"--hook"}) /\ argv[i] = "--hook" /\ i \in Nat
  BY DEF TakeHook, ReadValue, TypeOK
<1>2. /\ n <= Len(argv) => Begins[n]
      /\ \A o : Adds(o, i, n)
      /\ \A k \in 1..Len(argv) : k < n => FormedAt(k)
  BY <1>1, ValueRead, KindsDiffer
<1>3. ScanAt(i, text, number, flags, hook, tc_attach)
  BY DEF ScanInv
<1> HIDE DEF n
<1>4. HookUpTo(argv[i + 1], n)
  BY <1>1, <1>2, AddedMax DEF HookUpTo
<1>5. TextUpTo(text, n) /\ NumberUpTo(number, n) /\ FlagsUpTo(flags, n) /\ PointUpTo(tc_attach, n)
  BY <1>1, <1>2, <1>3, KindsDiffer, TextStays, NumberStays, FlagsStay, PointStays DEF ScanAt
<1>6. ScanAt(n, text, number, flags, argv[i + 1], tc_attach)
  BY <1>2, <1>4, <1>5 DEF ScanAt
<1>7. /\ argv' = argv /\ n = i' /\ argv[i + 1] = hook'
      /\ UNCHANGED <<text, number, flags, tc_attach>>
  BY DEF TakeHook, ReadValue, n
<1> QED BY <1>6, <1>7, ScanSame

LEMMA TakeFlagScan ==
  ASSUME TypeOK, ScanInv, TakeFlag
  PROVE  ScanInv'
<1> DEFINE n == i + 1
           f == flags \union {argv[i]}
<1>1. ReadFlag(Flags) /\ argv[i] \in Flags /\ i \in Nat
  BY DEF TakeFlag, ReadFlag, TypeOK
<1>2. /\ n <= Len(argv) => Begins[n]
      /\ \A o : Adds(o, i, n)
      /\ \A k \in 1..Len(argv) : k < n => FormedAt(k)
  BY <1>1, FlagRead
<1>3. ScanAt(i, text, number, flags, hook, tc_attach)
  BY DEF ScanInv
<1> HIDE DEF n
<1>4. FlagsUpTo(f, n)
  <2>1. \A o : o # argv[i] => Before(o, n) = Before(o, i)
    BY <1>2, AddedNone
  <2>2. Before(argv[i], n) # {}
    BY <1>1, <1>2, AddedMax
  <2>3. flags = {o \in Flags : Before(o, i) # {}}
    BY <1>3 DEF ScanAt, FlagsUpTo
  <2> QED BY <1>1, <2>1, <2>2, <2>3 DEF FlagsUpTo
<1>5. TextUpTo(text, n) /\ NumberUpTo(number, n) /\ HookUpTo(hook, n) /\ PointUpTo(tc_attach, n)
  BY <1>1, <1>2, <1>3, KindsDiffer, TextStays, NumberStays, HookStays, PointStays DEF ScanAt
<1>6. ScanAt(n, text, number, f, hook, tc_attach)
  BY <1>2, <1>4, <1>5 DEF ScanAt
<1>7. /\ argv' = argv /\ n = i' /\ f = flags'
      /\ UNCHANGED <<text, number, hook, tc_attach>>
  BY DEF TakeFlag, ReadFlag, n
<1> HIDE DEF f
<1> QED BY <1>6, <1>7, ScanSame

LEMMA TakePointScan ==
  ASSUME TypeOK, ScanInv, TakePoint
  PROVE  ScanInv'
<1> DEFINE n == i + 1
           p == IF argv[i] = "--tc-ingress" THEN "ingress" ELSE "egress"
<1>1. ReadFlag(PointFlags) /\ argv[i] \in PointFlags /\ i \in Nat
  BY DEF TakePoint, ReadFlag, TypeOK
<1>2. /\ n <= Len(argv) => Begins[n]
      /\ \A o : Adds(o, i, n)
      /\ \A k \in 1..Len(argv) : k < n => FormedAt(k)
  BY <1>1, FlagRead
<1>3. ScanAt(i, text, number, flags, hook, tc_attach)
  BY DEF ScanInv
<1> HIDE DEF n
<1>4. PointUpTo(p, n)
  <2>1. /\ Before("--tc-ingress", n) = Before("--tc-ingress", i) \union
             (IF argv[i] = "--tc-ingress" THEN {i} ELSE {})
        /\ Before("--tc-egress", n) = Before("--tc-egress", i) \union
             (IF argv[i] = "--tc-egress" THEN {i} ELSE {})
    BY <1>2 DEF Adds
  <2>2. argv[i] = "--tc-ingress" \/ argv[i] = "--tc-egress"
    BY <1>1 DEF PointFlags
  <2>3. /\ Before("--tc-ingress", i) \subseteq Nat /\ Before("--tc-egress", i) \subseteq Nat
        /\ \A k \in Before("--tc-ingress", i) \union Before("--tc-egress", i) : k < i
    BY PlacesType
  <2>4. Points(n) \subseteq Nat /\ i \in Points(n) /\ \A k \in Points(n) : k <= i
    BY <1>1, <2>1, <2>2, <2>3 DEF Points
  <2>5. Max(Points(n)) = i
    BY <2>4, MaxIs
  <2>6. i \in Before("--tc-ingress", n) <=> argv[i] = "--tc-ingress"
    BY <1>1, <2>1, <2>2, <2>3
  <2> QED BY <2>4, <2>5, <2>6 DEF PointUpTo
<1>5. TextUpTo(text, n) /\ NumberUpTo(number, n) /\ FlagsUpTo(flags, n) /\ HookUpTo(hook, n)
  BY <1>1, <1>2, <1>3, KindsDiffer, TextStays, NumberStays, FlagsStay, HookStays DEF ScanAt
<1>6. ScanAt(n, text, number, flags, hook, p)
  BY <1>2, <1>4, <1>5 DEF ScanAt
<1>7. /\ argv' = argv /\ n = i' /\ p = tc_attach'
      /\ UNCHANGED <<text, number, flags, hook>>
  BY DEF TakePoint, ReadFlag, n
<1> HIDE DEF p
<1> QED BY <1>6, <1>7, ScanSame

----------------------------------------------------------------------------
(* The end of the line, and what the function returns.                      *)

LEMMA MeantSame ==
  ASSUME argv' = argv
  PROVE  /\ WellFormed' = WellFormed /\ MeantText' = MeantText /\ Meant' = Meant
<1>1. Begins' = Begins
  BY BeginsSame
<1>2. \A o : Given(o)' = Given(o)
  BY <1>1 DEF Given
<1>3. WellFormed' = WellFormed
  BY <1>1 DEF WellFormed
<1>4. \A o, d : LastValue(o, d)' = LastValue(o, d) /\ LastNumber(o, d)' = LastNumber(o, d)
  BY <1>2 DEF LastValue, LastNumber
<1>5. MeantText' = MeantText
  BY <1>4 DEF MeantText
<1>6. MeantNumber' = MeantNumber
  BY <1>4 DEF MeantNumber
<1>7. MeantPoint' = MeantPoint
  BY <1>2 DEF MeantPoint
<1>8. {o \in Flags : Given(o) # {}}' = {o \in Flags : Given(o) # {}}
  BY <1>2
<1>9. Meant' = Meant
  BY <1>4, <1>5, <1>6, <1>7, <1>8 DEF Meant
<1> QED BY <1>3, <1>5, <1>9

\* Past the end everything was read.
LEMMA AllRead ==
  ASSUME TypeOK, ScanInv, i > Len(argv)
  PROVE  /\ WellFormed /\ MeantText = text
         /\ Meant = Result(text, number, flags, hook, tc_attach)
<1>1. i \in Nat /\ Len(argv) \in Nat
  BY DEF TypeOK
<1>2. \A o : Before(o, i) = Given(o)
  BY <1>1 DEF Before, Given
<1>3. ScanAt(i, text, number, flags, hook, tc_attach)
  BY DEF ScanInv
<1>4. WellFormed
  BY <1>1, <1>3 DEF ScanAt, WellFormed, FormedAt
<1>5. MeantText = text
  <2>1. text = [o \in TextOptions |-> text[o]]
    BY DEF TypeOK
  <2>2. ASSUME NEW o \in TextOptions
        PROVE  text[o] = LastValue(o, IF o = "--algo" THEN CBC ELSE None)
    BY <1>2, <1>3 DEF ScanAt, TextUpTo, LastValue
  <2> QED BY <2>1, <2>2 DEF MeantText
<1>6. MeantNumber = number
  <2>1. number = [o \in NumberOptions |-> number[o]]
    BY DEF TypeOK
  <2>2. ASSUME NEW o \in NumberOptions
        PROVE  number[o] = LastNumber(o, CASE o = "--port" -> 7777
                                           [] o = "--stats-interval" -> 1 [] OTHER -> 0)
    BY <1>2, <1>3 DEF ScanAt, NumberUpTo, LastNumber
  <2> QED BY <2>1, <2>2 DEF MeantNumber
<1>7. flags = {o \in Flags : Given(o) # {}}
  BY <1>2, <1>3 DEF ScanAt, FlagsUpTo
<1>8. hook = LastValue("--hook", "xdp")
  BY <1>2, <1>3 DEF ScanAt, HookUpTo, LastValue
<1>9. tc_attach = MeantPoint
  BY <1>2, <1>3 DEF ScanAt, PointUpTo, Points, MeantPoint
<1>10. Meant = Result(text, number, flags, hook, tc_attach)
  BY <1>5, <1>6, <1>7, <1>8, <1>9 DEF Meant
<1> QED BY <1>4, <1>5, <1>10

\* A token that is refused where it is read makes the line ill formed.
LEMMA RefusedIllFormed ==
  ASSUME TypeOK, ScanInv, BadValue \/ Stray
  PROVE  ~WellFormed
<1>1. i \in 1..Len(argv) /\ Begins[i] /\ InLoop /\ i \in Nat /\ Len(argv) \in Nat
  BY AtPlace DEF BadValue, Stray, TypeOK
<1>2. CASE BadValue
  <2>1. argv[i] \in TakesValue /\ ~Readable(argv[i], argv[i + 1])
    BY <1>2 DEF BadValue
  <2> QED BY <1>1, <2>1 DEF WellFormed
<1>3. CASE Stray
  <2>1. argv[i] \notin Options \/ (argv[i] \in TakesValue /\ ~(i < Len(argv)))
    BY <1>3 DEF Stray, HasValue, Options
  <2> QED BY <1>1, <2>1 DEF WellFormed
<1> QED BY <1>2, <1>3

LEMMA InitParse == Init => ParseInv
<1> SUFFICES ASSUME Init PROVE ParseInv
  OBVIOUS
<1>1. TypeOK
  BY InitType
<1>2. \A o : Before(o, 1) = {}
  BY DEF Before, Given
<1>3. 1 <= Len(argv) => Begins[1]
  <2>1. argv \in Seq(Tokens) /\ Len(argv) \in Nat
    BY <1>1 DEF TypeOK
  <2> QED BY <2>1, BeginsIs
<1>4. ScanAt(1, text, number, flags, hook, tc_attach)
  <2>1. TextUpTo(text, 1)
    BY <1>2 DEF Init, TextUpTo
  <2>2. NumberUpTo(number, 1)
    BY <1>2 DEF Init, NumberUpTo, NumberOptions
  <2>3. FlagsUpTo(flags, 1) /\ HookUpTo(hook, 1) /\ PointUpTo(tc_attach, 1)
    BY <1>2 DEF Init, FlagsUpTo, HookUpTo, PointUpTo, Points
  <2>4. \A k \in 1..Len(argv) : k < 1 => FormedAt(k)
    OBVIOUS
  <2> QED BY <1>3, <2>1, <2>2, <2>3, <2>4 DEF ScanAt
<1>5. ScanInv
  BY <1>4 DEF Init, ScanInv
<1> QED BY <1>1, <1>5 DEF Init, ParseInv, ParsedAsMeant

LEMMA NextParse == ParseInv /\ [Next]_vars => ParseInv'
<1> SUFFICES ASSUME ParseInv, [Next]_vars PROVE ParseInv'
  OBVIOUS
<1>1. TypeOK /\ TypeOK' /\ ParsedAsMeant /\ (status = "reading" => ScanInv)
  BY NextType DEF ParseInv
<1>2. CASE TakeText \/ TakeNumber \/ TakeHook \/ TakeFlag \/ TakePoint
  <2>1. status = "reading" /\ status' = status
    BY <1>2 DEF TakeText, TakeNumber, TakeHook, TakeFlag, TakePoint, ReadValue, ReadFlag, InLoop
  <2>2. ScanInv'
    BY <1>1, <1>2, <2>1, TakeTextScan, TakeNumberScan, TakeHookScan, TakeFlagScan, TakePointScan
  <2> QED BY <1>1, <2>1, <2>2 DEF ParseInv, ParsedAsMeant
<1>3. CASE BadValue \/ Stray
  <2>1. status = "reading" /\ status' = "refused" /\ argv' = argv
    BY <1>3 DEF BadValue, Stray, InLoop, Refuse
  <2>2. ~WellFormed'
    BY <1>1, <1>3, <2>1, RefusedIllFormed, MeantSame
  <2> QED BY <1>1, <2>1, <2>2 DEF ParseInv, ParsedAsMeant
<1>4. CASE Accept
  <2>1. /\ status = "reading" /\ status' = "accepted" /\ argv' = argv /\ i > Len(argv)
        /\ Complete(text) /\ cfg' = Result(text, number, flags, hook, tc_attach)
    BY <1>4 DEF Accept
  <2>2. WellFormed /\ MeantText = text /\ Meant = cfg'
    BY <1>1, <2>1, AllRead
  <2>3. WellFormed' /\ MeantText' = text /\ Meant' = cfg'
    BY <2>1, <2>2, MeantSame
  <2> QED BY <1>1, <2>1, <2>3 DEF ParseInv, ParsedAsMeant
<1>5. CASE Incomplete
  <2>1. /\ status = "reading" /\ status' = "refused" /\ argv' = argv /\ i > Len(argv)
        /\ ~Complete(text)
    BY <1>5 DEF Incomplete, Refuse
  <2>2. MeantText' = text
    BY <1>1, <2>1, AllRead, MeantSame
  <2>3. ~Complete(MeantText')
    BY <2>1, <2>2
  <2>4. (~Complete(MeantText))'
    BY <2>3 DEF Complete
  <2> QED BY <1>1, <2>1, <2>4 DEF ParseInv, ParsedAsMeant
<1>6. CASE UNCHANGED vars
  <2>1. argv' = argv /\ status' = status /\ cfg' = cfg /\ UNCHANGED <<i, text, number, flags, hook, tc_attach>>
    BY <1>6 DEF vars, read
  <2>2. status = "reading" => ScanInv'
    BY <1>1, <2>1, ScanSame DEF ScanInv
  <2>3. ParsedAsMeant'
    <3>1. WellFormed' = WellFormed /\ MeantText' = MeantText /\ Meant' = Meant
      BY <2>1, MeantSame
    <3> QED BY <1>1, <2>1, <3>1 DEF ParsedAsMeant, Complete
  <2> QED BY <1>1, <2>1, <2>2, <2>3 DEF ParseInv
<1> QED BY <1>2, <1>3, <1>4, <1>5, <1>6 DEF Next

\* For any command line: it is accepted exactly if every token is an option or
\* the value of one, no value is refused where it is read and the last values
\* are complete; and the configuration is then what the line says, whatever the
\* order of its options.
THEOREM MeantTheorem == Spec => []ParsedAsMeant
<1>1. ParseInv => ParsedAsMeant
  BY DEF ParseInv
<1> QED BY <1>1, InitParse, NextParse, PTL DEF Spec

\* An option that was taken for a value would have to be a numeral, a hook, a
\* mode, an algorithm or a key in the end, and is none of them.
LEMMA SwallowedSeen == TypeOK /\ ParsedAsMeant => SwallowedShows
<1> SUFFICES ASSUME TypeOK, ParsedAsMeant, status = "accepted", NEW k \in 2..Len(argv),
                    ~Begins[k], argv[k] \in Options
             PROVE  \/ argv[k - 1] = "--iface"
                    \/ /\ argv[k - 1] \in {"--mode", "--key", "--algo"}
                       /\ k - 1 # Max(Given(argv[k - 1]))
  BY DEF SwallowedShows
<1> DEFINE o == argv[k - 1]
<1>1. WellFormed /\ Complete(MeantText)
  BY DEF ParsedAsMeant
<1>2. /\ argv \in Seq(Tokens) /\ Len(argv) \in Nat
      /\ k \in 1..Len(argv) /\ k # 1 /\ k - 1 \in 1..Len(argv) /\ (k - 1) + 1 = k
  BY DEF TypeOK
<1>3. Begins[k - 1] /\ o \in TakesValue
  BY <1>2, BeginsIs
<1>4. Readable(o, argv[k])
  BY <1>1, <1>2, <1>3 DEF WellFormed
<1>5. /\ argv[k] \notin DOMAIN Numeral /\ argv[k] \notin DOMAIN KeyBytes
      /\ argv[k] \notin Hooks /\ argv[k] \notin Actions /\ argv[k] \notin Algos
  BY ConfigAssumption DEF Options, TakesValue, TextOptions, NumberOptions, Flags, PointFlags,
     Hooks, Actions, ENCRYPT, DECRYPT, Algos, CBC, CHACHA
<1>6. o \in TextOptions
  BY <1>3, <1>4, <1>5 DEF Readable, IsUint, TakesValue
<1>7. ASSUME k - 1 = Max(Given(o)) PROVE MeantText[o] = argv[k]
  <2>1. k - 1 \in Given(o)
    BY <1>2, <1>3 DEF Given
  <2>2. LastValue(o, IF o = "--algo" THEN CBC ELSE None) = argv[k]
    BY <1>2, <1>7, <2>1 DEF LastValue
  <2> QED BY <1>6, <2>2 DEF MeantText
<1>8. ASSUME o # "--iface" PROVE k - 1 # Max(Given(o))
  <2>1. \/ o = "--mode" /\ MeantText[o] \in Actions
        \/ o = "--algo" /\ MeantText[o] \in Algos
        \/ o = "--key" /\ MeantText[o] \in DOMAIN KeyBytes
    BY <1>1, <1>6, <1>8 DEF TextOptions, Complete, ParsesHexKey
  <2> QED BY <1>5, <1>7, <2>1
<1> QED BY <1>6, <1>8 DEF TextOptions

\* For any command line: an option that was taken for a value shows in the
\* interface's name, or its value was replaced by a later one.
THEOREM SwallowedTheorem == Spec => []SwallowedShows
BY SwallowedSeen, TypeTheorem, MeantTheorem, PTL
=============================================================================
