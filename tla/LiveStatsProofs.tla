-------------------------- MODULE LiveStatsProofs --------------------------
(***************************************************************************)
(* The rates of the dashboard are those of two lines of one process, for   *)
(* any number of readers and any clock, even one that runs backwards.      *)
(*                                                                         *)
(* A rate alone says nothing about the next one: the invariant ties the    *)
(* fields shown to the line handled last, and each reader's line, handled  *)
(* or still on its way to the lock, to what its process has counted.       *)
(***************************************************************************)
EXTENDS LiveStats, TLAPS

LineType ==
  [reader : Readers \union {"start"}, counters : CounterType, now : Times]

TypeOK ==
  /\ counted \in [Readers -> CounterType]
  /\ parsed \in [Readers -> SUBSET LineType]
  /\ stats \in CounterType
  /\ last_stats \in CounterType
  /\ last_stats_at \in Times
  /\ recent \in Seq(LineType) /\ Len(recent) \in {1, 2}

Newest == recent[Len(recent)]

\* What the next line is compared with is the line handled last.
LastIsNewest ==
  /\ last_stats = stats /\ stats = Newest.counters
  /\ last_stats_at = Newest.now

\* A line on its way to the lock is the last one its process wrote: what the
\* process counted, or the zeros of counters that could not be read.
ParsedIsCounted ==
  \A r \in Readers : \A line \in parsed[r] :
    line.reader = r /\ line.counters \in {Zero, counted[r]}

\* No line handled says more than its process has counted.
NewestCounted ==
  \A r \in Readers : Newest.reader = r =>
    \A f \in Fields : Newest.counters[f] <= counted[r][f]

RatesInv ==
  TypeOK /\ LastIsNewest /\ ParsedIsCounted /\ NewestCounted /\ RatesOfLines

LEMMA CounterFields ==
  ASSUME NEW c \in CounterType, NEW f \in Fields
  PROVE  c[f] \in Nat
BY StatsAssumption DEF CounterType

LEMMA ZeroType == Zero \in CounterType /\ \A f \in Fields : Zero[f] = 0
BY StatsAssumption DEF Zero, CounterType

LEMMA ElapsedType ==
  ASSUME TypeOK, NEW now \in Times
  PROVE  /\ Elapsed(now) \in Nat /\ Elapsed(now) >= 1
         /\ Elapsed(now) >= now - last_stats_at
         /\ Elapsed(now) > 1 => Elapsed(now) = now - last_stats_at
BY StatsAssumption DEF TypeOK, Elapsed

LEMMA InitRates == Init => RatesInv
<1> SUFFICES ASSUME Init
             PROVE  RatesInv
  OBVIOUS
<1> DEFINE start == Line("start", Zero, 0)
<1>1. start \in LineType /\ start.counters = Zero /\ start.now = 0 /\ start.reader = "start"
  BY ZeroType, StatsAssumption DEF Line, LineType
<1> HIDE DEF start
<1>2. recent = <<start>>
  BY DEF Init, start
<1>3. Len(recent) = 1 /\ Newest = start /\ recent \in Seq(LineType)
  BY <1>1, <1>2 DEF Newest
<1>4. TypeOK
  BY <1>3, ZeroType, StatsAssumption DEF Init, TypeOK
<1>5. LastIsNewest /\ ParsedIsCounted /\ RatesOfLines
  BY <1>1, <1>3 DEF Init, LastIsNewest, ParsedIsCounted, RatesOfLines
<1>6. NewestCounted
  BY <1>1, <1>3, StatsAssumption DEF NewestCounted
<1> QED BY <1>4, <1>5, <1>6 DEF RatesInv

\* A line parsed, by any reader, leaves the rates and what they are of alone:
\* it only lets its process have counted more.
LEMMA ParseRates ==
  ASSUME RatesInv, NEW r \in Readers, NEW counters \in CounterType, NEW now \in Times,
         ParseLine(r, counters, now)
  PROVE  RatesInv'
<1> DEFINE line == Line(r, counters, now)
<1>1. line \in LineType /\ line.reader = r /\ line.counters = counters
  BY DEF Line, LineType
<1>2. parsed' = [parsed EXCEPT ![r] = {line}]
  BY DEF ParseLine
<1> HIDE DEF line
<1>3. UNCHANGED <<stats, last_stats, last_stats_at, rates, recent>>
  BY DEF ParseLine
<1>4. counted' \in [Readers -> CounterType]
  BY DEF RatesInv, TypeOK, ParseLine
<1>5. \A q \in Readers \ {r} : counted'[q] = counted[q]
  BY DEF RatesInv, TypeOK, ParseLine
<1>6. counters \in {Zero, counted'[r]}
  BY DEF RatesInv, TypeOK, ParseLine
<1>7. \A q \in Readers, f \in Fields : counted[q][f] <= counted'[q][f]
  <2> SUFFICES ASSUME NEW q \in Readers, NEW f \in Fields
               PROVE  counted[q][f] <= counted'[q][f]
    OBVIOUS
  <2>1. counted[q][f] \in Nat /\ counters[f] \in Nat
    BY CounterFields DEF RatesInv, TypeOK
  <2>2. CASE counted'[q] = counted[q]
    BY <2>1, <2>2
  <2>3. CASE q = r /\ counters # Zero
    <3>1. counted'[q] = counters /\ counters[f] >= counted[q][f]
      BY <2>3 DEF ParseLine, RatesInv, TypeOK
    <3> QED BY <3>1, <2>1
  <2>4. counted'[q] = counted[q] \/ (q = r /\ counters # Zero)
    BY <1>5 DEF ParseLine
  <2> QED BY <2>2, <2>3, <2>4
<1>8. TypeOK'
  BY <1>1, <1>2, <1>3, <1>4 DEF RatesInv, TypeOK
<1>9. ParsedIsCounted'
  <2> SUFFICES ASSUME NEW q \in Readers, NEW l \in parsed'[q]
               PROVE  l.reader = q /\ l.counters \in {Zero, counted'[q]}
    BY DEF ParsedIsCounted
  <2>1. CASE q = r
    BY <2>1, <1>1, <1>2, <1>6 DEF RatesInv, TypeOK
  <2>2. CASE q # r
    BY <2>2, <1>2, <1>5 DEF RatesInv, TypeOK, ParsedIsCounted
  <2> QED BY <2>1, <2>2
<1>10. LastIsNewest' /\ RatesOfLines'
  BY <1>3 DEF RatesInv, LastIsNewest, Newest, RatesOfLines
<1>11. NewestCounted'
  <2> SUFFICES ASSUME NEW q \in Readers, Newest'.reader = q, NEW f \in Fields
               PROVE  Newest'.counters[f] <= counted'[q][f]
    BY DEF NewestCounted
  <2>1. Newest' = Newest
    BY <1>3 DEF Newest
  <2>2. Newest.counters[f] <= counted[q][f]
    BY <2>1 DEF RatesInv, NewestCounted
  <2>3. Newest.counters[f] \in Nat /\ counted[q][f] \in Nat /\ counted'[q][f] \in Nat
    <3>1. Newest.counters \in CounterType
      BY DEF RatesInv, LastIsNewest, TypeOK
    <3> QED BY <3>1, <1>4, CounterFields DEF RatesInv, TypeOK
  <2> QED BY <2>1, <2>2, <2>3, <1>7
<1> QED BY <1>8, <1>9, <1>10, <1>11 DEF RatesInv

\* The line that gets the lock is compared with the line handled last, and
\* when both are of one process, nothing was counted in between but this line.
LEMMA UpdateRates ==
  ASSUME RatesInv, NEW r \in Readers, UpdateStats(r)
  PROVE  RatesInv'
<1>1. PICK line \in parsed[r] :
        /\ rates' = [f \in Fields |->
                       [count |-> line.counters[f] - Base(line)[f], elapsed |-> Elapsed(line.now)]]
        /\ stats' = line.counters
        /\ last_stats' = stats'
        /\ last_stats_at' = line.now
        /\ parsed' = [parsed EXCEPT ![r] = {}]
        /\ recent' = <<recent[Len(recent)], line>>
        /\ UNCHANGED counted
  BY DEF UpdateStats
<1> DEFINE old == Newest
<1>2. /\ line \in LineType /\ line.reader = r /\ line.counters \in {Zero, counted[r]}
      /\ old \in LineType
  <2>1. line \in LineType /\ line.reader = r /\ line.counters \in {Zero, counted[r]}
    BY DEF RatesInv, TypeOK, ParsedIsCounted
  <2>2. recent \in Seq(LineType)
    BY DEF RatesInv, TypeOK
  <2>3. Len(recent) \in 1..Len(recent)
    <3>1. Len(recent) = 1 \/ Len(recent) = 2
      BY DEF RatesInv, TypeOK
    <3> QED BY <3>1
  <2>4. recent[Len(recent)] \in LineType
    BY <2>2, <2>3
  <2>5. Newest \in LineType
    BY <2>4 DEF Newest
  <2> QED BY <2>1, <2>5
<1>3. old.counters = last_stats /\ old.now = last_stats_at
  BY DEF RatesInv, LastIsNewest
<1>4. old.reader = r => \A f \in Fields : old.counters[f] <= counted[r][f]
  BY DEF RatesInv, NewestCounted
<1>5. recent' = <<old, line>>
  BY <1>1 DEF Newest
<1> HIDE DEF old
<1>6. recent' \in Seq(LineType) /\ Len(recent') = 2 /\ Newest' = line
      /\ recent'[1] = old /\ recent'[2] = line
  BY <1>2, <1>5 DEF Newest
<1>7. /\ line.counters \in CounterType /\ line.now \in Times
      /\ old.counters \in CounterType /\ old.now \in Times /\ counted[r] \in CounterType
  BY <1>2 DEF LineType, RatesInv, TypeOK
<1>8. TypeOK'
  BY <1>1, <1>2, <1>6, <1>7 DEF RatesInv, TypeOK
<1>9. LastIsNewest'
  BY <1>1, <1>6 DEF LastIsNewest
<1>10. ParsedIsCounted'
  BY <1>1 DEF RatesInv, TypeOK, ParsedIsCounted
<1>11. NewestCounted'
  <2> SUFFICES ASSUME NEW f \in Fields
               PROVE  line.counters[f] <= counted[r][f]
    BY <1>1, <1>2, <1>6 DEF NewestCounted
  <2> QED BY <1>2, <1>7, ZeroType, CounterFields
<1>12. RatesOfLines'
  <2>1. \A f \in Fields : rates'[f].count = line.counters[f] - old.counters[f]
                          /\ rates'[f].elapsed = Elapsed(line.now)
    BY <1>1, <1>3 DEF Base
  <2> DEFINE e == Elapsed(line.now)
  <2>2. e \in Nat /\ e >= 1 /\ e >= line.now - old.now /\ (e > 1 => e = line.now - old.now)
    BY <1>3, <1>7, ElapsedType DEF RatesInv
  <2> HIDE DEF e
  <2>3. \A f \in Fields : rates'[f].count < 0 => old.reader # line.reader \/ line.counters = Zero
    <3> SUFFICES ASSUME NEW f \in Fields, old.reader = r, line.counters # Zero
                 PROVE  ~(rates'[f].count < 0)
      BY <1>2
    <3>1. line.counters = counted[r] /\ old.counters[f] <= counted[r][f]
      BY <1>2, <1>4
    <3>2. line.counters[f] \in Nat /\ old.counters[f] \in Nat
      BY <1>7, CounterFields
    <3> QED BY <2>1, <3>1, <3>2
  <2>4. \A f \in Fields : rates'[f].elapsed = e
    BY <2>1 DEF e
  <2> QED BY <1>1, <1>6, <2>1, <2>2, <2>3, <2>4 DEF RatesOfLines
<1> QED BY <1>8, <1>9, <1>10, <1>11, <1>12 DEF RatesInv

\* The rates shown are the packets between two lines of one process over the
\* time between them, for any number of readers, any interleaving of their
\* clocks with the lock and any times the clock gives.
THEOREM RatesTheorem == Spec => []RatesOfLines
<1>1. RatesInv /\ [Next]_vars => RatesInv'
  <2> SUFFICES ASSUME RatesInv, [Next]_vars
               PROVE  RatesInv'
    OBVIOUS
  <2>1. CASE Next
    BY <2>1, ParseRates, UpdateRates DEF Next
  <2>2. CASE UNCHANGED vars
    BY <2>2 DEF vars, RatesInv, TypeOK, LastIsNewest, ParsedIsCounted, NewestCounted,
                Newest, RatesOfLines
  <2> QED BY <2>1, <2>2
<1>2. RatesInv => RatesOfLines
  BY DEF RatesInv
<1> QED BY InitRates, <1>1, <1>2, PTL DEF Spec
=============================================================================
