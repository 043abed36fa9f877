----------------------------- MODULE LiveStats -----------------------------
(***************************************************************************)
(* The statistics of the dashboard, update_stats_from_line of              *)
(* scripts/demo_live_cipher.py: one reader thread per ebaf-crypto parses   *)
(* the statistics lines of its process, reads the clock, and only then     *)
(* takes the lock to compute the rates.  Both threads share one set of     *)
(* fields, and the other thread may run between the clock and the lock.    *)
(*                                                                         *)
(* A rate is kept as the counted packets and the time they are divided by. *)
(***************************************************************************)
EXTENDS Integers, Sequences

CONSTANTS
  Readers,     \* the processes read: encrypt and decrypt
  MaxCounted,  \* bound: packets a process counts
  Times        \* values of time.time(), the wall clock, in milliseconds

Fields == {"seen", "crypto_ok"}

ASSUME StatsAssumption ==
  /\ "start" \notin Readers
  /\ MaxCounted \in Nat
  /\ Times \subseteq Nat /\ 0 \in Times  \* 0: the start

CounterType == [Fields -> 0..MaxCounted]

Zero == [f \in Fields |-> 0]

VARIABLES
  counted,        \* process -> what its last true line said
  parsed,         \* reader -> the line it has parsed and the time of that, or none
  stats,          \* the fields shown
  last_stats,
  last_stats_at,
  rates,          \* field -> pps and crypto_ok_rate
  recent          \* the last two lines that were handled

vars == <<counted, parsed, stats, last_stats, last_stats_at, rates, recent>>

Line(r, counters, now) == [reader |-> r, counters |-> counters, now |-> now]

Init ==
  /\ counted = [r \in Readers |-> Zero]
  /\ parsed = [r \in Readers |-> {}]
  /\ stats = Zero /\ last_stats = Zero /\ last_stats_at = 0
  /\ rates = [f \in Fields |-> [count |-> 0, elapsed |-> 1]]
  /\ recent = <<Line("start", Zero, 0)>>

\* A line of process r, and then the clock.  The counters grow, but
\* ebaf_bpf_print_stats prints zeros when it cannot read them.
ParseLine(r, counters, now) ==
  /\ parsed[r] = {}
  /\ counters = Zero \/ \A f \in Fields : counters[f] >= counted[r][f]
  /\ counted' = IF counters = Zero THEN counted ELSE [counted EXCEPT ![r] = counters]
  /\ parsed' = [parsed EXCEPT ![r] = {Line(r, counters, now)}]
  /\ UNCHANGED <<stats, last_stats, last_stats_at, rates, recent>>

\* The clock may have been read before that of the line handled last.
Elapsed(now) == IF now - last_stats_at > 1 THEN now - last_stats_at ELSE 1

\* Mutant: the rates are taken over the updated fields.
BaseUpdatedFirst(line) == line.counters

\* What the counters of the line are compared with.
Base(line) == last_stats

UpdateStats(r) ==
  \E line \in parsed[r] :
    /\ rates' = [f \in Fields |->
                   [count |-> line.counters[f] - Base(line)[f], elapsed |-> Elapsed(line.now)]]
    /\ stats' = line.counters
    /\ last_stats' = stats'
    /\ last_stats_at' = line.now
    /\ parsed' = [parsed EXCEPT ![r] = {}]
    /\ recent' = <<recent[Len(recent)], line>>
    /\ UNCHANGED counted

Next ==
  \E r \in Readers :
    \/ \E counters \in CounterType, now \in Times : ParseLine(r, counters, now)
    \/ UpdateStats(r)

Spec == Init /\ [][Next]_vars

----------------------------------------------------------------------------
(* Properties. *)

\* The rates on the page are those of one process whenever two lines of one
\* process are handled in a row: the packets between these two lines over the
\* time between them, however the other reader was interleaved with them before
\* and whatever it has read meanwhile.  The fields are then those of the newer line.
\* They are negative only across lines of two processes or a line of zeros.
RatesOfLines ==
  Len(recent) = 2 =>
    LET old == recent[1]
        new == recent[2]
    IN  /\ stats = new.counters
        /\ old.reader = new.reader => \A f \in Fields :
             /\ rates[f].count = new.counters[f] - old.counters[f]
             /\ rates[f].elapsed >= new.now - old.now /\ rates[f].elapsed >= 1
             /\ rates[f].elapsed > 1 => rates[f].elapsed = new.now - old.now
        /\ \A f \in Fields :
             rates[f].count < 0 => old.reader # new.reader \/ new.counters = Zero
=============================================================================
