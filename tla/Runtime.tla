------------------------------ MODULE Runtime ------------------------------
(***************************************************************************)
(* A running ebaf-crypto: the hook programs on every CPU, counting in a    *)
(* per-CPU map and publishing events in one ring buffer, and the loop of   *)
(* src/user/main.c, which prints the counters (ebaf_bpf_print_stats) and   *)
(* the events (ebaf_bpf_poll_events) while the hooks keep running.         *)
(*                                                                         *)
(* A hook does not see the loop and the loop takes no lock: each counter   *)
(* the loop reads and each counter a hook bumps is a step of its own.      *)
(* Transparent and Framed say which run of a hook has which outcome; here  *)
(* the outcome is free and what it does to the shared maps is a program, a *)
(* sequence of operations.                                                 *)
(***************************************************************************)
EXTENDS Naturals, Sequences

CONSTANTS
  NCpus,        \* possible CPUs
  Packets,      \* bound: packets the hooks see
  RingSize,     \* records the ring buffer holds
  PrintEvents,  \* --events
  Ends,         \* what may end the program: "signal", "duration"
  MaxJumps,     \* bound: times the wall clock is set back
  Seen,         \* the outcomes the hooks meet
  MayFail       \* may an allocation or a lookup of the loop fail?

ASSUME RuntimeAssumption ==
  /\ NCpus \in Nat
  /\ Packets \in Nat /\ RingSize \in Nat /\ MaxJumps \in Nat
  /\ PrintEvents \in BOOLEAN /\ MayFail \in BOOLEAN
  /\ Ends \subseteq {"signal", "duration"}

Cpus == 1..NCpus

\* struct ebaf_crypto_stats in the order of its fields, one reason for all.
Fields == <<"seen", "passed", "crypto_ok", "crypto_fail", "malformed", "reason">>

Counters == {Fields[i] : i \in DOMAIN Fields}

Zero == [c \in Counters |-> 0]

----------------------------------------------------------------------------
(* What a run of a hook does to the maps, by its outcome: the packet is     *)
(* not for the hook, it is transformed, it is refused, the kernel's cipher  *)
(* fails in tc_transparent or in a framed hook, or a decrypted packet turns *)
(* out badly padded or cannot be shortened after its event is published.    *)

Outcomes == {"passed", "ok", "refused", "failed", "failedFramed", "badPad", "notShortened"}

ASSUME SeenAssumption == Seen \subseteq Outcomes

\* Mutant: the record is published before it is filled in.
PublishSubmitFirst == <<"reserve", "submit", "fill">>

\* Mutant: a record is reserved and never submitted.
PublishNoSubmit == <<"reserve", "fill">>

\* emit_event, emit_crypto_event.
Publish == <<"reserve", "fill", "submit">>

\* Mutant: the packet is counted as seen when its outcome is known.
ProgramSeenLast(outcome) ==
  CASE outcome = "passed" -> <<"passed", "seen">>
    [] outcome = "ok" -> <<"crypto_ok", "seen">> \o Publish
    [] outcome = "refused" -> <<"malformed", "reason", "seen">>
    [] outcome = "failed" -> <<"malformed", "crypto_fail", "seen">>
    [] outcome = "failedFramed" -> <<"crypto_fail", "seen">>
    [] outcome = "badPad" -> <<"crypto_ok", "seen">> \o Publish \o <<"malformed", "reason">>
    [] outcome = "notShortened" -> <<"crypto_ok", "seen">> \o Publish \o <<"crypto_fail">>

\* Mutant: the event is published before the packet is counted.
ProgramCountLast(outcome) ==
  CASE outcome = "passed" -> <<"seen", "passed">>
    [] outcome = "ok" -> <<"seen">> \o Publish \o <<"crypto_ok">>
    [] outcome = "refused" -> <<"seen", "malformed", "reason">>
    [] outcome = "failed" -> <<"seen", "malformed", "crypto_fail">>
    [] outcome = "failedFramed" -> <<"seen", "crypto_fail">>
    [] outcome = "badPad" -> <<"seen">> \o Publish \o <<"crypto_ok", "malformed", "reason">>
    [] outcome = "notShortened" -> <<"seen">> \o Publish \o <<"crypto_ok", "crypto_fail">>

Program(outcome) ==
  CASE outcome = "passed" -> <<"seen", "passed">>
    [] outcome = "ok" -> <<"seen", "crypto_ok">> \o Publish
    [] outcome = "refused" -> <<"seen", "malformed", "reason">>
    [] outcome = "failed" -> <<"seen", "malformed", "crypto_fail">>
    [] outcome = "failedFramed" -> <<"seen", "crypto_fail">>
    [] outcome = "badPad" -> <<"seen", "crypto_ok">> \o Publish \o <<"malformed", "reason">>
    [] outcome = "notShortened" -> <<"seen", "crypto_ok">> \o Publish \o <<"crypto_fail">>

----------------------------------------------------------------------------
VARIABLES
  left,      \* packets still to come
  run,       \* CPU -> what its hook has still to do
  counters,  \* CPU -> counter -> value
  ring,      \* records reserved and not yet consumed, oldest first
  nevents,   \* records ever reserved
  pc,        \* where main's loop is
  due,       \* has --stats-interval passed since the last line? "first": no line yet
  limited,   \* is --duration given?
  exiting,   \* main.c's flag
  over,      \* has --duration passed?
  jumps,     \* times the wall clock has been set back
  values,    \* print_stats: what has been read of the map
  prev, last, \* the last two lines that were read from the map
  printed    \* events printed

hooks == <<left, run, counters, nevents>>
loop == <<pc, due, values, prev, last, printed>>
clock == <<limited, exiting, over, jumps>>
vars == <<hooks, ring, clock, loop>>

Init ==
  /\ left = Packets
  /\ run = [cpu \in Cpus |-> <<>>]
  /\ counters = [cpu \in Cpus |-> Zero]
  /\ ring = <<>> /\ nevents = 0
  /\ limited \in {l \in BOOLEAN : l => "duration" \in Ends}
  /\ pc = "loop" /\ due = "first" /\ exiting = FALSE /\ over = FALSE /\ jumps = 0
  /\ values = <<>> /\ prev = Zero /\ last = Zero /\ printed = <<>>

----------------------------------------------------------------------------
(* The hooks. *)

Arrive(cpu, outcome) ==
  /\ left > 0 /\ run[cpu] = <<>>
  /\ left' = left - 1
  /\ run' = [run EXCEPT ![cpu] = Program(outcome)]
  /\ UNCHANGED <<counters, nevents, ring, clock, loop>>

Advance(cpu) == run' = [run EXCEPT ![cpu] = Tail(@)]

\* stat_inc on the CPU's own slot.
Bump(cpu) ==
  LET c == Head(run[cpu])
  IN  /\ c \in Counters
      /\ Advance(cpu)
      /\ counters' = [counters EXCEPT ![cpu][c] = @ + 1]
      /\ UNCHANGED <<left, nevents, ring>>

\* bpf_ringbuf_reserve: without room no event is published.
Reserve(cpu) ==
  /\ Head(run[cpu]) = "reserve"
  /\ \/ /\ Len(ring) < RingSize
        /\ ring' = Append(ring, [id |-> nevents + 1, cpu |-> cpu, filled |-> FALSE, busy |-> TRUE])
        /\ nevents' = nevents + 1
        /\ Advance(cpu)
     \/ /\ Len(ring) = RingSize
        /\ run' = [run EXCEPT ![cpu] = SubSeq(@, Len(Publish) + 1, Len(@))]
        /\ UNCHANGED <<ring, nevents>>
  /\ UNCHANGED <<left, counters>>

\* A hook writes to its record, also after the loop has taken it off the ring.
Fill(cpu) ==
  /\ Head(run[cpu]) = "fill"
  /\ ring' = [i \in DOMAIN ring |->
               IF ring[i].cpu = cpu /\ ~ring[i].filled THEN [ring[i] EXCEPT !.filled = TRUE]
               ELSE ring[i]]
  /\ Advance(cpu)
  /\ UNCHANGED <<left, counters, nevents>>

Submit(cpu) ==
  /\ Head(run[cpu]) = "submit"
  /\ ring' = [i \in DOMAIN ring |->
               IF ring[i].cpu = cpu THEN [ring[i] EXCEPT !.busy = FALSE] ELSE ring[i]]
  /\ Advance(cpu)
  /\ UNCHANGED <<left, counters, nevents>>

HookStep(cpu) ==
  /\ run[cpu] # <<>>
  /\ Bump(cpu) \/ Reserve(cpu) \/ Fill(cpu) \/ Submit(cpu)
  /\ UNCHANGED <<clock, loop>>

----------------------------------------------------------------------------
(* main's loop. *)

\* Mutant: the statistics are printed on the first iteration only.
IsDueOnce == due = "first"

\* last_stats_time == 0, or the interval is over.
IsDue == due # "no"

\* while (!exiting), at the top of an iteration.
Iterate ==
  /\ pc = "loop" /\ ~exiting
  /\ pc' = IF IsDue THEN "print" ELSE "poll"
  /\ UNCHANGED <<hooks, ring, clock, due, values, prev, last, printed>>

\* print_stats finds no memory or no map entry: it prints a line of zeros.
PrintZeros ==
  /\ pc = "print" /\ values = <<>>
  /\ MayFail
  /\ pc' = "poll" /\ due' = "no"
  /\ UNCHANGED <<hooks, ring, clock, values, prev, last, printed>>

\* The slots of the CPUs are copied one after the other, field by field.
ReadCpu == (Len(values) \div Len(Fields)) + 1

ReadField == Fields[(Len(values) % Len(Fields)) + 1]

\* bpf_map_lookup_elem, one 64-bit field.
Read ==
  /\ pc = "print"
  /\ Len(values) < Len(Fields) * NCpus
  /\ values' = Append(values, counters[ReadCpu][ReadField])
  /\ UNCHANGED <<hooks, ring, clock, pc, due, prev, last, printed>>

Position(c) == CHOOSE i \in DOMAIN Fields : Fields[i] = c

Slot(cpu, c) == (cpu - 1) * Len(Fields) + Position(c)

\* The sum of h[cpu] over the CPUs.
SumOver(h) ==
  LET sum[n \in 0..NCpus] == IF n = 0 THEN 0 ELSE sum[n - 1] + h[n]
  IN  sum[NCpus]

\* Mutant: the total is not cleared between two lines.
LineOnTop ==
  [c \in Counters |-> last[c] + SumOver([cpu \in Cpus |-> values[Slot(cpu, c)]])]

\* The line: each counter summed over the CPUs.
Line == [c \in Counters |-> SumOver([cpu \in Cpus |-> values[Slot(cpu, c)]])]

PrintStats ==
  /\ pc = "print"
  /\ Len(values) = Len(Fields) * NCpus
  /\ prev' = last /\ last' = Line /\ values' = <<>>
  /\ pc' = "poll" /\ due' = "no"
  /\ UNCHANGED <<hooks, ring, clock, printed>>

\* ring_buffer__poll hands record after record to handle_crypto_event.
Consume ==
  /\ pc = "poll" /\ PrintEvents
  /\ ring # <<>> /\ ~Head(ring).busy
  /\ printed' = Append(printed, Head(ring))
  /\ ring' = Tail(ring)
  /\ UNCHANGED <<hooks, clock, pc, due, values, prev, last>>

\* Mutant: the poll has no timeout, it waits for an event.
PollReturnsNoTimeout == PrintEvents => printed # <<>> /\ ((ring # <<>>) => Head(ring).busy)

\* The poll stops at a record that is not submitted, or after its timeout;
\* without --events the loop only sleeps.
PollReturns == (PrintEvents /\ ring # <<>>) => Head(ring).busy

\* The duration is looked at after the poll.
PollEnds ==
  /\ pc = "poll" /\ PollReturns
  /\ pc' = IF over THEN "stopped" ELSE "loop"
  /\ UNCHANGED <<hooks, ring, clock, due, values, prev, last, printed>>

\* The end of the loop: no line is printed on the way out.
Leave ==
  /\ pc = "loop" /\ exiting
  /\ pc' = "stopped"
  /\ UNCHANGED <<hooks, ring, clock, due, values, prev, last, printed>>

Tick ==
  /\ pc # "stopped" /\ due = "no"
  /\ due' = "yes"
  /\ UNCHANGED <<hooks, ring, clock, pc, values, prev, last, printed>>

Expire ==
  /\ limited /\ pc # "stopped" /\ ~over
  /\ over' = TRUE
  /\ UNCHANGED <<hooks, ring, limited, exiting, jumps, loop>>

\* time() is the wall clock: set back, it makes the interval since the last
\* line and the duration since the start begin anew.
SetBack ==
  /\ jumps < MaxJumps /\ pc # "stopped"
  /\ jumps' = jumps + 1
  /\ due' = IF due = "yes" THEN "no" ELSE due
  /\ over' = FALSE
  /\ UNCHANGED <<hooks, ring, limited, exiting, pc, values, prev, last, printed>>

Signal ==
  /\ "signal" \in Ends /\ ~exiting
  /\ exiting' = TRUE
  /\ UNCHANGED <<hooks, ring, limited, over, jumps, loop>>

LoopStep == Iterate \/ PrintZeros \/ Read \/ PrintStats \/ Consume \/ PollEnds \/ Leave

ArriveSome == \E cpu \in Cpus, outcome \in Seen : Arrive(cpu, outcome)

TimeStep == Tick \/ Expire \/ SetBack

Next == ArriveSome \/ (\E cpu \in Cpus : HookStep(cpu)) \/ LoopStep \/ TimeStep \/ Signal

\* Hooks run to completion, the loop keeps being scheduled, and time passes
\* however often the clock was set back. Packets and a signal need not come.
Fairness ==
  /\ \A cpu \in Cpus : WF_vars(HookStep(cpu))
  /\ WF_vars(LoopStep) /\ WF_vars(Tick) /\ WF_vars(Expire)

Spec == Init /\ [][Next]_vars /\ Fairness

----------------------------------------------------------------------------
(* Properties. *)

Record == [id : 1..Packets, cpu : Cpus, filled : BOOLEAN, busy : BOOLEAN]

Ops == Counters \cup {"reserve", "fill", "submit"}

\* The state stays in its types: no counter passes the number of packets, the
\* ring never holds more records than it has room for, and print_stats never
\* reads past the slots of the possible CPUs.
TypeOK ==
  /\ left \in 0..Packets /\ nevents \in 0..Packets
  /\ run \in [Cpus -> Seq(Ops)] /\ counters \in [Cpus -> [Counters -> 0..Packets]]
  /\ ring \in Seq(Record) /\ Len(ring) <= RingSize
  /\ pc \in {"loop", "print", "poll", "stopped"}
  /\ due \in {"first", "no", "yes"} /\ limited \in BOOLEAN
  /\ exiting \in BOOLEAN /\ over \in BOOLEAN /\ jumps \in 0..MaxJumps
  /\ values \in Seq(0..Packets) /\ Len(values) <= Len(Fields) * NCpus
  /\ prev \in [Counters -> 0..Packets] /\ last \in [Counters -> 0..Packets]
  /\ printed \in Seq(Record)

\* What a counter is, summed over the CPUs at one instant.
Total(c) == SumOver([cpu \in Cpus |-> counters[cpu][c]])

\* A line of ebaf_bpf_print_stats is read while the hooks count, so no line
\* need be the counters at any instant. Still, in the lines that were read
\* from the map, each counter is at least that of the line before and at most
\* what has been counted: the rate between two such lines is not negative.
LinesGrow == \A c \in Counters : prev[c] <= last[c] /\ last[c] <= Total(c)

\* Whatever one line counts as passed, transformed, failed or malformed, the
\* next line counts as seen: a packet is counted as seen first, and a line is
\* read after the one before. (Within one line this fails: seen is read first.)
\* Likewise each reason of a line is in the malformed of the next.
OutcomesSeen ==
  /\ prev["passed"] + prev["crypto_ok"] <= last["seen"]
  /\ prev["passed"] + prev["malformed"] <= last["seen"]
  /\ prev["passed"] + prev["crypto_fail"] <= last["seen"]
  /\ prev["reason"] <= last["malformed"]

\* handle_crypto_event only gets records the hook has filled in, each once and
\* in the order of their reservation, whichever CPUs they come from.
EventsComplete ==
  /\ \A i \in DOMAIN printed : printed[i].filled
  /\ \A i, j \in DOMAIN printed : i < j => printed[i].id < printed[j].id

\* A line of statistics counts every packet whose event was printed before it.
LineCountsEvents == [][PrintStats => Len(printed) <= last'["crypto_ok"]]_vars

\* No packet is in a hook and none is to come.
Quiet == left = 0 /\ \A cpu \in Cpus : run[cpu] = <<>>

\* Once traffic stops, the last line printed is the exact counters, even after
\* the clock was set back, unless the program ends first: main prints no line
\* on its way out.
CatchesUp == Quiet ~> (pc = "stopped" \/ \A c \in Counters : last[c] = Total(c))

\* Once traffic stops, every event that had room in the ring is printed,
\* unless the program ends first.
EventsDrain == (Quiet /\ PrintEvents) ~> (pc = "stopped" \/ ring = <<>>)

\* A signal ends the loop and so does --duration, however often the wall clock
\* is set back meanwhile: ebaf_bpf_stop is reached.
LoopEnds == (exiting \/ limited) ~> (pc = "stopped")
=============================================================================
