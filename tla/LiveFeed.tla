------------------------------ MODULE LiveFeed ------------------------------
(***************************************************************************)
(* The shared state of the dashboard, DemoState of                         *)
(* scripts/demo_live_cipher.py: one reader thread per ebaf-crypto turns    *)
(* the event lines of its process into packets, and the synthetic sender   *)
(* notes what each message it sends was.  The lock guards single accesses; *)
(* add_event takes it three times, and the other threads run in between.   *)
(***************************************************************************)
EXTENDS Naturals, Sequences, FiniteSets

CONSTANTS
  Readers,   \* the processes read: encrypt and decrypt
  Messages,  \* bound: messages the sender sends
  Batch,     \* messages noted before they are sent together: 16
  Keep,      \* notes kept: 512
  Drop       \* notes dropped when there are more: 128

ASSUME FeedAssumption ==
  /\ IsFiniteSet(Readers)
  /\ Messages \in Nat /\ Batch \in Nat \ {0}
  /\ Keep \in Nat \ {0} /\ Drop \in 1..Keep

VARIABLES
  noted,       \* messages in sent_by_seq so far: the next one is number noted
  oldest,      \* sent_by_seq holds the notes oldest..noted-1
  out,         \* messages the hooks have seen
  taken,       \* reader -> events up to this message are read or lost
  step,        \* reader -> where it is in add_event
  packet,      \* reader -> the packet it builds
  event_count,
  packets      \* every packet added, oldest first; the page gets the last 80

sending == <<noted, oldest, out>>
vars == <<sending, taken, step, packet, event_count, packets>>

NoPacket == [reader |-> "none", seq |-> 0, note |-> FALSE, ahead |-> 0]

Init ==
  /\ noted = 0 /\ oldest = 0 /\ out = 0
  /\ taken = [r \in Readers |-> 0]
  /\ step = [r \in Readers |-> "idle"]
  /\ packet = [r \in Readers |-> NoPacket]
  /\ event_count = 0 /\ packets = <<>>

----------------------------------------------------------------------------
(* The sender. *)

\* Mutant: with one note too many, the newest ones go.
OldestKeepsFew(n) == IF n - oldest > Keep THEN n - Drop + 1 ELSE oldest

\* Mutant: the notes are trimmed one note late.
OldestLate(n) == IF n - oldest > Keep + 1 THEN oldest + Drop ELSE oldest

\* One note too many, and the oldest 128 go.
Oldest(n) == IF n - oldest > Keep THEN oldest + Drop ELSE oldest

\* A message is noted before the batch it is in is sent.
Note ==
  /\ noted < Messages /\ noted - out < Batch
  /\ noted' = noted + 1
  /\ oldest' = Oldest(noted + 1)
  /\ UNCHANGED <<out, taken, step, packet, event_count, packets>>

\* The child process has sent the batch.
SendBatch ==
  /\ noted - out = Batch
  /\ out' = noted
  /\ UNCHANGED <<noted, oldest, taken, step, packet, event_count, packets>>

----------------------------------------------------------------------------
(* A reader. *)

\* A line with the event of message k; events in between were lost in the
\* network or in a full ring buffer.  The number the packet gets is the count
\* of events so far, and its note is looked up under that number.
TakeNumber(r, k) ==
  /\ step[r] = "idle"
  /\ k \in (taken[r] + 1)..out
  /\ taken' = [taken EXCEPT ![r] = k]
  /\ packet' = [packet EXCEPT ![r] =
       [reader |-> r, seq |-> event_count,
        note |-> event_count \in oldest..(noted - 1),
        ahead |-> IF event_count < noted THEN noted - event_count ELSE 0]]
  /\ step' = [step EXCEPT ![r] = "count"]
  /\ UNCHANGED <<sending, event_count, packets>>

\* Mutant: the count is set from the number read earlier.
CountedFromSeq(r) == packet[r].seq + 1

\* self.event_count += 1 under the lock, whatever was read before.
Counted(r) == event_count + 1

CountEvent(r) ==
  /\ step[r] = "count"
  /\ event_count' = Counted(r)
  /\ step' = [step EXCEPT ![r] = "add"]
  /\ UNCHANGED <<sending, taken, packet, packets>>

AddPacket(r) ==
  /\ step[r] = "add"
  /\ packets' = Append(packets, packet[r])
  /\ packet' = [packet EXCEPT ![r] = NoPacket]
  /\ step' = [step EXCEPT ![r] = "idle"]
  /\ UNCHANGED <<sending, taken, event_count>>

Take(r) == \E k \in 1..out : TakeNumber(r, k)

Next ==
  \/ Note \/ SendBatch
  \/ \E r \in Readers : Take(r) \/ CountEvent(r) \/ AddPacket(r)

Spec == Init /\ [][Next]_vars

----------------------------------------------------------------------------
(* Properties. *)

PacketType ==
  [reader : Readers \union {"none"}, seq : Nat, note : BOOLEAN, ahead : Nat]

\* The state has its type: the notes kept are the newest of those made, at
\* most Keep of them, and nothing is read of a message that was not sent.
TypeOK ==
  /\ noted \in Nat /\ oldest \in Nat /\ out \in Nat
  /\ oldest <= noted /\ noted - oldest <= Keep
  /\ out <= noted
  /\ taken \in [Readers -> Nat] /\ \A r \in Readers : taken[r] <= out
  /\ step \in [Readers -> {"idle", "count", "add"}]
  /\ packet \in [Readers -> PacketType]
  /\ event_count \in Nat /\ packets \in Seq(PacketType)

Adding == {r \in Readers : step[r] = "add"}

\* No event is lost between the threads: event_count is the number of packets
\* added plus those counted and about to be added, however the readers
\* interleave between add_event's three uses of the lock.
CountExact == event_count = Len(packets) + Cardinality(Adding)

\* Two threads may give two packets one number, but one thread never does: the
\* numbers of the packets of one reader grow, the one it is building included.
ReaderNumbersGrow ==
  /\ \A i, j \in DOMAIN packets :
       i < j /\ packets[i].reader = packets[j].reader => packets[i].seq < packets[j].seq
  /\ \A i \in DOMAIN packets, r \in Readers :
       step[r] # "idle" /\ packets[i].reader = r => packets[i].seq < packet[r].seq

\* A packet lacks the note of its number only when the sender has not made it
\* yet or is more than Keep + 1 - Drop messages ahead.
NotesKept ==
  \A i \in DOMAIN packets :
    packets[i].note \/ packets[i].ahead = 0 \/ packets[i].ahead > Keep + 1 - Drop
=============================================================================
