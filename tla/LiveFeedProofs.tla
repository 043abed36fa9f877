--------------------------- MODULE LiveFeedProofs ---------------------------
(***************************************************************************)
(* Theorems about LiveFeed, for any number of reader threads, messages and *)
(* notes: the event count is exact, a reader never repeats a number, and a *)
(* note is missing only for the reasons the sender gives.                  *)
(***************************************************************************)
EXTENDS LiveFeed, FiniteSetTheorems, TLAPS

----------------------------------------------------------------------------
(* Types. *)

LEMMA OldestType ==
  ASSUME NEW n \in Nat, oldest \in Nat, oldest <= n, n - oldest <= Keep + 1
  PROVE  /\ Oldest(n) \in Nat /\ oldest <= Oldest(n) /\ Oldest(n) <= n
         /\ n - Oldest(n) <= Keep
BY FeedAssumption DEF Oldest

LEMMA BuiltType ==
  ASSUME TypeOK, NEW r \in Readers, NEW k, TakeNumber(r, k)
  PROVE  /\ packet'[r] \in PacketType
         /\ packet'[r].reader = r /\ packet'[r].seq = event_count
<1> DEFINE p == [reader |-> r, seq |-> event_count,
                 note |-> event_count \in oldest..(noted - 1),
                 ahead |-> IF event_count < noted THEN noted - event_count ELSE 0]
<1>1. packet'[r] = p
  BY DEF TakeNumber, TypeOK
<1>2. (IF event_count < noted THEN noted - event_count ELSE 0) \in Nat
  BY DEF TypeOK
<1>3. p \in PacketType
  BY <1>2 DEF PacketType, TypeOK
<1> QED BY <1>1, <1>3

LEMMA TypeStep ==
  ASSUME TypeOK, [Next]_vars
  PROVE  TypeOK'
<1>1. CASE Note
  <2>1. noted + 1 \in Nat /\ oldest <= noted + 1 /\ (noted + 1) - oldest <= Keep + 1
    BY FeedAssumption DEF TypeOK
  <2> QED BY <1>1, <2>1, OldestType DEF Note, TypeOK
<1>2. CASE SendBatch
  BY <1>2 DEF SendBatch, TypeOK
<1>3. ASSUME NEW r \in Readers, Take(r)
      PROVE  TypeOK'
  <2>1. PICK k \in 1..out : TakeNumber(r, k)
    BY <1>3 DEF Take
  <2>2. packet' \in [Readers -> PacketType]
    <3>1. packet'[r] \in PacketType
      BY <2>1, BuiltType
    <3> QED BY <2>1, <3>1 DEF TakeNumber, TypeOK
  <2>3. taken' \in [Readers -> Nat] /\ \A x \in Readers : taken'[x] <= out
    BY <2>1 DEF TakeNumber, TypeOK
  <2> QED BY <2>1, <2>2, <2>3 DEF TakeNumber, TypeOK, sending
<1>4. ASSUME NEW r \in Readers, CountEvent(r)
      PROVE  TypeOK'
  BY <1>4 DEF CountEvent, Counted, TypeOK, sending
<1>5. ASSUME NEW r \in Readers, AddPacket(r)
      PROVE  TypeOK'
  <2>1. NoPacket \in PacketType
    BY DEF NoPacket, PacketType
  <2>2. packets' \in Seq(PacketType)
    BY <1>5 DEF AddPacket, TypeOK
  <2> QED BY <1>5, <2>1, <2>2 DEF AddPacket, TypeOK, sending
<1>6. CASE UNCHANGED vars
  BY <1>6 DEF vars, sending, TypeOK
<1> QED BY <1>1, <1>2, <1>3, <1>4, <1>5, <1>6 DEF Next

\* The state has its type in every behaviour: the notes are the newest, at
\* most Keep, whatever the sizes of the batch and of the trimming.
THEOREM TypeTheorem == Spec => []TypeOK
<1>1. Init => TypeOK
  BY FeedAssumption DEF Init, TypeOK, NoPacket, PacketType
<1> QED BY <1>1, TypeStep, PTL DEF Spec

----------------------------------------------------------------------------
(* The count. *)

LEMMA AddingFinite == IsFiniteSet(Adding) /\ IsFiniteSet(Adding')
BY FeedAssumption, FS_Subset DEF Adding

\* No event is lost or counted twice: event_count is exact whatever the number
\* of reader threads and their interleaving.
THEOREM CountTheorem == Spec => []CountExact
<1>1. Init => CountExact
  <2> SUFFICES ASSUME Init PROVE CountExact
    OBVIOUS
  <2>1. Adding = {}
    BY DEF Init, Adding
  <2> QED BY <2>1, FS_EmptySet DEF Init, CountExact
<1>2. TypeOK /\ CountExact /\ [Next]_vars => CountExact'
  <2> SUFFICES ASSUME TypeOK, CountExact, [Next]_vars
               PROVE  CountExact'
    OBVIOUS
  <2>1. CASE Note \/ SendBatch \/ UNCHANGED vars
    BY <2>1 DEF Note, SendBatch, vars, CountExact, Adding
  <2>2. ASSUME NEW r \in Readers, Take(r)
        PROVE  CountExact'
    <3>1. Adding' = Adding
      BY <2>2 DEF Take, TakeNumber, Adding, TypeOK
    <3> QED BY <2>2, <3>1 DEF Take, TakeNumber, CountExact
  <2>3. ASSUME NEW r \in Readers, CountEvent(r)
        PROVE  CountExact'
    <3>1. Adding' = Adding \union {r} /\ r \notin Adding
      BY <2>3 DEF CountEvent, Adding, TypeOK
    <3>2. Cardinality(Adding') = Cardinality(Adding) + 1
      BY <3>1, AddingFinite, FS_AddElement
    <3>3. Cardinality(Adding) \in Nat /\ Len(packets) \in Nat
      BY AddingFinite, FS_CardinalityType DEF TypeOK
    <3> QED BY <2>3, <3>2, <3>3 DEF CountEvent, Counted, CountExact
  <2>4. ASSUME NEW r \in Readers, AddPacket(r)
        PROVE  CountExact'
    <3>1. Adding' = Adding \ {r} /\ r \in Adding
      BY <2>4 DEF AddPacket, Adding, TypeOK
    <3>2. Cardinality(Adding') = Cardinality(Adding) - 1
      BY <3>1, AddingFinite, FS_RemoveElement
    <3>3. Len(packets') = Len(packets) + 1
      BY <2>4 DEF AddPacket, TypeOK
    <3>4. Cardinality(Adding) \in Nat /\ Len(packets) \in Nat
      BY AddingFinite, FS_CardinalityType DEF TypeOK
    <3> QED BY <2>4, <3>2, <3>3, <3>4 DEF AddPacket, CountExact, sending
  <2> QED BY <2>1, <2>2, <2>3, <2>4 DEF Next
<1> QED BY <1>1, <1>2, TypeTheorem, PTL DEF Spec

----------------------------------------------------------------------------
(* The numbers. *)

\* A number in use is below the count once it is counted: that is what keeps
\* the next number of the same reader above it.
NumberInv ==
  /\ \A r \in Readers :
       /\ step[r] # "idle" => packet[r].reader = r
       /\ step[r] = "count" => packet[r].seq <= event_count
       /\ step[r] = "add" => packet[r].seq < event_count
  /\ \A i \in DOMAIN packets : packets[i].seq < event_count
  /\ ReaderNumbersGrow

LEMMA Appended ==
  ASSUME TypeOK, NEW r \in Readers, AddPacket(r)
  PROVE  /\ DOMAIN packets' = 1..(Len(packets) + 1)
         /\ \A i \in DOMAIN packets : packets'[i] = packets[i]
         /\ packets'[Len(packets) + 1] = packet[r]
         /\ DOMAIN packets = 1..Len(packets) /\ Len(packets) \in Nat
BY DEF AddPacket, TypeOK

LEMMA NumberFields ==
  ASSUME TypeOK
  PROVE  /\ event_count \in Nat
         /\ \A i \in DOMAIN packets : packets[i].seq \in Nat
         /\ \A r \in Readers : packet[r].seq \in Nat
<1>1. \A p \in PacketType : p.seq \in Nat
  BY DEF PacketType
<1>2. \A i \in DOMAIN packets : packets[i] \in PacketType
  BY DEF TypeOK
<1>3. \A r \in Readers : packet[r] \in PacketType
  BY DEF TypeOK
<1> QED BY <1>1, <1>2, <1>3 DEF TypeOK

\* The packets of one reader thread carry growing numbers, so at most as many
\* packets as there are readers share a number.
THEOREM NumbersTheorem == Spec => []ReaderNumbersGrow
<1>1. Init => NumberInv
  BY DEF Init, NumberInv, ReaderNumbersGrow
<1>2. TypeOK /\ NumberInv /\ [Next]_vars => NumberInv'
  <2> SUFFICES ASSUME TypeOK, NumberInv, [Next]_vars
               PROVE  NumberInv'
    OBVIOUS
  <2>1. CASE Note \/ SendBatch \/ UNCHANGED vars
    BY <2>1 DEF Note, SendBatch, vars, NumberInv, ReaderNumbersGrow
  <2>2. ASSUME NEW r \in Readers, Take(r)
        PROVE  NumberInv'
    <3>1. PICK k \in 1..out : TakeNumber(r, k)
      BY <2>2 DEF Take
    <3>2. packet'[r].reader = r /\ packet'[r].seq = event_count
      BY <3>1, BuiltType
    <3>3. /\ \A x \in Readers \ {r} : packet'[x] = packet[x] /\ step'[x] = step[x]
          /\ step'[r] = "count"
          /\ event_count' = event_count /\ packets' = packets
      BY <3>1 DEF TakeNumber, TypeOK
    <3> QED BY <3>2, <3>3, NumberFields DEF NumberInv, ReaderNumbersGrow
  <2>3. ASSUME NEW r \in Readers, CountEvent(r)
        PROVE  NumberInv'
    <3>1. /\ event_count' = event_count + 1 /\ packet' = packet /\ packets' = packets
          /\ \A x \in Readers \ {r} : step'[x] = step[x]
          /\ step[r] = "count" /\ step'[r] = "add"
      BY <2>3 DEF CountEvent, Counted, TypeOK
    <3> QED BY <3>1, NumberFields DEF NumberInv, ReaderNumbersGrow
  <2>4. ASSUME NEW r \in Readers, AddPacket(r)
        PROVE  NumberInv'
    <3>1. /\ event_count' = event_count
          /\ \A x \in Readers \ {r} : step'[x] = step[x] /\ packet'[x] = packet[x]
          /\ step[r] = "add" /\ step'[r] = "idle"
      BY <2>4 DEF AddPacket, TypeOK
    <3>2. packet[r].reader = r /\ packet[r].seq < event_count
      BY <3>1 DEF NumberInv
    <3>3. \A i \in DOMAIN packets' : packets'[i].seq < event_count
      BY <2>4, <3>2, Appended DEF NumberInv
    <3>4. \A i, j \in DOMAIN packets' :
            i < j /\ packets'[i].reader = packets'[j].reader
              => packets'[i].seq < packets'[j].seq
      <4> SUFFICES ASSUME NEW i \in DOMAIN packets', NEW j \in DOMAIN packets', i < j,
                          packets'[i].reader = packets'[j].reader
                   PROVE  packets'[i].seq < packets'[j].seq
        OBVIOUS
      <4>1. i \in DOMAIN packets /\ packets'[i] = packets[i]
        BY <2>4, Appended
      <4>2. CASE j \in DOMAIN packets
        BY <2>4, <4>1, <4>2, Appended DEF NumberInv, ReaderNumbersGrow
      <4>3. CASE j = Len(packets) + 1
        BY <2>4, <3>1, <3>2, <4>1, <4>3, Appended DEF NumberInv, ReaderNumbersGrow
      <4> QED BY <2>4, <4>2, <4>3, Appended
    <3>5. \A i \in DOMAIN packets', x \in Readers :
            step'[x] # "idle" /\ packets'[i].reader = x => packets'[i].seq < packet'[x].seq
      <4> SUFFICES ASSUME NEW i \in DOMAIN packets', NEW x \in Readers,
                          step'[x] # "idle", packets'[i].reader = x
                   PROVE  packets'[i].seq < packet'[x].seq
        OBVIOUS
      <4>1. x # r /\ step'[x] = step[x] /\ packet'[x] = packet[x]
        BY <3>1
      <4>2. i \in DOMAIN packets /\ packets'[i] = packets[i]
        BY <2>4, <3>2, <4>1, Appended
      <4> QED BY <4>1, <4>2 DEF NumberInv, ReaderNumbersGrow
    <3> QED BY <3>1, <3>3, <3>4, <3>5 DEF NumberInv, ReaderNumbersGrow
  <2> QED BY <2>1, <2>2, <2>3, <2>4 DEF Next
<1>3. NumberInv => ReaderNumbersGrow
  BY DEF NumberInv
<1> QED BY <1>1, <1>2, <1>3, TypeTheorem, PTL DEF Spec

----------------------------------------------------------------------------
(* The notes. *)

\* A packet that may lack its note.
Excused(p) == p.note \/ p.ahead = 0 \/ p.ahead > Keep + 1 - Drop

\* Trimming leaves Keep + 1 - Drop notes or more.
NotesInv ==
  /\ oldest = 0 \/ noted - oldest >= Keep + 1 - Drop
  /\ \A r \in Readers : Excused(packet[r])
  /\ NotesKept

\* A packet shows no note only if the message of its number is not noted yet
\* or the sender is more than Keep + 1 - Drop messages ahead of it, for every
\* size of the notes and of the trimming.
THEOREM NotesTheorem == Spec => []NotesKept
<1>1. Init => NotesInv
  BY DEF Init, NotesInv, NotesKept, Excused, NoPacket
<1>2. TypeOK /\ NotesInv /\ [Next]_vars => NotesInv'
  <2> SUFFICES ASSUME TypeOK, NotesInv, [Next]_vars
               PROVE  NotesInv'
    OBVIOUS
  <2>1. CASE Note
    <3>1. oldest' = 0 \/ noted' - oldest' >= Keep + 1 - Drop
      BY <2>1, FeedAssumption DEF Note, Oldest, NotesInv, TypeOK
    <3> QED BY <2>1, <3>1 DEF Note, NotesInv, NotesKept, Excused
  <2>2. CASE SendBatch \/ UNCHANGED vars
    BY <2>2 DEF SendBatch, vars, sending, NotesInv, NotesKept, Excused
  <2>3. ASSUME NEW r \in Readers, Take(r)
        PROVE  NotesInv'
    <3>1. PICK k \in 1..out : TakeNumber(r, k)
      BY <2>3 DEF Take
    <3>2. /\ packet'[r].note = (event_count \in oldest..(noted - 1))
          /\ packet'[r].ahead = IF event_count < noted THEN noted - event_count ELSE 0
      BY <3>1 DEF TakeNumber, TypeOK
    <3>3. Excused(packet'[r])
      <4>1. CASE event_count \in oldest..(noted - 1)
        BY <3>2, <4>1 DEF Excused
      <4>2. CASE noted <= event_count
        BY <3>2, <4>2 DEF Excused, TypeOK
      <4>3. CASE event_count < oldest
        <5>1. noted - oldest >= Keep + 1 - Drop
          BY <4>3 DEF NotesInv, TypeOK
        <5>2. event_count < noted /\ packet'[r].ahead = noted - event_count
          BY <3>2, <4>3 DEF TypeOK
        <5>3. noted - event_count > Keep + 1 - Drop
          BY <4>3, <5>1, FeedAssumption DEF TypeOK
        <5> QED BY <5>2, <5>3 DEF Excused
      <4> QED BY <4>1, <4>2, <4>3 DEF TypeOK
    <3>4. \A x \in Readers \ {r} : packet'[x] = packet[x]
      BY <3>1 DEF TakeNumber, TypeOK
    <3> QED BY <3>1, <3>3, <3>4 DEF TakeNumber, sending, NotesInv, NotesKept, Excused
  <2>4. ASSUME NEW r \in Readers, CountEvent(r)
        PROVE  NotesInv'
    BY <2>4 DEF CountEvent, sending, NotesInv, NotesKept, Excused
  <2>5. ASSUME NEW r \in Readers, AddPacket(r)
        PROVE  NotesInv'
    <3>1. \A x \in Readers : Excused(packet'[x])
      <4>1. Excused(NoPacket)
        BY DEF Excused, NoPacket
      <4>2. \A x \in Readers : packet'[x] = packet[x] \/ packet'[x] = NoPacket
        BY <2>5 DEF AddPacket, TypeOK
      <4> QED BY <4>1, <4>2 DEF NotesInv
    <3>2. \A i \in DOMAIN packets' : Excused(packets'[i])
      BY <2>5, Appended DEF NotesInv, NotesKept, Excused
    <3> QED BY <2>5, <3>1, <3>2 DEF AddPacket, sending, NotesInv, NotesKept, Excused
  <2> QED BY <2>1, <2>2, <2>3, <2>4, <2>5 DEF Next
<1>3. NotesInv => NotesKept
  BY DEF NotesInv
<1> QED BY <1>1, <1>2, <1>3, TypeTheorem, PTL DEF Spec
=============================================================================
