---------------------------- MODULE LiveDemoProofs ----------------------------
(***************************************************************************)
(* Theorems about LiveDemo: whatever failed, was stubborn or crashed, a    *)
(* dashboard that ended has seen to every child and to its network,        *)
(* and an end once begun is never taken back.                              *)
(***************************************************************************)
EXTENDS LiveDemo, TLAPS

Settled == {"none", "killed", "dead"}

\* Cleanup still has every child to see to that may run, and main gets past it
\* only with an empty list.
Ahead ==
  /\ pc \in {"cleanup", "dellink", "stopped"} =>
       \A c \in Children : child[c] \in Settled \/ \E i \in DOMAIN todo : todo[i] = c
  /\ pc \in {"dellink", "stopped"} => todo = <<>> /\ netns # "present"
  /\ pc = "stopped" => link # "present"

Inv == TypeOK /\ Ahead

LEMMA OrderIs ==
  /\ CleanupOrder \in Seq(Children)
  /\ \A c \in Children : \E i \in DOMAIN CleanupOrder : CleanupOrder[i] = c
<1>1. CleanupOrder \in Seq(Children)
  BY DEF CleanupOrder, Children
<1>2. DOMAIN CleanupOrder = 1..4
  BY DEF CleanupOrder
<1>3. /\ CleanupOrder[1] = "sender" /\ CleanupOrder[2] = "receiver"
      /\ CleanupOrder[3] = "app" /\ CleanupOrder[4] = "decrypt_app"
  BY DEF CleanupOrder
<1>4. 1 \in DOMAIN CleanupOrder /\ 2 \in DOMAIN CleanupOrder
      /\ 3 \in DOMAIN CleanupOrder /\ 4 \in DOMAIN CleanupOrder
  BY <1>2
<1> HIDE DEF CleanupOrder
<1>5. \A c \in Children : \E i \in DOMAIN CleanupOrder : CleanupOrder[i] = c
  BY <1>3, <1>4 DEF Children
<1> QED BY <1>1, <1>5

\* A list one child shorter: only its first child is gone.
LEMMA Shorter ==
  ASSUME NEW s \in Seq(Children), s # <<>>
  PROVE  /\ Head(s) \in Children /\ Tail(s) \in Seq(Children)
         /\ \A c \in Children : (\E i \in DOMAIN s : s[i] = c) =>
              c = Head(s) \/ \E i \in DOMAIN Tail(s) : Tail(s)[i] = c
<1>1. Len(s) \in Nat /\ Len(s) >= 1 /\ Head(s) = s[1] /\ DOMAIN s = 1..Len(s)
  OBVIOUS
<1>2. Head(s) \in Children /\ Tail(s) \in Seq(Children)
  BY <1>1
<1>3. Len(Tail(s)) = Len(s) - 1 /\ \A i \in 1..(Len(s) - 1) : Tail(s)[i] = s[i + 1]
  BY <1>1
<1>4. ASSUME NEW i \in DOMAIN s, i # 1
      PROVE  i - 1 \in DOMAIN Tail(s) /\ Tail(s)[i - 1] = s[i]
  <2>1. i - 1 \in 1..(Len(s) - 1) /\ (i - 1) + 1 = i
    BY <1>1, <1>4
  <2> QED BY <1>2, <1>3, <2>1
<1> QED BY <1>1, <1>2, <1>4

LEMMA InitInv == Init => Inv
<1> SUFFICES ASSUME Init PROVE Inv
  OBVIOUS
<1>1. child \in [Children -> ChildStates] /\ todo \in Seq(Children)
  BY DEF Init, ChildStates
<1>2. TypeOK
  BY <1>1 DEF Init, TypeOK, Steps, NetStates
<1>3. Ahead
  BY DEF Init, Ahead
<1> QED BY <1>2, <1>3 DEF Inv

LEMMA EnterInv ==
  ASSUME Inv, EnterCleanup, UNCHANGED <<traffic, child, netns, link, batch>>
  PROVE  Inv'
<1>1. pc' = "cleanup" /\ stop' = TRUE /\ todo' = CleanupOrder
  BY DEF EnterCleanup
<1>2. TypeOK'
  BY <1>1, OrderIs DEF Inv, TypeOK
<1>3. Ahead'
  BY <1>1, OrderIs DEF Ahead
<1> QED BY <1>2, <1>3 DEF Inv

\* The steps of the start that succeed.
LEMMA StartInv ==
  ASSUME Inv, Start
  PROVE  Inv'
<1>1. pc \in Steps /\ pc' \in Steps /\ stop' = stop /\ todo' = todo /\ traffic' = traffic
  BY DEF Start, AddNetns, AddLink, Configure, StartCrypto, StartReceiver, StartTraffic,
         StartServer, Launch, Check, Steps
<1>2. netns' \in NetStates /\ link' \in NetStates
  BY DEF NetStates, Inv, TypeOK, Start, AddNetns, AddLink, Configure, StartCrypto, StartReceiver,
         StartTraffic, StartServer, Launch, Check
<1>3. child' = child \/ \E c \in Children : child' = [child EXCEPT ![c] = "up"]
  BY DEF Start, AddNetns, AddLink, Configure, StartCrypto, StartReceiver, StartTraffic,
         StartServer, Launch, Check, Children
<1>4. child' \in [Children -> ChildStates]
  BY <1>3 DEF Inv, TypeOK, ChildStates
<1>5. batch' \in {"off", "check", "run"}
  BY DEF Inv, TypeOK, Start, AddNetns, AddLink, Configure, StartCrypto, StartReceiver,
         StartTraffic, StartServer, Launch, Check
<1>6. TypeOK'
  BY <1>1, <1>2, <1>4, <1>5 DEF Inv, TypeOK
<1>7. Ahead'
  BY <1>1 DEF Ahead, Steps
<1> QED BY <1>6, <1>7 DEF Inv

\* A child ends or is asked, killed: none becomes unsettled that was settled.
LEMMA ChildInv ==
  ASSUME Inv, NEW c \in Children, NEW s \in ChildStates, child' = [child EXCEPT ![c] = s],
         UNCHANGED <<traffic, pc, stop, netns, link, batch>>,
         \/ todo' = todo /\ (s \in Settled \/ s = child[c] \/ (s = "asked" /\ child[c] = "up"))
         \/ pc = "cleanup" /\ todo # <<>> /\ c = Head(todo) /\ s \in Settled /\ todo' = Tail(todo)
  PROVE  Inv'
<1>1. child \in [Children -> ChildStates] /\ todo \in Seq(Children)
  BY DEF Inv, TypeOK
<1>2. \A x \in Children : child'[x] = IF x = c THEN s ELSE child[x]
  BY <1>1
<1>3. child' \in [Children -> ChildStates]
  BY <1>1
<1>4. CASE todo' = todo /\ (s \in Settled \/ s = child[c] \/ (s = "asked" /\ child[c] = "up"))
  <2>1. \A x \in Children : child[x] \in Settled => child'[x] \in Settled
    BY <1>2, <1>4 DEF Settled
  <2>2. TypeOK'
    BY <1>3, <1>4 DEF Inv, TypeOK
  <2>3. Ahead'
    BY <1>4, <2>1 DEF Inv, Ahead
  <2> QED BY <2>2, <2>3 DEF Inv
<1>5. CASE pc = "cleanup" /\ todo # <<>> /\ c = Head(todo) /\ s \in Settled /\ todo' = Tail(todo)
  <2>1. /\ Tail(todo) \in Seq(Children)
        /\ \A x \in Children : (\E i \in DOMAIN todo : todo[i] = x) =>
             x = c \/ \E i \in DOMAIN Tail(todo) : Tail(todo)[i] = x
    BY <1>1, <1>5, Shorter
  <2>2. \A x \in Children : child[x] \in Settled \/ \E i \in DOMAIN todo : todo[i] = x
    BY <1>5 DEF Inv, Ahead
  <2>3. \A x \in Children : child'[x] \in Settled \/ \E i \in DOMAIN todo' : todo'[i] = x
    BY <1>2, <1>5, <2>1, <2>2
  <2>4. TypeOK'
    BY <1>3, <1>5, <2>1 DEF Inv, TypeOK
  <2>5. Ahead'
    BY <1>5, <2>3 DEF Ahead
  <2> QED BY <2>4, <2>5 DEF Inv
<1> QED BY <1>4, <1>5

LEMMA CleanupInv ==
  ASSUME Inv, Cleanup
  PROVE  Inv'
<1>1. child \in [Children -> ChildStates] /\ todo \in Seq(Children)
  BY DEF Inv, TypeOK
<1>2. CASE Terminate
  <2> DEFINE h == Head(todo)
             s == Asked(child[h])
  <2>1. /\ pc = "cleanup" /\ todo # <<>> /\ child[h] \notin {"asked", "killed"}
        /\ child' = [child EXCEPT ![h] = s]
        /\ UNCHANGED <<traffic, pc, stop, netns, link, batch>>
    BY <1>2 DEF Terminate
  <2>2. h \in Children
    BY <1>1, <2>1, Shorter
  <2>3. child[h] \in ChildStates /\ child'[h] = s
    BY <1>1, <2>1, <2>2
  <2>4. s \in ChildStates /\ ((s = "asked" /\ child[h] = "up") \/ s \in Settled)
    BY <2>1, <2>3 DEF Asked, ChildStates, Settled
  <2>5. todo' = IF s = "asked" THEN todo ELSE Tail(todo)
    BY <1>2, <2>3 DEF Terminate, NextChild
  <2>6. \/ todo' = todo /\ (s = "asked" /\ child[h] = "up")
        \/ s \in Settled /\ todo' = Tail(todo)
    BY <2>4, <2>5 DEF Settled
  <2> HIDE DEF s
  <2> QED BY <2>1, <2>2, <2>4, <2>6, ChildInv
<1>3. CASE KillIt
  <2> DEFINE h == Head(todo)
  <2>1. /\ pc = "cleanup" /\ todo # <<>> /\ todo' = Tail(todo)
        /\ child' = [child EXCEPT ![h] = "killed"]
        /\ UNCHANGED <<traffic, pc, stop, netns, link, batch>>
    BY <1>3 DEF KillIt, GivesUp, NextChild
  <2>2. h \in Children /\ "killed" \in ChildStates /\ "killed" \in Settled
    BY <1>1, <2>1, Shorter DEF ChildStates, Settled
  <2> QED BY <2>1, <2>2, ChildInv
<1>4. CASE DeleteNetns
  <2>1. TypeOK'
    BY <1>4 DEF DeleteNetns, Removal, NetStates, Inv, TypeOK
  <2>2. Ahead'
    BY <1>4 DEF DeleteNetns, Removal, NetStates, Inv, Ahead
  <2> QED BY <2>1, <2>2 DEF Inv
<1>5. CASE DeleteLink
  <2>1. TypeOK'
    BY <1>5 DEF DeleteLink, Removal, NetStates, Inv, TypeOK
  <2>2. Ahead'
    BY <1>5 DEF DeleteLink, Removal, NetStates, Inv, Ahead
  <2> QED BY <2>1, <2>2 DEF Inv
<1> QED BY <1>2, <1>3, <1>4, <1>5 DEF Cleanup

\* The threads and processes beside main, and a step that changes nothing.
LEMMA BesideInv ==
  ASSUME Inv,
         \/ Stop \/ StartBatch \/ BatchEnds \/ UNCHANGED vars
         \/ \E c \in Children : Crash(c) \/ Obey(c)
  PROVE  Inv'
<1>1. CASE Stop \/ StartBatch \/ BatchEnds \/ UNCHANGED vars
  <2>1. TypeOK'
    BY <1>1 DEF Stop, StartBatch, BatchEnds, vars, Inv, TypeOK
  <2>2. Ahead'
    BY <1>1 DEF Stop, StartBatch, BatchEnds, vars, Inv, Ahead
  <2> QED BY <2>1, <2>2 DEF Inv
<1>2. CASE \E c \in Children : Crash(c) \/ Obey(c)
  <2>1. PICK c \in Children : Crash(c) \/ Obey(c)
    BY <1>2
  <2> DEFINE s == "dead"
  <2>2. /\ child' = [child EXCEPT ![c] = s] /\ todo' = todo
        /\ UNCHANGED <<traffic, pc, stop, netns, link, batch>>
    BY <2>1 DEF Crash, Obey
  <2>3. s \in ChildStates /\ s \in Settled
    BY DEF ChildStates, Settled
  <2> HIDE DEF s
  <2>4. todo' = todo /\ (s \in Settled \/ s = child[c] \/ (s = "asked" /\ child[c] = "up"))
    BY <2>2, <2>3
  <2>5. UNCHANGED <<traffic, pc, stop, netns, link, batch>>
    BY <2>2
  <2> QED BY <2>2, <2>3, <2>4, <2>5, ChildInv, Zenon
<1> QED BY <1>1, <1>2

LEMMA NextInv == Inv /\ [Next]_vars => Inv'
<1> SUFFICES ASSUME Inv, [Next]_vars PROVE Inv'
  OBVIOUS
<1>1. CASE Start
  BY <1>1, StartInv
<1>2. CASE Fail
  BY <1>2, EnterInv DEF Fail
<1>3. CASE ServeEnds
  BY <1>3, EnterInv DEF ServeEnds
<1>4. CASE Cleanup
  BY <1>4, CleanupInv
<1>5. CASE \/ Stop \/ StartBatch \/ BatchEnds \/ UNCHANGED vars
           \/ \E c \in Children : Crash(c) \/ Obey(c)
  BY <1>5, BesideInv
<1> QED BY <1>1, <1>2, <1>3, <1>4, <1>5 DEF Next, Main

LEMMA InvAlways == Spec => []Inv
<1> QED BY InitInv, NextInv, PTL DEF Spec

----------------------------------------------------------------------------
(* The theorems. *)

\* The state has its type: terminate() is never called on what never started.
THEOREM TypeTheorem == Spec => []TypeOK
<1>1. Inv => TypeOK
  BY DEF Inv
<1> QED BY <1>1, InvAlways, PTL

\* However far the start came and whatever failed, after cleanup every child was
\* seen to, and the namespace and the veth pair are gone or could not be removed.
THEOREM CleanedTheorem == Spec => []Cleaned
<1>1. Inv => Cleaned
  BY DEF Inv, Ahead, Cleaned, Settled
<1> QED BY <1>1, InvAlways, PTL

----------------------------------------------------------------------------
(* The end.  That it is reached is EndsAlone's part; that nothing undoes the *)
(* way there is safety.                                                      *)

Closing == {"cleanup", "dellink", "stopped"}

\* No child and no batch is left, and main has returned.
AtEnd ==
  /\ pc = "stopped" /\ batch # "run"
  /\ \A c \in Children : child[c] \in {"none", "dead"}

LEMMA StopStays ==
  ASSUME Inv, Next, stop
  PROVE  stop' /\ (batch' = "run" => batch = "run")
BY DEF Inv, TypeOK, Next, Main, Start, AddNetns, AddLink, Configure, StartCrypto, StartReceiver,
       StartTraffic, StartServer, Launch, Check, Fail, ServeEnds, EnterCleanup, Cleanup,
       Terminate, KillIt, GivesUp, DeleteNetns, DeleteLink, Stop, Crash, Obey, StartBatch,
       BatchEnds

LEMMA ClosingStays ==
  ASSUME Inv, Next, pc \in Closing
  PROVE  pc' \in Closing /\ \A c \in Children : child'[c] = "up" => child[c] = "up"
<1>1. ~Start /\ ~Fail /\ ~ServeEnds
  BY DEF Closing, Start, AddNetns, AddLink, Configure, StartCrypto, StartReceiver, StartTraffic,
         StartServer, Launch, Check, Fail, Steps, ServeEnds
<1>2. CASE Cleanup
  BY <1>2 DEF Inv, TypeOK, Closing, Cleanup, Terminate, Asked, KillIt, GivesUp, DeleteNetns,
              DeleteLink
<1>3. CASE \/ Stop \/ StartBatch \/ BatchEnds \/ \E c \in Children : Crash(c) \/ Obey(c)
  BY <1>3 DEF Inv, TypeOK, Closing, Stop, StartBatch, BatchEnds, Crash, Obey
<1> QED BY <1>1, <1>2, <1>3 DEF Next, Main

LEMMA EndStays ==
  ASSUME Inv, Next, AtEnd
  PROVE  AtEnd'
<1>1. ~Main
  BY DEF AtEnd, Main, Start, AddNetns, AddLink, Configure, StartCrypto, StartReceiver,
         StartTraffic, StartServer, Launch, Check, Fail, Steps, ServeEnds, Cleanup, Terminate,
         KillIt, GivesUp, DeleteNetns, DeleteLink
<1>2. ~Stop /\ \A c \in Children : ~Crash(c) /\ ~Obey(c)
  BY DEF AtEnd, Stop, Crash, Obey
<1>3. ~StartBatch /\ ~BatchEnds
  BY DEF AtEnd, StartBatch, BatchEnds
<1> QED BY <1>1, <1>2, <1>3 DEF Next

\* The stop event is never taken back, and no batch begins once it is set; from
\* the start of cleanup on main does not turn back and no child is started; and
\* an end with no child and no batch left is final: nothing runs any more.
THEOREM EndTheorem ==
  Spec => [][/\ stop => stop' /\ (batch' = "run" => batch = "run")
             /\ pc \in Closing => /\ pc' \in Closing
                                 /\ \A c \in Children : child'[c] = "up" => child[c] = "up"
             /\ AtEnd => AtEnd']_vars
<1>1. Inv /\ [Next]_vars =>
        [/\ stop => stop' /\ (batch' = "run" => batch = "run")
         /\ pc \in Closing => /\ pc' \in Closing
                             /\ \A c \in Children : child'[c] = "up" => child[c] = "up"
         /\ AtEnd => AtEnd']_vars
  BY StopStays, ClosingStays, EndStays
<1> QED BY <1>1, InvAlways, PTL DEF Spec
=============================================================================
