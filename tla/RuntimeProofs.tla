---------------------------- MODULE RuntimeProofs ----------------------------
(***************************************************************************)
(* Theorems about Runtime for any number of CPUs, packets and ring slots:  *)
(* its types, the lines of statistics and the events, and the safety       *)
(* halves of two liveness properties: a line begun after the traffic is    *)
(* exact, and every event published is printed or still in the ring.  The  *)
(* sums over the CPUs need an induction, which is made by hand from the    *)
(* well-foundedness of < on the naturals: a set of counterexamples has a   *)
(* least element.                                                          *)
(***************************************************************************)
EXTENDS Runtime, WellFoundedInduction, TLAPS

----------------------------------------------------------------------------
(* Sums over the CPUs. *)

LEMMA LeastElement ==
  ASSUME NEW T, T \subseteq Nat, T # {}
  PROVE  \E x \in T : \A y \in T : x <= y
<1> DEFINE R == OpToRel(<, Nat)
<1>1. IsWellFoundedOn(R, Nat)
  BY NatLessThanWellFounded
<1>2. \A x, y \in Nat : y < x => <<y, x>> \in R
  BY DEF OpToRel
<1> HIDE DEF R
<1>3. PICK x \in T : \A y \in T : ~(<<y, x>> \in R)
  BY <1>1, WFMin
<1>4. ASSUME NEW y \in T PROVE x <= y
  <2>1. x \in Nat /\ y \in Nat
    OBVIOUS
  <2>2. ~(y < x)
    BY <1>2, <1>3, <2>1, Zenon
  <2> QED BY <2>1, <2>2
<1> QED BY <1>4

\* s lists the partial sums of h up to k.
PartialSums(s, h, k) ==
  /\ s \in [0..k -> Nat] /\ s[0] = 0
  /\ \A n \in 1..k : s[n] = s[n - 1] + h[n]

LEMMA PartialSumsExist ==
  ASSUME NEW h \in [Cpus -> Nat]
  PROVE  \E s : PartialSums(s, h, NCpus)
<1> DEFINE T == {k \in Nat : k <= NCpus /\ ~\E s : PartialSums(s, h, k)}
<1>1. CASE T = {}
  BY <1>1, RuntimeAssumption
<1>2. CASE T # {}
  <2>1. PICK k \in T : \A y \in T : k <= y
    BY <1>2, LeastElement
  <2>2. k # 0
    <3>1. PartialSums([n \in 0..0 |-> 0], h, 0)
      BY DEF PartialSums
    <3> QED BY <2>1, <3>1
  <2>3. k - 1 \in Nat /\ k - 1 \notin T /\ k <= NCpus /\ k \in Nat
    BY <2>1, <2>2
  <2>4. PICK s : PartialSums(s, h, k - 1)
    BY <2>3, RuntimeAssumption
  <2>5. k \in Cpus
    BY <2>2, <2>3, RuntimeAssumption DEF Cpus
  <2>6. PartialSums([n \in 0..k |-> IF n = k THEN s[k - 1] + h[k] ELSE s[n]], h, k)
    BY <2>3, <2>4, <2>5, RuntimeAssumption DEF PartialSums
  <2> QED BY <2>1, <2>6
<1> QED BY <1>1, <1>2

\* The recursive function of SumOver is the list of the partial sums.
LEMMA SumOverIs ==
  ASSUME NEW h \in [Cpus -> Nat], NEW s, PartialSums(s, h, NCpus)
  PROVE  SumOver(h) = s[NCpus]
<1> DEFINE F(f) == f = [n \in 0..NCpus |-> IF n = 0 THEN 0 ELSE f[n - 1] + h[n]]
           t == CHOOSE f : F(f)
<1>1. F(s)
  BY RuntimeAssumption DEF PartialSums, Cpus
<1>2. F(t)
  <2> HIDE DEF F
  <2> QED BY <1>1
<1>3. SumOver(h) = t[NCpus]
  BY DEF SumOver
<1> HIDE DEF t
<1>4. t[NCpus] = s[NCpus]
  <2> DEFINE T == {k \in Nat : k <= NCpus /\ t[k] # s[k]}
  <2>1. CASE T = {}
    BY <2>1, RuntimeAssumption
  <2>2. CASE T # {}
    <3>1. PICK k \in T : \A y \in T : k <= y
      BY <2>2, LeastElement
    <3>2. k # 0
      BY <1>2, <3>1, RuntimeAssumption DEF PartialSums
    <3>3. k - 1 \in Nat /\ k - 1 \notin T /\ k <= NCpus /\ k \in Nat
      BY <3>1, <3>2
    <3>4. t[k - 1] = s[k - 1]
      BY <3>3, RuntimeAssumption
    <3>5. t[k] = t[k - 1] + h[k] /\ s[k] = s[k - 1] + h[k]
      BY <1>2, <3>2, <3>3, RuntimeAssumption DEF PartialSums
    <3> QED BY <3>1, <3>4, <3>5
  <2> QED BY <2>1, <2>2
<1> QED BY <1>3, <1>4

LEMMA SumOverType ==
  ASSUME NEW h \in [Cpus -> Nat]
  PROVE  SumOver(h) \in Nat
<1>1. PICK s : PartialSums(s, h, NCpus)
  BY PartialSumsExist
<1>2. SumOver(h) = s[NCpus]
  BY <1>1, SumOverIs
<1>3. s[NCpus] \in Nat
  BY <1>1, RuntimeAssumption DEF PartialSums
<1> QED BY <1>2, <1>3

\* What holds at each CPU holds of the sums.
LEMMA SumLaw ==
  ASSUME NEW a \in [Cpus -> Nat], NEW b \in [Cpus -> Nat],
         NEW c \in [Cpus -> Nat], NEW d \in [Cpus -> Nat],
         \A cpu \in Cpus : a[cpu] + b[cpu] <= c[cpu] + d[cpu]
  PROVE  SumOver(a) + SumOver(b) <= SumOver(c) + SumOver(d)
<1>1. PICK sa : PartialSums(sa, a, NCpus)
  BY PartialSumsExist
<1>2. PICK sb : PartialSums(sb, b, NCpus)
  BY PartialSumsExist
<1>3. PICK sc : PartialSums(sc, c, NCpus)
  BY PartialSumsExist
<1>4. PICK sd : PartialSums(sd, d, NCpus)
  BY PartialSumsExist
<1> DEFINE T == {k \in Nat : k <= NCpus /\ ~(sa[k] + sb[k] <= sc[k] + sd[k])}
<1>5. CASE T = {}
  <2>1. sa[NCpus] + sb[NCpus] <= sc[NCpus] + sd[NCpus]
    BY <1>5, RuntimeAssumption
  <2> QED BY <1>1, <1>2, <1>3, <1>4, <2>1, SumOverIs
<1>6. CASE T # {}
  <2>1. PICK k \in T : \A y \in T : k <= y
    BY <1>6, LeastElement
  <2>2. k # 0
    BY <1>1, <1>2, <1>3, <1>4, <2>1 DEF PartialSums
  <2>3. k - 1 \in Nat /\ k - 1 \notin T /\ k <= NCpus /\ k \in Nat
    BY <2>1, <2>2
  <2>4. k \in Cpus /\ k - 1 \in 0..NCpus
    BY <2>2, <2>3, RuntimeAssumption DEF Cpus
  <2>5. sa[k - 1] + sb[k - 1] <= sc[k - 1] + sd[k - 1]
    BY <2>3, RuntimeAssumption
  <2>6. /\ sa[k] = sa[k - 1] + a[k] /\ sb[k] = sb[k - 1] + b[k]
        /\ sc[k] = sc[k - 1] + c[k] /\ sd[k] = sd[k - 1] + d[k]
        /\ sa[k - 1] \in Nat /\ sb[k - 1] \in Nat /\ sc[k - 1] \in Nat /\ sd[k - 1] \in Nat
    BY <1>1, <1>2, <1>3, <1>4, <2>4 DEF PartialSums, Cpus
  <2>7. a[k] \in Nat /\ b[k] \in Nat /\ c[k] \in Nat /\ d[k] \in Nat
        /\ a[k] + b[k] <= c[k] + d[k]
    BY <2>4
  <2> HIDE DEF T
  <2>8. sa[k] + sb[k] <= sc[k] + sd[k]
    BY <2>5, <2>6, <2>7
  <2> QED BY <2>1, <2>8 DEF T
<1> QED BY <1>5, <1>6

None == [cpu \in Cpus |-> 0]

LEMMA SumOfNone == SumOver(None) = 0
<1>1. PartialSums([n \in 0..NCpus |-> 0], None, NCpus) /\ None \in [Cpus -> Nat]
  BY RuntimeAssumption DEF PartialSums, None, Cpus
<1> QED BY <1>1, SumOverIs, RuntimeAssumption

Only(k, v) == [cpu \in Cpus |-> IF cpu = k THEN v ELSE 0]

LEMMA SumOfOnly ==
  ASSUME NEW k \in Cpus, NEW v \in Nat
  PROVE  SumOver(Only(k, v)) = v /\ Only(k, v) \in [Cpus -> Nat]
<1> DEFINE s == [n \in 0..NCpus |-> IF n < k THEN 0 ELSE v]
<1>0. k \in Nat /\ 1 <= k /\ k <= NCpus /\ NCpus \in Nat
  BY RuntimeAssumption DEF Cpus
<1>1. PartialSums(s, Only(k, v), NCpus) /\ Only(k, v) \in [Cpus -> Nat]
  <2>1. Only(k, v) \in [Cpus -> Nat]
    BY DEF Only
  <2>2. s \in [0..NCpus -> Nat] /\ s[0] = 0
    BY <1>0
  <2>3. ASSUME NEW n \in 1..NCpus PROVE s[n] = s[n - 1] + Only(k, v)[n]
    <3>1. Only(k, v)[n] = IF n = k THEN v ELSE 0
      BY DEF Only, Cpus
    <3>2. s[n] = (IF n < k THEN 0 ELSE v) /\ s[n - 1] = (IF n - 1 < k THEN 0 ELSE v)
      BY <1>0
    <3> HIDE DEF s
    <3> QED BY <1>0, <3>1, <3>2
  <2> HIDE DEF s
  <2> QED BY <2>1, <2>2, <2>3 DEF PartialSums
<1>2. s[NCpus] = v
  BY <1>0
<1> HIDE DEF s
<1> QED BY <1>1, <1>2, SumOverIs

LEMMA SumGrows ==
  ASSUME NEW a \in [Cpus -> Nat], NEW b \in [Cpus -> Nat], \A cpu \in Cpus : a[cpu] <= b[cpu]
  PROVE  SumOver(a) <= SumOver(b)
<1>1. None \in [Cpus -> Nat] /\ \A cpu \in Cpus : None[cpu] = 0
  BY DEF None
<1>2. SumOver(a) + SumOver(None) <= SumOver(b) + SumOver(None)
  BY <1>1, SumLaw
<1> QED BY <1>2, SumOfNone, SumOverType

LEMMA PartOfSum ==
  ASSUME NEW h \in [Cpus -> Nat], NEW k \in Cpus
  PROVE  h[k] <= SumOver(h)
<1> DEFINE o == Only(k, h[k])
<1>1. SumOver(o) = h[k] /\ o \in [Cpus -> Nat]
  BY SumOfOnly
<1>2. \A cpu \in Cpus : o[cpu] <= h[cpu]
  BY DEF Only
<1> HIDE DEF o
<1>3. SumOver(o) <= SumOver(h)
  BY <1>1, <1>2, SumGrows
<1> QED BY <1>1, <1>3

\* When the value of one CPU moves, so does the sum.
LEMMA OneMoves ==
  ASSUME NEW a \in [Cpus -> Nat], NEW b \in [Cpus -> Nat], NEW k \in Cpus,
         \A x \in Cpus : x # k => b[x] = a[x]
  PROVE  SumOver(b) + a[k] = SumOver(a) + b[k]
<1> DEFINE oa == Only(k, a[k])
           ob == Only(k, b[k])
<1>1. SumOver(oa) = a[k] /\ oa \in [Cpus -> Nat] /\ SumOver(ob) = b[k] /\ ob \in [Cpus -> Nat]
  BY SumOfOnly
<1>2. \A x \in Cpus : oa[x] = (IF x = k THEN a[k] ELSE 0) /\ ob[x] = (IF x = k THEN b[k] ELSE 0)
  BY DEF Only
<1> HIDE DEF oa, ob
<1>3. \A x \in Cpus : b[x] + oa[x] = a[x] + ob[x]
  BY <1>1, <1>2
<1>4. \A x \in Cpus : b[x] \in Nat /\ oa[x] \in Nat /\ a[x] \in Nat /\ ob[x] \in Nat
  BY <1>1
<1>5. SumOver(b) + SumOver(oa) <= SumOver(a) + SumOver(ob)
  BY <1>1, <1>3, <1>4, SumLaw
<1>6. SumOver(a) + SumOver(ob) <= SumOver(b) + SumOver(oa)
  BY <1>1, <1>3, <1>4, SumLaw
<1>7. SumOver(a) \in Nat /\ SumOver(b) \in Nat /\ a[k] \in Nat /\ b[k] \in Nat
  BY SumOverType
<1> QED BY <1>1, <1>5, <1>6, <1>7

----------------------------------------------------------------------------
(* What a hook has still to do. *)

Has(s, op) == \E i \in DOMAIN s : s[i] = op

Owed(s, op) == IF Has(s, op) THEN 1 ELSE 0

\* Each operation is there once; a packet is seen first, counted as malformed
\* before the reason and as transformed before its event.
RunOK(s) ==
  /\ s \in Seq(Ops)
  /\ \A i, j \in DOMAIN s : s[i] = s[j] => i = j
  /\ \A i \in DOMAIN s : s[i] = "seen" => i = 1
  /\ \A i, j \in DOMAIN s : s[i] = "reserve" /\ s[j] = "crypto_ok" => j < i
  /\ \A i, j \in DOMAIN s : s[i] = "reason" /\ s[j] = "malformed" => j < i
  /\ Has(s, "passed") =>
       ~Has(s, "crypto_ok") /\ ~Has(s, "malformed") /\ ~Has(s, "crypto_fail")
  /\ \A i \in DOMAIN s : s[i] = "reserve" =>
       i + 2 \in DOMAIN s /\ s[i + 1] = "fill" /\ s[i + 2] = "submit"

LEMMA CountersAre ==
  Counters = {"seen", "passed", "crypto_ok", "crypto_fail", "malformed", "reason"}
BY DEF Counters, Fields

LEMMA ProgramOK ==
  ASSUME NEW o \in Outcomes
  PROVE  LET s == Program(o)
         IN  /\ RunOK(s) /\ s # <<>> /\ Has(s, "seen")
             /\ Has(s, "reserve") => Has(s, "crypto_ok")
             /\ Has(s, "reason") => Has(s, "malformed")
<1>1. CASE o = "passed"
  <2>1. Program(o) = <<"seen", "passed">>
    BY <1>1 DEF Program
  <2> QED BY <2>1, CountersAre DEF RunOK, Has, Ops
<1>2. CASE o = "ok"
  <2> DEFINE s == Program(o)
             front == <<"seen", "crypto_ok">>
  <2>1. s = front \o Publish
    BY <1>2 DEF Program
  <2>2. front \in Seq(Ops) /\ Publish \in Seq(Ops)
    BY CountersAre DEF Ops, Publish
  <2> HIDE DEF s
  <2>3. s \in Seq(Ops) /\ Len(s) = 5
    BY <2>1, <2>2 DEF Publish
  <2>4. /\ s[1] = "seen" /\ s[2] = "crypto_ok" /\ s[3] = "reserve" /\ s[4] = "fill"
        /\ s[5] = "submit"
    BY <2>1 DEF Publish
  <2>5. DOMAIN s = 1..5
    BY <2>3
  <2> HIDE DEF front
  <2>6. RunOK(s) /\ s # <<>> /\ Has(s, "seen") /\ Has(s, "crypto_ok")
          /\ (Has(s, "reason") => Has(s, "malformed"))
    BY <2>3, <2>4, <2>5 DEF RunOK, Has
  <2> QED BY <2>6 DEF s
<1>3. CASE o = "refused"
  <2>1. Program(o) = <<"seen", "malformed", "reason">>
    BY <1>3 DEF Program
  <2> QED BY <2>1, CountersAre DEF RunOK, Has, Ops
<1>4. CASE o = "failed"
  <2>1. Program(o) = <<"seen", "malformed", "crypto_fail">>
    BY <1>4 DEF Program
  <2> QED BY <2>1, CountersAre DEF RunOK, Has, Ops
<1>5. CASE o = "failedFramed"
  <2>1. Program(o) = <<"seen", "crypto_fail">>
    BY <1>5 DEF Program
  <2> QED BY <2>1, CountersAre DEF RunOK, Has, Ops
<1>6. CASE o = "badPad"
  <2> DEFINE s == Program(o)
             front == <<"seen", "crypto_ok">>
             back == <<"malformed", "reason">>
  <2>1. s = front \o Publish \o back
    BY <1>6 DEF Program
  <2>2. front \in Seq(Ops) /\ Publish \in Seq(Ops) /\ back \in Seq(Ops)
    BY CountersAre DEF Ops, Publish
  <2> HIDE DEF s
  <2>3. s \in Seq(Ops) /\ Len(s) = 7
    BY <2>1, <2>2 DEF Publish
  <2>4. /\ s[1] = "seen" /\ s[2] = "crypto_ok" /\ s[3] = "reserve" /\ s[4] = "fill"
        /\ s[5] = "submit" /\ s[6] = "malformed" /\ s[7] = "reason"
    BY <2>1 DEF Publish
  <2>5. DOMAIN s = 1..7
    BY <2>3
  <2> HIDE DEF front, back
  <2>6. RunOK(s) /\ s # <<>> /\ Has(s, "seen") /\ Has(s, "crypto_ok")
          /\ (Has(s, "reason") => Has(s, "malformed"))
    BY <2>3, <2>4, <2>5 DEF RunOK, Has
  <2> QED BY <2>6 DEF s
<1>7. CASE o = "notShortened"
  <2> DEFINE s == Program(o)
             front == <<"seen", "crypto_ok">>
             back == <<"crypto_fail">>
  <2>1. s = front \o Publish \o back
    BY <1>7 DEF Program
  <2>2. front \in Seq(Ops) /\ Publish \in Seq(Ops) /\ back \in Seq(Ops)
    BY CountersAre DEF Ops, Publish
  <2> HIDE DEF s
  <2>3. s \in Seq(Ops) /\ Len(s) = 6
    BY <2>1, <2>2 DEF Publish
  <2>4. /\ s[1] = "seen" /\ s[2] = "crypto_ok" /\ s[3] = "reserve" /\ s[4] = "fill"
        /\ s[5] = "submit" /\ s[6] = "crypto_fail"
    BY <2>1 DEF Publish
  <2>5. DOMAIN s = 1..6
    BY <2>3
  <2> HIDE DEF front, back
  <2>6. RunOK(s) /\ s # <<>> /\ Has(s, "seen") /\ Has(s, "crypto_ok")
          /\ (Has(s, "reason") => Has(s, "malformed"))
    BY <2>3, <2>4, <2>5 DEF RunOK, Has
  <2> QED BY <2>6 DEF s
<1> QED BY <1>1, <1>2, <1>3, <1>4, <1>5, <1>6, <1>7 DEF Outcomes

\* What is left once the first k operations are done.
LEMMA DropOK ==
  ASSUME NEW s, RunOK(s), NEW k \in Nat, 0 < k, k <= Len(s),
         NEW t \in Seq(Ops), Len(t) = Len(s) - k, \A i \in DOMAIN t : t[i] = s[i + k]
  PROVE  /\ RunOK(t)
         /\ \A op : Has(t, op) <=> Has(s, op) /\ \A j \in 1..k : s[j] # op
<1>1. /\ s \in Seq(Ops) /\ DOMAIN s = 1..Len(s) /\ Len(s) \in Nat
      /\ DOMAIN t = 1..Len(t) /\ Len(t) \in Nat
  BY DEF RunOK
<1>2. \A i \in DOMAIN t : i + k \in DOMAIN s
  BY <1>1
<1>3. \A op : Has(t, op) => Has(s, op) /\ \A j \in 1..k : s[j] # op
  <2> SUFFICES ASSUME NEW op, NEW i \in DOMAIN t, t[i] = op, NEW j \in 1..k
               PROVE  Has(s, op) /\ s[j] # op
    BY <1>1 DEF Has
  <2>1. s[i + k] = op /\ i + k \in DOMAIN s /\ j \in DOMAIN s /\ j # i + k
    BY <1>1, <1>2
  <2> QED BY <2>1 DEF Has, RunOK
<1>4. \A op : Has(s, op) /\ (\A j \in 1..k : s[j] # op) => Has(t, op)
  <2> SUFFICES ASSUME NEW op, NEW i \in DOMAIN s, s[i] = op, \A j \in 1..k : s[j] # op
               PROVE  Has(t, op)
    BY DEF Has
  <2>1. i - k \in DOMAIN t /\ t[i - k] = op
    BY <1>1
  <2> QED BY <2>1 DEF Has
<1>5. RunOK(t)
  <2>1. \A i, j \in DOMAIN t : t[i] = t[j] => i = j
    BY <1>1, <1>2 DEF RunOK
  <2>2. \A i \in DOMAIN t : t[i] = "seen" => i = 1
    BY <1>1, <1>2 DEF RunOK
  <2>3. \A i, j \in DOMAIN t : t[i] = "reserve" /\ t[j] = "crypto_ok" => j < i
    BY <1>1, <1>2 DEF RunOK
  <2>4. \A i, j \in DOMAIN t : t[i] = "reason" /\ t[j] = "malformed" => j < i
    BY <1>1, <1>2 DEF RunOK
  <2>5. Has(t, "passed") =>
          ~Has(t, "crypto_ok") /\ ~Has(t, "malformed") /\ ~Has(t, "crypto_fail")
    BY <1>3 DEF RunOK
  <2>6. \A i \in DOMAIN t : t[i] = "reserve" =>
          i + 2 \in DOMAIN t /\ t[i + 1] = "fill" /\ t[i + 2] = "submit"
    <3> SUFFICES ASSUME NEW i \in DOMAIN t, t[i] = "reserve"
                 PROVE  i + 2 \in DOMAIN t /\ t[i + 1] = "fill" /\ t[i + 2] = "submit"
      OBVIOUS
    <3>1. s[i + k] = "reserve" /\ i + k \in DOMAIN s
      BY <1>2
    <3>2. (i + k) + 2 \in DOMAIN s /\ s[(i + k) + 1] = "fill" /\ s[(i + k) + 2] = "submit"
      BY <3>1 DEF RunOK
    <3>3. i + 1 \in DOMAIN t /\ i + 2 \in DOMAIN t
      BY <1>1, <3>2
    <3>4. (i + 1) + k = (i + k) + 1 /\ (i + 2) + k = (i + k) + 2
      BY <1>1
    <3>5. t[i + 1] = s[(i + 1) + k] /\ t[i + 2] = s[(i + 2) + k]
      BY <3>3
    <3> QED BY <3>2, <3>3, <3>4, <3>5
  <2> QED BY <2>1, <2>2, <2>3, <2>4, <2>5, <2>6 DEF RunOK
<1> QED BY <1>3, <1>4, <1>5

LEMMA TailOK ==
  ASSUME NEW s, RunOK(s), s # <<>>
  PROVE  /\ RunOK(Tail(s)) /\ Head(s) \in Ops /\ Has(s, Head(s))
         /\ \A op : Has(Tail(s), op) <=> Has(s, op) /\ Head(s) # op
<1>1. s \in Seq(Ops) /\ Len(s) \in Nat /\ Len(s) >= 1 /\ DOMAIN s = 1..Len(s)
  BY DEF RunOK
<1>2. Head(s) = s[1] /\ 1 \in DOMAIN s /\ Head(s) \in Ops
  BY <1>1
<1>3. /\ Tail(s) \in Seq(Ops) /\ Len(Tail(s)) = Len(s) - 1
      /\ \A i \in DOMAIN Tail(s) : Tail(s)[i] = s[i + 1]
  BY <1>1
<1>4. \A j \in 1..1 : j = 1
  OBVIOUS
<1>5. 0 < 1 /\ 1 <= Len(s)
  BY <1>1
<1> DEFINE t == Tail(s)
<1>6. t \in Seq(Ops) /\ Len(t) = Len(s) - 1 /\ \A i \in DOMAIN t : t[i] = s[i + 1]
  BY <1>3
<1> HIDE DEF t
<1>7. /\ RunOK(t)
      /\ \A op : Has(t, op) <=> Has(s, op) /\ \A j \in 1..1 : s[j] # op
  BY <1>5, <1>6, DropOK
<1>8. \A op : (\A j \in 1..1 : s[j] # op) <=> Head(s) # op
  BY <1>2, <1>4
<1>9. RunOK(t) /\ \A op : Has(t, op) <=> Has(s, op) /\ Head(s) # op
  BY <1>7, <1>8
<1> QED BY <1>2, <1>9 DEF Has, t

\* Without room in the ring the three steps that publish are left out.
LEMMA SkipOK ==
  ASSUME NEW s, RunOK(s), s # <<>>, Head(s) = "reserve"
  PROVE  LET t == SubSeq(s, Len(Publish) + 1, Len(s))
         IN  /\ RunOK(t)
             /\ \A op : Has(t, op) <=> Has(s, op) /\ op \notin {"reserve", "fill", "submit"}
<1> DEFINE t == SubSeq(s, Len(Publish) + 1, Len(s))
<1>1. s \in Seq(Ops) /\ Len(s) \in Nat /\ Len(s) >= 1 /\ DOMAIN s = 1..Len(s)
  BY DEF RunOK
<1>2. s[1] = "reserve" /\ 1 \in DOMAIN s
  BY <1>1
<1>3. 1 + 2 \in DOMAIN s /\ s[1 + 1] = "fill" /\ s[1 + 2] = "submit"
  BY <1>2 DEF RunOK
<1>4. Len(s) >= 3 /\ s[2] = "fill" /\ s[3] = "submit"
  BY <1>1, <1>3
<1>5. t = SubSeq(s, 4, Len(s))
  BY DEF Publish
<1>6. t \in Seq(Ops) /\ Len(t) = Len(s) - 3 /\ \A i \in DOMAIN t : t[i] = s[i + 3]
  BY <1>1, <1>4, <1>5
<1> HIDE DEF t
<1>7. /\ RunOK(t)
      /\ \A op : Has(t, op) <=> Has(s, op) /\ \A j \in 1..3 : s[j] # op
  BY <1>4, <1>6, DropOK
<1>8. \A op : (\A j \in 1..3 : s[j] # op) <=> op \notin {"reserve", "fill", "submit"}
  BY <1>2, <1>4
<1>9. \A op : Has(t, op) <=> Has(s, op) /\ op \notin {"reserve", "fill", "submit"}
  BY <1>7, <1>8
<1> QED BY <1>7, <1>9 DEF t

----------------------------------------------------------------------------
(* The counters of one CPU.  Of the three outcomes a packet can have beside *)
(* passed none is counted before the packet is seen, nor a reason before    *)
(* the packet is malformed.                                                 *)

Transformed == {"crypto_ok", "malformed", "crypto_fail"}

AccOK(n, s) ==
  /\ \A x \in Transformed :
       /\ n["passed"] + n[x] <= n["seen"]
       /\ ~Has(s, "seen") =>
            n["passed"] + n[x] + Owed(s, "passed") + Owed(s, x) <= n["seen"]
  /\ n["reason"] <= n["malformed"]
  /\ ~Has(s, "malformed") => n["reason"] + Owed(s, "reason") <= n["malformed"]

LEMMA ArriveAcc ==
  ASSUME NEW n \in [Counters -> Nat], AccOK(n, <<>>), NEW o \in Outcomes
  PROVE  AccOK(n, Program(o))
<1> DEFINE s == Program(o)
<1>1. Has(s, "seen") /\ (Has(s, "reason") => Has(s, "malformed"))
  BY ProgramOK
<1>2. n["reason"] \in Nat /\ n["malformed"] \in Nat /\ n["reason"] <= n["malformed"]
  BY CountersAre DEF AccOK
<1> HIDE DEF s
<1>3. AccOK(n, s)
  BY <1>1, <1>2 DEF AccOK, Owed
<1> QED BY <1>3 DEF s

LEMMA DropAcc ==
  ASSUME NEW n \in [Counters -> Nat], NEW s, AccOK(n, s), NEW t,
         \A op : Has(t, op) => Has(s, op),
         Has(s, "seen") => Has(t, "seen"), Has(s, "malformed") => Has(t, "malformed")
  PROVE  AccOK(n, t)
<1>1. \A c \in Counters : n[c] \in Nat
  OBVIOUS
<1>2. \A op : Owed(t, op) \in {0, 1} /\ Owed(s, op) \in {0, 1} /\ Owed(t, op) <= Owed(s, op)
  BY DEF Owed
<1> HIDE DEF Owed
<1>3. \A x \in Transformed : x \in Counters
  BY CountersAre DEF Transformed
<1> QED BY <1>1, <1>2, <1>3, CountersAre DEF AccOK

LEMMA BumpAcc ==
  ASSUME NEW n \in [Counters -> Nat], NEW s, RunOK(s), s # <<>>, AccOK(n, s),
         Head(s) \in Counters
  PROVE  AccOK([n EXCEPT ![Head(s)] = @ + 1], Tail(s))
<1> DEFINE h == Head(s)
           t == Tail(s)
           m == [n EXCEPT ![h] = @ + 1]
<1>1. /\ RunOK(t) /\ Has(s, h) /\ \A op : Has(t, op) <=> Has(s, op) /\ h # op
  BY TailOK
<1>2. \A c \in Counters : n[c] \in Nat /\ m[c] = IF c = h THEN n[c] + 1 ELSE n[c]
  OBVIOUS
<1>3. (Has(s, "seen") => h = "seen") /\ (h = "reason" => ~Has(s, "malformed"))
  <2>1. s \in Seq(Ops) /\ 1 \in DOMAIN s /\ s[1] = h
    BY DEF RunOK
  <2> HIDE DEF h
  <2>2. ASSUME NEW i \in DOMAIN s, s[i] = "seen" PROVE h = "seen"
    BY <2>1, <2>2 DEF RunOK
  <2>3. ASSUME h = "reason", NEW i \in DOMAIN s, s[i] = "malformed" PROVE FALSE
    BY <2>1, <2>3 DEF RunOK
  <2> QED BY <2>2, <2>3 DEF Has
<1>4. Has(s, "passed") =>
        ~Has(s, "crypto_ok") /\ ~Has(s, "malformed") /\ ~Has(s, "crypto_fail")
  BY DEF RunOK
<1> HIDE DEF h, t, m
<1>5. ASSUME NEW x \in Transformed
      PROVE  /\ m["passed"] + m[x] <= m["seen"]
             /\ ~Has(t, "seen") =>
                  m["passed"] + m[x] + Owed(t, "passed") + Owed(t, x) <= m["seen"]
  <2>1. x \in Counters /\ x # "seen" /\ x # "passed" /\ ~(Has(s, "passed") /\ Has(s, x))
    BY <1>4, CountersAre DEF Transformed
  <2>2. /\ n["passed"] + n[x] <= n["seen"]
        /\ ~Has(s, "seen") =>
             n["passed"] + n[x] + Owed(s, "passed") + Owed(s, x) <= n["seen"]
    BY DEF AccOK
  <2>3. n["passed"] \in Nat /\ n[x] \in Nat /\ n["seen"] \in Nat
    BY <1>2, <2>1, CountersAre
  <2>4. /\ m["passed"] = (IF h = "passed" THEN n["passed"] + 1 ELSE n["passed"])
        /\ m[x] = (IF h = x THEN n[x] + 1 ELSE n[x])
        /\ m["seen"] = (IF h = "seen" THEN n["seen"] + 1 ELSE n["seen"])
    BY <1>2, <2>1, CountersAre
  <2>5. CASE h = "seen"
    BY <1>1, <2>1, <2>2, <2>3, <2>4, <2>5 DEF Owed
  <2>6. CASE h # "seen"
    <3>1. ~Has(s, "seen")
      BY <1>3, <2>6
    <3> QED BY <1>1, <2>1, <2>2, <2>3, <2>4, <2>6, <3>1 DEF Owed
  <2> QED BY <2>5, <2>6
<1>6. /\ m["reason"] <= m["malformed"]
      /\ ~Has(t, "malformed") => m["reason"] + Owed(t, "reason") <= m["malformed"]
  <2>1. n["reason"] \in Nat /\ n["malformed"] \in Nat
    BY <1>2, CountersAre
  <2>2. /\ n["reason"] <= n["malformed"]
        /\ ~Has(s, "malformed") => n["reason"] + Owed(s, "reason") <= n["malformed"]
    BY DEF AccOK
  <2>3. /\ m["reason"] = (IF h = "reason" THEN n["reason"] + 1 ELSE n["reason"])
        /\ m["malformed"] = (IF h = "malformed" THEN n["malformed"] + 1 ELSE n["malformed"])
    BY <1>2, CountersAre
  <2> QED BY <1>1, <1>3, <2>1, <2>2, <2>3 DEF Owed
<1>7. AccOK(m, t)
  BY <1>5, <1>6 DEF AccOK
<1> QED BY <1>7 DEF m, h, t

----------------------------------------------------------------------------
(* The hooks' part of the state. *)

Hooked ==
  /\ left \in Nat /\ nevents \in Nat
  /\ run \in [Cpus -> Seq(Ops)] /\ counters \in [Cpus -> [Counters -> Nat]]
  /\ \A cpu \in Cpus : RunOK(run[cpu]) /\ AccOK(counters[cpu], run[cpu])

\* One CPU has moved: it has counters n, and t is what its hook has still to do.
Moved(cpu, n, t) ==
  run' = [run EXCEPT ![cpu] = t] /\ counters' = [counters EXCEPT ![cpu] = n]

LEMMA MovedHooked ==
  ASSUME Hooked, NEW cpu \in Cpus, NEW n \in [Counters -> Nat], NEW t, Moved(cpu, n, t),
         RunOK(t), AccOK(n, t), left' \in Nat, nevents' \in Nat
  PROVE  Hooked'
<1>1. t \in Seq(Ops)
  BY DEF RunOK
<1>2. \A x \in Cpus : run'[x] = (IF x = cpu THEN t ELSE run[x])
                      /\ counters'[x] = (IF x = cpu THEN n ELSE counters[x])
  BY DEF Moved, Hooked
<1>3. run' \in [Cpus -> Seq(Ops)] /\ counters' \in [Cpus -> [Counters -> Nat]]
  BY <1>1 DEF Moved, Hooked
<1>4. \A x \in Cpus : RunOK(run'[x]) /\ AccOK(counters'[x], run'[x])
  BY <1>2 DEF Hooked
<1> QED BY <1>3, <1>4 DEF Hooked

\* The five kinds of step a hook takes, the arrival of its packet included.
LEMMA ArriveMoves ==
  ASSUME Hooked, NEW cpu \in Cpus, NEW o \in Seen, Arrive(cpu, o)
  PROVE  /\ Moved(cpu, counters[cpu], Program(o))
         /\ run[cpu] = <<>> /\ counters[cpu] \in [Counters -> Nat]
         /\ left' = left - 1 /\ left' \in Nat /\ nevents' = nevents
         /\ RunOK(Program(o)) /\ AccOK(counters[cpu], Program(o))
         /\ Has(Program(o), "reserve") => Has(Program(o), "crypto_ok")
<1>1. o \in Outcomes
  BY SeenAssumption
<1>2. /\ RunOK(Program(o))
      /\ Has(Program(o), "reserve") => Has(Program(o), "crypto_ok")
  BY <1>1, ProgramOK
<1>3. counters[cpu] \in [Counters -> Nat] /\ AccOK(counters[cpu], <<>>) /\ run[cpu] = <<>>
  BY DEF Hooked, Arrive
<1>4. AccOK(counters[cpu], Program(o))
  BY <1>1, <1>3, ArriveAcc
<1>5. /\ run' = [run EXCEPT ![cpu] = Program(o)] /\ counters' = counters
      /\ left' = left - 1 /\ left > 0 /\ nevents' = nevents
  BY DEF Arrive
<1>6. counters' = [counters EXCEPT ![cpu] = counters[cpu]]
  BY <1>5 DEF Hooked
<1>7. left' \in Nat
  BY <1>5 DEF Hooked
<1>8. Moved(cpu, counters[cpu], Program(o))
  BY <1>5, <1>6 DEF Moved
<1> QED BY <1>2, <1>3, <1>4, <1>5, <1>7, <1>8, Zenon

LEMMA BumpMoves ==
  ASSUME Hooked, NEW cpu \in Cpus, run[cpu] # <<>>, Bump(cpu)
  PROVE  LET s == run[cpu]
             n == [counters[cpu] EXCEPT ![Head(s)] = @ + 1]
         IN  /\ Moved(cpu, n, Tail(s)) /\ n \in [Counters -> Nat] /\ Head(s) \in Counters
             /\ RunOK(Tail(s)) /\ AccOK(n, Tail(s))
             /\ left' = left /\ nevents' = nevents /\ ring' = ring
<1> DEFINE s == run[cpu]
           n == [counters[cpu] EXCEPT ![Head(s)] = @ + 1]
<1>1. /\ counters[cpu] \in [Counters -> Nat] /\ RunOK(s) /\ s # <<>>
      /\ AccOK(counters[cpu], s)
  BY DEF Hooked
<1>2. /\ Head(s) \in Counters /\ run' = [run EXCEPT ![cpu] = Tail(s)]
      /\ left' = left /\ nevents' = nevents /\ ring' = ring
  BY DEF Bump, Advance, Hooked
<1>3. counters' = [counters EXCEPT ![cpu] = n]
  BY DEF Bump, Hooked
<1>4. AccOK(n, Tail(s)) /\ RunOK(Tail(s))
  BY <1>1, <1>2, BumpAcc, TailOK
<1>5. n \in [Counters -> Nat]
  <2>1. counters[cpu][Head(s)] + 1 \in Nat
    BY <1>1, <1>2
  <2> QED BY <1>1, <2>1
<1> QED BY <1>2, <1>3, <1>4, <1>5 DEF Moved

\* reserve, fill and submit, with the operations done left out.
LEMMA PublishMoves ==
  ASSUME Hooked, NEW cpu \in Cpus, run[cpu] # <<>>, Reserve(cpu) \/ Fill(cpu) \/ Submit(cpu)
  PROVE  \E t :
           /\ Moved(cpu, counters[cpu], t) /\ RunOK(t) /\ AccOK(counters[cpu], t)
           /\ counters[cpu] \in [Counters -> Nat] /\ left' = left
           /\ Head(run[cpu]) \in {"reserve", "fill", "submit"}
           /\ \A op \in Ops : Has(t, op) => Has(run[cpu], op) /\ op # Head(run[cpu])
           /\ Has(run[cpu], "crypto_ok") => Has(t, "crypto_ok")
           /\ nevents' = nevents \/ (nevents' = nevents + 1 /\ Head(run[cpu]) = "reserve")
           /\ t = Tail(run[cpu]) \/ (ring' = ring /\ nevents' = nevents /\ Head(run[cpu]) = "reserve")
<1> DEFINE s == run[cpu]
<1>1. /\ counters[cpu] \in [Counters -> Nat] /\ RunOK(s) /\ s # <<>>
      /\ AccOK(counters[cpu], s)
  BY DEF Hooked
<1>2. /\ counters' = counters /\ left' = left /\ Head(s) \in {"reserve", "fill", "submit"}
      /\ nevents' = nevents \/ (nevents' = nevents + 1 /\ Head(s) = "reserve")
      /\ \/ run' = [run EXCEPT ![cpu] = Tail(s)]
         \/ /\ run' = [run EXCEPT ![cpu] = SubSeq(s, Len(Publish) + 1, Len(s))]
            /\ ring' = ring /\ nevents' = nevents /\ Head(s) = "reserve"
  BY DEF Reserve, Fill, Submit, Advance, Hooked
<1>3. counters' = [counters EXCEPT ![cpu] = counters[cpu]]
  BY <1>2 DEF Hooked
<1>4. "seen" \notin {"reserve", "fill", "submit"} /\ "malformed" \notin {"reserve", "fill", "submit"}
  OBVIOUS
<1> HIDE DEF s
<1>5. CASE run' = [run EXCEPT ![cpu] = Tail(s)]
  <2> DEFINE t == Tail(s)
  <2>1. RunOK(t) /\ \A op : Has(t, op) <=> Has(s, op) /\ Head(s) # op
    BY <1>1, TailOK
  <2> HIDE DEF t
  <2>2. AccOK(counters[cpu], t)
    BY <1>1, <1>2, <2>1, DropAcc
  <2>3. Moved(cpu, counters[cpu], t)
    BY <1>3, <1>5 DEF Moved, t
  <2> QED BY <1>1, <1>2, <2>1, <2>2, <2>3 DEF s, t
<1>6. CASE run' = [run EXCEPT ![cpu] = SubSeq(s, Len(Publish) + 1, Len(s))]
           /\ ring' = ring /\ nevents' = nevents /\ Head(s) = "reserve"
  <2> DEFINE t == SubSeq(s, Len(Publish) + 1, Len(s))
  <2>1. RunOK(t) /\ \A op : Has(t, op) <=> Has(s, op) /\ op \notin {"reserve", "fill", "submit"}
    BY <1>1, <1>6, SkipOK
  <2> HIDE DEF t
  <2>2. AccOK(counters[cpu], t)
    BY <1>1, <2>1, DropAcc
  <2>3. Moved(cpu, counters[cpu], t)
    BY <1>3, <1>6 DEF Moved, t
  <2> QED BY <1>1, <1>2, <1>6, <2>1, <2>2, <2>3 DEF s, t
<1> QED BY <1>2, <1>5, <1>6

----------------------------------------------------------------------------
(* No counter passes the packets: what is counted, still to be counted and *)
(* still to come is never more than the packets there are.                 *)

Slots(c) == [cpu \in Cpus |-> counters[cpu][c]]

Owing(op) == [cpu \in Cpus |-> Owed(run[cpu], op)]

\* Is a transformed packet counted and its event not yet reserved?
Ahead(s) == IF Has(s, "reserve") /\ ~Has(s, "crypto_ok") THEN 1 ELSE 0

Early == [cpu \in Cpus |-> Ahead(run[cpu])]

Budget ==
  /\ \A c \in Counters : SumOver(Slots(c)) + SumOver(Owing(c)) + left <= Packets
  /\ nevents + SumOver(Owing("reserve")) + left <= Packets
  /\ nevents + SumOver(Early) <= SumOver(Slots("crypto_ok"))

LEMMA SumTypes ==
  ASSUME Hooked
  PROVE  /\ \A c \in Counters : Slots(c) \in [Cpus -> Nat] /\ SumOver(Slots(c)) \in Nat
         /\ \A op \in Ops : Owing(op) \in [Cpus -> Nat] /\ SumOver(Owing(op)) \in Nat
         /\ Early \in [Cpus -> Nat] /\ SumOver(Early) \in Nat
<1>1. \A c \in Counters : Slots(c) \in [Cpus -> Nat]
  BY DEF Slots, Hooked
<1>2. \A op \in Ops : Owing(op) \in [Cpus -> Nat]
  BY DEF Owing, Owed
<1>3. Early \in [Cpus -> Nat]
  BY DEF Early, Ahead
<1> QED BY <1>1, <1>2, <1>3, SumOverType

LEMMA MovedSums ==
  ASSUME Hooked, Hooked', NEW cpu \in Cpus, NEW n \in [Counters -> Nat], NEW t, Moved(cpu, n, t)
  PROVE  /\ \A c \in Counters :
              SumOver(Slots(c))' + counters[cpu][c] = SumOver(Slots(c)) + n[c]
         /\ \A op \in Ops :
              SumOver(Owing(op))' + Owed(run[cpu], op) = SumOver(Owing(op)) + Owed(t, op)
         /\ SumOver(Early)' + Ahead(run[cpu]) = SumOver(Early) + Ahead(t)
<1>1. \A x \in Cpus : run'[x] = (IF x = cpu THEN t ELSE run[x])
                      /\ counters'[x] = (IF x = cpu THEN n ELSE counters[x])
  BY DEF Moved, Hooked
<1>2. ASSUME NEW c \in Counters
      PROVE  SumOver(Slots(c))' + counters[cpu][c] = SumOver(Slots(c)) + n[c]
  <2> DEFINE a == Slots(c)
             b == Slots(c)'
  <2>1. a \in [Cpus -> Nat] /\ b \in [Cpus -> Nat]
    BY <1>1 DEF Slots, Hooked
  <2>2. \A x \in Cpus : x # cpu => b[x] = a[x]
    BY <1>1 DEF Slots
  <2>3. a[cpu] = counters[cpu][c] /\ b[cpu] = n[c]
    BY <1>1 DEF Slots
  <2> HIDE DEF a, b
  <2>4. SumOver(b) + a[cpu] = SumOver(a) + b[cpu]
    BY <2>1, <2>2, OneMoves
  <2> QED BY <2>3, <2>4 DEF a, b
<1>3. ASSUME NEW op \in Ops
      PROVE  SumOver(Owing(op))' + Owed(run[cpu], op) = SumOver(Owing(op)) + Owed(t, op)
  <2> DEFINE a == Owing(op)
             b == Owing(op)'
  <2>1. a \in [Cpus -> Nat] /\ b \in [Cpus -> Nat]
    BY DEF Owing, Owed
  <2>2. \A x \in Cpus : x # cpu => b[x] = a[x]
    BY <1>1 DEF Owing
  <2>3. a[cpu] = Owed(run[cpu], op) /\ b[cpu] = Owed(t, op)
    BY <1>1 DEF Owing
  <2> HIDE DEF a, b
  <2>4. SumOver(b) + a[cpu] = SumOver(a) + b[cpu]
    BY <2>1, <2>2, OneMoves
  <2> QED BY <2>3, <2>4 DEF a, b
<1>4. SumOver(Early)' + Ahead(run[cpu]) = SumOver(Early) + Ahead(t)
  <2> DEFINE a == Early
             b == Early'
  <2>1. a \in [Cpus -> Nat] /\ b \in [Cpus -> Nat]
    BY DEF Early, Ahead
  <2>2. \A x \in Cpus : x # cpu => b[x] = a[x]
    BY <1>1 DEF Early
  <2>3. a[cpu] = Ahead(run[cpu]) /\ b[cpu] = Ahead(t)
    BY <1>1 DEF Early
  <2> HIDE DEF a, b
  <2>4. SumOver(b) + a[cpu] = SumOver(a) + b[cpu]
    BY <2>1, <2>2, OneMoves
  <2> QED BY <2>3, <2>4 DEF a, b
<1> QED BY <1>2, <1>3, <1>4

\* A step of one CPU keeps the budget if that CPU keeps its own.
LEMMA BudgetStep ==
  ASSUME Hooked, Hooked', Budget, NEW cpu \in Cpus, NEW n \in [Counters -> Nat], NEW t,
         Moved(cpu, n, t),
         \A c \in Counters :
           n[c] + Owed(t, c) + left' <= counters[cpu][c] + Owed(run[cpu], c) + left,
         nevents' + Owed(t, "reserve") + left' <= nevents + Owed(run[cpu], "reserve") + left,
         nevents' + Ahead(t) + counters[cpu]["crypto_ok"]
           <= nevents + Ahead(run[cpu]) + n["crypto_ok"]
  PROVE  Budget'
<1>1. /\ \A c \in Counters : counters[cpu][c] \in Nat /\ n[c] \in Nat
      /\ \A op \in Ops : Owed(run[cpu], op) \in Nat /\ Owed(t, op) \in Nat
      /\ Ahead(run[cpu]) \in Nat /\ Ahead(t) \in Nat
      /\ left \in Nat /\ left' \in Nat /\ nevents \in Nat /\ nevents' \in Nat
  BY DEF Hooked, Owed, Ahead
<1>2. /\ \A c \in Counters : SumOver(Slots(c)) \in Nat
      /\ \A op \in Ops : SumOver(Owing(op)) \in Nat
      /\ SumOver(Early) \in Nat
  BY SumTypes
<1>3. /\ \A c \in Counters : SumOver(Slots(c))' \in Nat
      /\ \A op \in Ops : SumOver(Owing(op))' \in Nat
      /\ SumOver(Early)' \in Nat
  <2>1. \A c \in Counters : Slots(c)' \in [Cpus -> Nat]
    BY DEF Slots, Hooked
  <2>2. \A op \in Ops : Owing(op)' \in [Cpus -> Nat]
    BY DEF Owing, Owed
  <2>3. Early' \in [Cpus -> Nat]
    BY DEF Early, Ahead
  <2> QED BY <2>1, <2>2, <2>3, SumOverType
<1>4. /\ \A c \in Counters :
           SumOver(Slots(c))' + counters[cpu][c] = SumOver(Slots(c)) + n[c]
      /\ \A op \in Ops :
           SumOver(Owing(op))' + Owed(run[cpu], op) = SumOver(Owing(op)) + Owed(t, op)
      /\ SumOver(Early)' + Ahead(run[cpu]) = SumOver(Early) + Ahead(t)
  BY MovedSums
<1>5. ASSUME NEW c \in Counters
      PROVE  SumOver(Slots(c))' + SumOver(Owing(c))' + left' <= Packets
  <2>1. c \in Ops
    BY DEF Ops
  <2>2. SumOver(Slots(c)) + SumOver(Owing(c)) + left <= Packets
    BY DEF Budget
  <2> QED BY <1>1, <1>2, <1>3, <1>4, <2>1, <2>2, RuntimeAssumption
<1>6. nevents' + SumOver(Owing("reserve"))' + left' <= Packets
  <2>1. "reserve" \in Ops
    BY DEF Ops
  <2>2. nevents + SumOver(Owing("reserve")) + left <= Packets
    BY DEF Budget
  <2> QED BY <1>1, <1>2, <1>3, <1>4, <2>1, <2>2, RuntimeAssumption
<1>7. nevents' + SumOver(Early)' <= SumOver(Slots("crypto_ok"))'
  <2>1. "crypto_ok" \in Counters
    BY CountersAre
  <2>2. nevents + SumOver(Early) <= SumOver(Slots("crypto_ok"))
    BY DEF Budget
  <2> QED BY <1>1, <1>2, <1>3, <1>4, <2>1, <2>2
<1> QED BY <1>5, <1>6, <1>7 DEF Budget

LEMMA ReserveAhead ==
  ASSUME NEW s, RunOK(s), s # <<>>, Head(s) = "reserve"
  PROVE  Ahead(s) = 1 /\ Owed(s, "reserve") = 1
<1>1. s \in Seq(Ops) /\ 1 \in DOMAIN s /\ s[1] = "reserve"
  BY DEF RunOK
<1>2. Has(s, "reserve")
  BY <1>1 DEF Has
<1>3. ASSUME NEW j \in DOMAIN s, s[j] = "crypto_ok" PROVE FALSE
  BY <1>1, <1>3 DEF RunOK
<1> QED BY <1>2, <1>3 DEF Ahead, Owed, Has

CountersGrow == \A cpu \in Cpus : \A c \in Counters : counters[cpu][c] <= counters'[cpu][c]

\* What every step of a hook keeps, the arrival of its packet included.
HookKeeps == Hooked' /\ Budget' /\ CountersGrow

LEMMA ArriveKeeps ==
  ASSUME Hooked, Budget, NEW cpu \in Cpus, NEW o \in Seen, Arrive(cpu, o)
  PROVE  HookKeeps
<1> DEFINE t == Program(o)
           n == counters[cpu]
<1>1. /\ Moved(cpu, n, t) /\ run[cpu] = <<>> /\ n \in [Counters -> Nat]
      /\ left' = left - 1 /\ left' \in Nat /\ nevents' = nevents
      /\ RunOK(t) /\ AccOK(n, t)
      /\ Has(t, "reserve") => Has(t, "crypto_ok")
  BY ArriveMoves
<1>2. left \in Nat /\ nevents \in Nat /\ counters' = counters
  BY DEF Hooked, Arrive
<1> HIDE DEF t, n
<1>3. Hooked'
  BY <1>1, <1>2, MovedHooked
<1>4. \A op : Owed(run[cpu], op) = 0 /\ Owed(t, op) \in {0, 1}
  BY <1>1 DEF Owed, Has
<1>5. Ahead(run[cpu]) = 0 /\ Ahead(t) = 0
  BY <1>1 DEF Ahead, Has
<1>6. \A c \in Counters : n[c] \in Nat /\ n[c] = counters[cpu][c]
  BY <1>1 DEF n
<1>7. Budget'
  <2>1. \A c \in Counters :
          n[c] + Owed(t, c) + left' <= counters[cpu][c] + Owed(run[cpu], c) + left
    BY <1>1, <1>2, <1>4, <1>6
  <2>2. nevents' + Owed(t, "reserve") + left' <= nevents + Owed(run[cpu], "reserve") + left
    BY <1>1, <1>2, <1>4
  <2>3. nevents' + Ahead(t) + counters[cpu]["crypto_ok"]
          <= nevents + Ahead(run[cpu]) + n["crypto_ok"]
    BY <1>1, <1>2, <1>5, <1>6, CountersAre
  <2> QED BY <1>1, <1>3, <2>1, <2>2, <2>3, BudgetStep
<1>8. CountersGrow
  <2>1. \A x \in Cpus : \A c \in Counters : counters[x][c] \in Nat
    BY DEF Hooked
  <2> QED BY <1>2, <2>1 DEF CountersGrow
<1> QED BY <1>3, <1>7, <1>8 DEF HookKeeps

LEMMA BumpKeeps ==
  ASSUME Hooked, Budget, NEW cpu \in Cpus, run[cpu] # <<>>, Bump(cpu)
  PROVE  HookKeeps
<1> DEFINE s == run[cpu]
           h == Head(s)
           t == Tail(s)
           n == [counters[cpu] EXCEPT ![h] = @ + 1]
<1>1. /\ Moved(cpu, n, t) /\ n \in [Counters -> Nat] /\ h \in Counters
      /\ RunOK(t) /\ AccOK(n, t) /\ left' = left /\ nevents' = nevents
  BY BumpMoves
<1>2. left \in Nat /\ nevents \in Nat /\ RunOK(s) /\ counters[cpu] \in [Counters -> Nat]
  BY DEF Hooked
<1>3. Has(s, h) /\ \A op : Has(t, op) <=> Has(s, op) /\ h # op
  BY <1>2, TailOK
<1>4. \A c \in Counters : n[c] = (IF c = h THEN counters[cpu][c] + 1 ELSE counters[cpu][c])
                          /\ counters[cpu][c] \in Nat
  BY <1>2
<1>5. h # "reserve"
  BY <1>1, CountersAre
<1> HIDE DEF h, t, n
<1>6. Hooked'
  BY <1>1, <1>2, MovedHooked
<1>7. /\ Owed(s, h) = 1 /\ Owed(t, h) = 0
      /\ \A op : op # h => Owed(t, op) = Owed(s, op)
      /\ \A op : Owed(s, op) \in {0, 1} /\ Owed(t, op) \in {0, 1}
  BY <1>3 DEF Owed
<1>8. /\ h # "crypto_ok" => Ahead(t) = Ahead(s)
      /\ Ahead(s) \in {0, 1} /\ Ahead(t) \in {0, 1}
  BY <1>3, <1>5 DEF Ahead
<1>9. Budget'
  <2>1. \A c \in Counters :
          n[c] + Owed(t, c) + left' <= counters[cpu][c] + Owed(s, c) + left
    BY <1>1, <1>2, <1>4, <1>7
  <2>2. nevents' + Owed(t, "reserve") + left' <= nevents + Owed(s, "reserve") + left
    BY <1>1, <1>2, <1>5, <1>7
  <2>3. nevents' + Ahead(t) + counters[cpu]["crypto_ok"]
          <= nevents + Ahead(s) + n["crypto_ok"]
    <3>1. "crypto_ok" \in Counters
      BY CountersAre
    <3> QED BY <1>1, <1>2, <1>4, <1>8, <3>1
  <2> QED BY <1>1, <1>6, <2>1, <2>2, <2>3, BudgetStep
<1>10. CountersGrow
  <2>1. \A x \in Cpus : counters'[x] = IF x = cpu THEN n ELSE counters[x]
    BY <1>1 DEF Moved, Hooked
  <2>2. \A x \in Cpus : \A c \in Counters : counters[x][c] \in Nat
    BY DEF Hooked
  <2> QED BY <1>4, <2>1, <2>2 DEF CountersGrow
<1> QED BY <1>6, <1>9, <1>10 DEF HookKeeps

LEMMA PublishKeeps ==
  ASSUME Hooked, Budget, NEW cpu \in Cpus, run[cpu] # <<>>,
         Reserve(cpu) \/ Fill(cpu) \/ Submit(cpu)
  PROVE  HookKeeps
<1> DEFINE s == run[cpu]
           n == counters[cpu]
<1>1. PICK t :
           /\ Moved(cpu, n, t) /\ RunOK(t) /\ AccOK(n, t)
           /\ n \in [Counters -> Nat] /\ left' = left
           /\ \A op \in Ops : Has(t, op) => Has(s, op) /\ op # Head(s)
           /\ Has(s, "crypto_ok") => Has(t, "crypto_ok")
           /\ nevents' = nevents \/ (nevents' = nevents + 1 /\ Head(s) = "reserve")
  BY PublishMoves
<1>2. left \in Nat /\ nevents \in Nat /\ RunOK(s) /\ counters' = counters
  BY DEF Hooked, Reserve, Fill, Submit
<1> HIDE DEF n
<1>3. Hooked'
  BY <1>1, <1>2, MovedHooked
<1>4. \A c \in Counters : n[c] \in Nat /\ n[c] = counters[cpu][c]
  BY <1>1 DEF n
<1>5. "reserve" \in Ops /\ "crypto_ok" \in Counters /\ Counters \subseteq Ops
  BY CountersAre DEF Ops
<1>6. /\ \A op \in Ops : Owed(t, op) <= Owed(s, op)
      /\ \A op : Owed(s, op) \in {0, 1} /\ Owed(t, op) \in {0, 1}
      /\ Ahead(t) <= Ahead(s) /\ Ahead(s) \in {0, 1} /\ Ahead(t) \in {0, 1}
  BY <1>1, <1>5 DEF Owed, Ahead
<1>7. nevents' = nevents + 1 /\ Head(s) = "reserve" =>
        /\ Ahead(s) = 1 /\ Owed(s, "reserve") = 1 /\ Ahead(t) = 0 /\ Owed(t, "reserve") = 0
  BY <1>1, <1>2, <1>5, ReserveAhead DEF Ahead, Owed
<1>8. Budget'
  <2>1. \A c \in Counters :
          n[c] + Owed(t, c) + left' <= counters[cpu][c] + Owed(s, c) + left
    BY <1>1, <1>2, <1>4, <1>5, <1>6
  <2>2. nevents' + Owed(t, "reserve") + left' <= nevents + Owed(s, "reserve") + left
    BY <1>1, <1>2, <1>5, <1>6, <1>7
  <2>3. nevents' + Ahead(t) + counters[cpu]["crypto_ok"]
          <= nevents + Ahead(s) + n["crypto_ok"]
    BY <1>1, <1>2, <1>4, <1>5, <1>6, <1>7
  <2> QED BY <1>1, <1>3, <2>1, <2>2, <2>3, BudgetStep
<1>9. CountersGrow
  <2>1. \A x \in Cpus : \A c \in Counters : counters[x][c] \in Nat
    BY DEF Hooked
  <2> QED BY <1>2, <2>1 DEF CountersGrow
<1> QED BY <1>3, <1>8, <1>9 DEF HookKeeps

----------------------------------------------------------------------------
(* The ring: its records and the printed ones are all that were reserved, in *)
(* the order of their ids.  A record not filled in belongs to a CPU whose     *)
(* next operation fills it, so it is busy and the loop does not take it.      *)

Rec == [id : Nat, cpu : Cpus, filled : BOOLEAN, busy : BOOLEAN]

Fills(s) == s # <<>> /\ Head(s) = "fill"

RingInv ==
  /\ ring \in Seq(Rec) /\ printed \in Seq(Rec) /\ Len(ring) <= RingSize
  /\ nevents = Len(printed) + Len(ring)
  /\ \A i \in DOMAIN printed : printed[i].id = i /\ printed[i].filled
  /\ \A i \in DOMAIN ring : ring[i].id = Len(printed) + i
  /\ \A i \in DOMAIN ring : ~ring[i].filled => ring[i].busy /\ Fills(run[ring[i].cpu])

LEMMA RingTypes ==
  ASSUME RingInv
  PROVE  /\ \A i \in DOMAIN ring : ring[i] \in Rec
         /\ DOMAIN ring = 1..Len(ring) /\ Len(ring) \in Nat /\ Len(printed) \in Nat
BY DEF RingInv

\* The loop's steps other than Consume.
LEMMA RingStays ==
  ASSUME RingInv, ring' = ring, printed' = printed, nevents' = nevents, run' = run
  PROVE  RingInv'
BY DEF RingInv, Fills

\* A CPU that has no record to fill moves and leaves the ring alone.
LEMMA RingAlone ==
  ASSUME RingInv, Hooked, NEW cpu \in Cpus, NEW n, NEW t, Moved(cpu, n, t), ~Fills(run[cpu]),
         ring' = ring, printed' = printed, nevents' = nevents
  PROVE  RingInv'
<1>1. \A x \in Cpus : x # cpu => run'[x] = run[x]
  BY DEF Moved, Hooked
<1>2. \A i \in DOMAIN ring : ring[i].cpu \in Cpus
  BY RingTypes DEF Rec
<1>3. \A i \in DOMAIN ring : ~ring[i].filled => ring[i].cpu # cpu
  BY DEF RingInv
<1>4. \A i \in DOMAIN ring : ~ring[i].filled => ring[i].busy /\ Fills(run'[ring[i].cpu])
  BY <1>1, <1>2, <1>3 DEF RingInv, Fills
<1> QED BY <1>4 DEF RingInv

LEMMA RingReserve ==
  ASSUME RingInv, Hooked, NEW cpu \in Cpus, run[cpu] # <<>>, Reserve(cpu), printed' = printed
  PROVE  RingInv'
<1> DEFINE s == run[cpu]
           r == [id |-> nevents + 1, cpu |-> cpu, filled |-> FALSE, busy |-> TRUE]
<1>1. RunOK(s) /\ s \in Seq(Ops) /\ s # <<>> /\ s[1] = "reserve" /\ 1 \in DOMAIN s
  BY DEF Hooked, RunOK, Reserve
<1>2. ~Fills(run[cpu])
  BY DEF Fills, Reserve
<1>3. CASE Len(ring) < RingSize
  <2>1. ring' = Append(ring, r) /\ nevents' = nevents + 1 /\ run' = [run EXCEPT ![cpu] = Tail(s)]
    <3>1. Len(ring) # RingSize
      BY <1>3
    <3> QED BY <3>1 DEF Reserve, Advance
  <2>2. Tail(s) # <<>> /\ Head(Tail(s)) = "fill"
    <3>1. 1 + 2 \in DOMAIN s /\ s[1 + 1] = "fill"
      BY <1>1 DEF RunOK
    <3>2. Len(s) >= 3 /\ s[2] = "fill"
      BY <1>1, <3>1
    <3> HIDE DEF s
    <3>3. Tail(s) \in Seq(Ops) /\ Len(Tail(s)) = Len(s) - 1
      BY <1>1
    <3>4. Tail(s)[1] = s[1 + 1]
      BY <1>1, <3>2
    <3>5. Tail(s) # <<>>
      <4> DEFINE u == Tail(s)
      <4>1. u \in Seq(Ops) /\ Len(u) >= 2
        BY <3>2, <3>3
      <4> HIDE DEF u
      <4>2. u # <<>>
        BY <4>1
      <4> QED BY <4>2 DEF u
    <3>6. Head(Tail(s)) = Tail(s)[1]
      BY <3>3, <3>5
    <3> QED BY <3>2, <3>4, <3>5, <3>6
  <2>3. run'[cpu] = Tail(s) /\ \A x \in Cpus : x # cpu => run'[x] = run[x]
    BY <2>1 DEF Hooked
  <2>4. Fills(run'[cpu]) /\ \A x \in Cpus : x # cpu => (Fills(run'[x]) <=> Fills(run[x]))
    BY <2>2, <2>3 DEF Fills
  <2>5. /\ nevents \in Nat /\ r \in Rec /\ r.id = nevents + 1 /\ r.cpu = cpu
        /\ ~r.filled /\ r.busy
    BY DEF Hooked, Rec
  <2> HIDE DEF r
  <2>6. /\ ring' \in Seq(Rec) /\ Len(ring') = Len(ring) + 1 /\ DOMAIN ring' = 1..(Len(ring) + 1)
        /\ ring'[Len(ring) + 1] = r /\ \A i \in DOMAIN ring : ring'[i] = ring[i]
    BY <2>1, <2>5 DEF RingInv
  <2>7. \A i \in DOMAIN ring' : i \in DOMAIN ring \/ i = Len(ring) + 1
    BY <2>6, RingTypes
  <2>8. \A i \in DOMAIN ring : /\ ring[i].id = Len(printed) + i /\ ring[i].cpu \in Cpus
                               /\ ~ring[i].filled => ring[i].busy /\ Fills(run[ring[i].cpu])
    BY RingTypes DEF RingInv, Rec
  <2>9. \A i \in DOMAIN ring' : ring'[i].id = Len(printed') + i
    <3>1. r.id = Len(printed) + (Len(ring) + 1)
      BY <2>5, RingTypes DEF RingInv
    <3> QED BY <2>6, <2>7, <2>8, <3>1
  <2>10. \A i \in DOMAIN ring' : ~ring'[i].filled => ring'[i].busy /\ Fills(run'[ring'[i].cpu])
    BY <1>2, <2>4, <2>5, <2>6, <2>7, <2>8
  <2>11. Len(ring') <= RingSize /\ nevents' = Len(printed') + Len(ring')
    BY <1>3, <2>1, <2>6, RingTypes, RuntimeAssumption DEF RingInv
  <2> QED BY <2>6, <2>9, <2>10, <2>11 DEF RingInv
<1>4. CASE ~(Len(ring) < RingSize)
  <2>1. run' = [run EXCEPT ![cpu] = SubSeq(s, Len(Publish) + 1, Len(s))]
        /\ ring' = ring /\ nevents' = nevents /\ counters' = counters
    BY <1>4 DEF Reserve
  <2>2. counters' = [counters EXCEPT ![cpu] = counters[cpu]]
    BY <2>1 DEF Hooked
  <2>3. Moved(cpu, counters[cpu], SubSeq(s, Len(Publish) + 1, Len(s)))
    BY <2>1, <2>2 DEF Moved
  <2> HIDE DEF s
  <2> QED BY <1>2, <2>1, <2>3, RingAlone
<1> QED BY <1>3, <1>4

\* Fill and Submit change the records of their CPU in place.
LEMMA RingWrite ==
  ASSUME RingInv, Hooked, NEW cpu \in Cpus, run[cpu] # <<>>, Fill(cpu) \/ Submit(cpu),
         printed' = printed
  PROVE  RingInv'
<1>1. \A i \in DOMAIN ring : /\ ring[i].id = Len(printed) + i /\ ring[i] \in Rec
                             /\ ~ring[i].filled => ring[i].busy /\ Fills(run[ring[i].cpu])
  BY RingTypes DEF RingInv
<1>2. \A x \in Cpus : x # cpu => run'[x] = run[x]
  BY DEF Fill, Submit, Advance, Hooked
<1>3. nevents' = nevents
  BY DEF Fill, Submit
<1>4. /\ ring' = [i \in DOMAIN ring |-> ring'[i]]
      /\ \A i \in DOMAIN ring :
           /\ ring'[i] \in Rec /\ ring'[i].id = ring[i].id /\ ring'[i].cpu = ring[i].cpu
           /\ ring[i].cpu # cpu => ring'[i] = ring[i]
           /\ ring[i].cpu = cpu => ring'[i].filled
  <2>1. CASE Fill(cpu)
    <3>1. ring' = [i \in DOMAIN ring |->
               IF ring[i].cpu = cpu /\ ~ring[i].filled THEN [ring[i] EXCEPT !.filled = TRUE]
               ELSE ring[i]]
      BY <2>1 DEF Fill
    <3>2. \A x \in Rec : LET y == [x EXCEPT !.filled = TRUE]
                         IN  y \in Rec /\ y.id = x.id /\ y.cpu = x.cpu /\ y.filled
      BY DEF Rec
    <3> QED BY <1>1, <3>1, <3>2
  <2>2. CASE Submit(cpu)
    <3>1. ring' = [i \in DOMAIN ring |->
               IF ring[i].cpu = cpu THEN [ring[i] EXCEPT !.busy = FALSE] ELSE ring[i]]
      BY <2>2 DEF Submit
    <3>2. \A x \in Rec : LET y == [x EXCEPT !.busy = FALSE]
                         IN  y \in Rec /\ y.id = x.id /\ y.cpu = x.cpu /\ y.filled = x.filled
      BY DEF Rec
    <3>3. ~Fills(run[cpu])
      BY <2>2 DEF Submit, Fills
    <3>4. \A i \in DOMAIN ring : ring[i].cpu = cpu => ring[i].filled
      BY <1>1, <3>3
    <3> QED BY <1>1, <3>1, <3>2, <3>4
  <2> QED BY <2>1, <2>2
<1>5. ring' \in Seq(Rec) /\ Len(ring') = Len(ring) /\ DOMAIN ring' = DOMAIN ring
  <2>1. ring' \in [1..Len(ring) -> Rec] /\ Len(ring) \in Nat
    BY <1>4, RingTypes
  <2> QED BY <2>1, RingTypes
<1>6. \A i \in DOMAIN ring' : ring'[i].id = Len(printed') + i
  BY <1>1, <1>4, <1>5
<1>7. \A i \in DOMAIN ring' : ~ring'[i].filled => ring'[i].busy /\ Fills(run'[ring'[i].cpu])
  <2> SUFFICES ASSUME NEW i \in DOMAIN ring, ~ring'[i].filled
               PROVE  ring'[i].busy /\ Fills(run'[ring'[i].cpu])
    BY <1>5
  <2>1. ring[i].cpu # cpu /\ ring'[i] = ring[i] /\ ring[i].cpu \in Cpus
    BY <1>1, <1>4 DEF Rec
  <2>2. ring[i].busy /\ Fills(run[ring[i].cpu])
    BY <1>1, <2>1
  <2> QED BY <1>2, <2>1, <2>2
<1> QED BY <1>3, <1>5, <1>6, <1>7 DEF RingInv

LEMMA RingConsume ==
  ASSUME RingInv, Consume
  PROVE  RingInv'
<1>1. /\ ring # <<>> /\ ~Head(ring).busy /\ printed' = Append(printed, Head(ring))
      /\ ring' = Tail(ring) /\ run' = run /\ nevents' = nevents
  BY DEF Consume, hooks
<1>2. ring \in Seq(Rec) /\ printed \in Seq(Rec) /\ Len(ring) \in Nat /\ Len(ring) >= 1
  BY <1>1 DEF RingInv
<1>3. /\ Head(ring) = ring[1] /\ 1 \in DOMAIN ring /\ ring[1] \in Rec
      /\ Tail(ring) \in Seq(Rec) /\ Len(Tail(ring)) = Len(ring) - 1
      /\ \A i \in DOMAIN Tail(ring) : Tail(ring)[i] = ring[i + 1] /\ i + 1 \in DOMAIN ring
  BY <1>1, <1>2
<1>4. ring[1].id = Len(printed) + 1 /\ ring[1].filled
  BY <1>1, <1>3 DEF RingInv
<1>5. /\ printed' \in Seq(Rec) /\ Len(printed') = Len(printed) + 1
      /\ printed'[Len(printed) + 1] = ring[1]
      /\ \A i \in DOMAIN printed : printed'[i] = printed[i]
      /\ \A i \in DOMAIN printed' : i \in DOMAIN printed \/ i = Len(printed) + 1
  BY <1>1, <1>2, <1>3
<1>6. \A i \in DOMAIN printed' : printed'[i].id = i /\ printed'[i].filled
  BY <1>4, <1>5 DEF RingInv
<1>7. \A i \in DOMAIN ring' : ring'[i].id = Len(printed') + i
  <2> SUFFICES ASSUME NEW i \in DOMAIN Tail(ring)
               PROVE  Tail(ring)[i].id = Len(printed') + i
    BY <1>1
  <2>1. ring[i + 1].id = Len(printed) + (i + 1) /\ i \in Nat
    BY <1>3 DEF RingInv
  <2> QED BY <1>2, <1>3, <1>5, <2>1
<1>8. \A i \in DOMAIN ring' : ~ring'[i].filled => ring'[i].busy /\ Fills(run'[ring'[i].cpu])
  BY <1>1, <1>3 DEF RingInv, Fills
<1>9. Len(ring') <= RingSize /\ nevents' = Len(printed') + Len(ring')
  BY <1>1, <1>2, <1>3, <1>5, RuntimeAssumption DEF RingInv
<1>10. ring' \in Seq(Rec)
  BY <1>1, <1>3
<1> QED BY <1>5, <1>6, <1>7, <1>8, <1>9, <1>10 DEF RingInv

----------------------------------------------------------------------------
(* What print_stats has read: the slots in their order, each a value its   *)
(* counter has had.                                                        *)

LEMMA Positions ==
  /\ Len(Fields) = 6
  /\ \A i \in 1..6 : Fields[i] \in Counters /\ Position(Fields[i]) = i
  /\ \A c \in Counters : Position(c) \in 1..6 /\ Fields[Position(c)] = c
<1>1. Len(Fields) = 6 /\ DOMAIN Fields = 1..6
  BY DEF Fields
<1>2. /\ Fields[1] = "seen" /\ Fields[2] = "passed" /\ Fields[3] = "crypto_ok"
      /\ Fields[4] = "crypto_fail" /\ Fields[5] = "malformed" /\ Fields[6] = "reason"
  BY DEF Fields
<1>3. \A i, j \in 1..6 : Fields[i] = Fields[j] => i = j
  BY <1>2
<1>4. \A i \in 1..6 : Fields[i] \in Counters
  BY <1>1 DEF Counters
<1>5. \A c \in Counters : \E i \in 1..6 : Fields[i] = c
  BY <1>1 DEF Counters
<1>6. \A c \in Counters : Position(c) \in 1..6 /\ Fields[Position(c)] = c
  BY <1>1, <1>5 DEF Position
<1>7. \A i \in 1..6 : Position(Fields[i]) = i
  <2> SUFFICES ASSUME NEW i \in 1..6 PROVE Position(Fields[i]) = i
    OBVIOUS
  <2>1. Fields[i] \in Counters
    BY <1>4
  <2>2. Position(Fields[i]) \in 1..6 /\ Fields[Position(Fields[i])] = Fields[i]
    BY <1>6, <2>1
  <2> QED BY <1>3, <2>2
<1> QED BY <1>1, <1>4, <1>6, <1>7

LEMMA SlotIs ==
  ASSUME NEW cpu \in Cpus, NEW c \in Counters
  PROVE  /\ Slot(cpu, c) = (cpu - 1) * 6 + Position(c)
         /\ Slot(cpu, c) \in 1..(6 * NCpus)
<1>1. Slot(cpu, c) = (cpu - 1) * 6 + Position(c)
  BY Positions DEF Slot
<1>2. cpu \in Nat /\ 1 <= cpu /\ cpu <= NCpus /\ NCpus \in Nat
  BY RuntimeAssumption DEF Cpus
<1>3. Position(c) \in Nat /\ 1 <= Position(c) /\ Position(c) <= 6
  BY Positions
<1> QED BY <1>1, <1>2, <1>3

LEMMA SlotOne ==
  ASSUME NEW cpu \in Cpus, NEW c \in Counters, NEW x \in Cpus, NEW d \in Counters,
         Slot(cpu, c) = Slot(x, d)
  PROVE  cpu = x /\ c = d
<1>1. (cpu - 1) * 6 + Position(c) = (x - 1) * 6 + Position(d)
  BY SlotIs
<1>2. cpu \in Nat /\ x \in Nat
  BY DEF Cpus
<1>3. Position(c) \in 1..6 /\ Position(d) \in 1..6
  BY Positions
<1>4. cpu = x /\ Position(c) = Position(d)
  BY <1>1, <1>2, <1>3
<1> QED BY <1>4, Positions

LEMMA ReadSlot ==
  ASSUME Len(values) \in Nat, Len(values) < 6 * NCpus
  PROVE  ReadCpu \in Cpus /\ ReadField \in Counters /\ Slot(ReadCpu, ReadField) = Len(values) + 1
<1> DEFINE m == Len(values)
           q == m \div 6
           r == m % 6
<1>1. m \in Nat /\ m < 6 * NCpus /\ NCpus \in Nat
  BY RuntimeAssumption
<1>2. ReadCpu = q + 1 /\ ReadField = Fields[r + 1]
  BY Positions DEF ReadCpu, ReadField
<1> HIDE DEF m
<1>3. q \in Nat /\ r \in 0..5 /\ m = 6 * q + r
  BY <1>1
<1> HIDE DEF q, r
<1>4. q + 1 \in Cpus /\ r + 1 \in 1..6
  BY <1>1, <1>3 DEF Cpus
<1>5. ReadField \in Counters /\ Position(ReadField) = r + 1
  BY <1>2, <1>4, Positions
<1>6. Slot(ReadCpu, ReadField) = ((q + 1) - 1) * 6 + (r + 1)
  BY <1>2, <1>4, <1>5, SlotIs
<1>7. Slot(ReadCpu, ReadField) = m + 1
  BY <1>3, <1>6
<1> QED BY <1>2, <1>4, <1>5, <1>7 DEF m

ReadInv ==
  /\ values \in Seq(Nat) /\ Len(values) <= 6 * NCpus
  /\ values # <<>> => pc = "print"
  /\ \A i \in DOMAIN values : values[i] <= Packets
  /\ \A cpu \in Cpus : \A c \in Counters :
       Slot(cpu, c) \in DOMAIN values => values[Slot(cpu, c)] <= counters[cpu][c]

\* A counter as the line being read shows it, if the rest is read at once.
Copied(c) ==
  [cpu \in Cpus |-> IF Slot(cpu, c) \in DOMAIN values THEN values[Slot(cpu, c)]
                    ELSE counters[cpu][c]]

Copy(c) == SumOver(Copied(c))

LEMMA CopyType ==
  ASSUME Hooked, ReadInv
  PROVE  \A c \in Counters : /\ Copied(c) \in [Cpus -> Nat] /\ Copy(c) \in Nat
                             /\ Copy(c) <= SumOver(Slots(c))
<1> SUFFICES ASSUME NEW c \in Counters
             PROVE  /\ Copied(c) \in [Cpus -> Nat] /\ Copy(c) \in Nat
                    /\ Copy(c) <= SumOver(Slots(c))
  OBVIOUS
<1>1. \A i \in DOMAIN values : values[i] \in Nat
  BY DEF ReadInv
<1>2. \A cpu \in Cpus : counters[cpu][c] \in Nat
  BY DEF Hooked
<1>3. Copied(c) \in [Cpus -> Nat]
  BY <1>1, <1>2 DEF Copied
<1>4. Slots(c) \in [Cpus -> Nat]
  BY SumTypes
<1>5. \A cpu \in Cpus : Copied(c)[cpu] <= Slots(c)[cpu]
  BY <1>1, <1>2 DEF Copied, Slots, ReadInv
<1> QED BY <1>3, <1>4, <1>5, SumOverType, SumGrows DEF Copy

CopyGrows == \A c \in Counters : Copy(c) <= Copy(c)'

\* The hooks count while the line is read.
LEMMA HooksCopy ==
  ASSUME Hooked, Hooked', ReadInv, CountersGrow, values' = values, pc' = pc
  PROVE  ReadInv' /\ CopyGrows
<1>1. \A cpu \in Cpus : \A c \in Counters :
        /\ counters[cpu][c] \in Nat /\ counters'[cpu][c] \in Nat
        /\ counters[cpu][c] <= counters'[cpu][c]
  BY DEF Hooked, CountersGrow
<1>2. \A i \in DOMAIN values : values[i] \in Nat
  BY DEF ReadInv
<1>3. ReadInv'
  <2>1. ASSUME NEW cpu \in Cpus, NEW c \in Counters, Slot(cpu, c) \in DOMAIN values
        PROVE  values[Slot(cpu, c)] <= counters'[cpu][c]
    <3>1. values[Slot(cpu, c)] <= counters[cpu][c]
      BY <2>1 DEF ReadInv
    <3> QED BY <1>1, <1>2, <2>1, <3>1
  <2> QED BY <2>1 DEF ReadInv
<1>4. ASSUME NEW c \in Counters PROVE Copy(c) <= Copy(c)'
  <2> DEFINE a == Copied(c)
             b == Copied(c)'
  <2>1. \A cpu \in Cpus :
          /\ a[cpu] = (IF Slot(cpu, c) \in DOMAIN values THEN values[Slot(cpu, c)]
                       ELSE counters[cpu][c])
          /\ b[cpu] = (IF Slot(cpu, c) \in DOMAIN values THEN values[Slot(cpu, c)]
                       ELSE counters'[cpu][c])
    BY DEF Copied
  <2>2. a \in [Cpus -> Nat] /\ b \in [Cpus -> Nat]
    BY <1>1, <1>2 DEF Copied
  <2> HIDE DEF a, b
  <2>3. \A cpu \in Cpus : a[cpu] <= b[cpu]
    BY <1>1, <1>2, <2>1
  <2>4. SumOver(a) <= SumOver(b)
    BY <2>2, <2>3, SumGrows
  <2> QED BY <2>4 DEF Copy, a, b
<1> QED BY <1>3, <1>4 DEF CopyGrows

\* One more value read changes nothing in what the line will show.
LEMMA ReadCopy ==
  ASSUME Hooked, Budget, ReadInv, Read
  PROVE  ReadInv' /\ CopyGrows
<1> DEFINE m == Len(values) + 1
           v == counters[ReadCpu][ReadField]
<1>1. /\ pc = "print" /\ pc' = pc /\ Len(values) < 6 * NCpus
      /\ values' = Append(values, v) /\ counters' = counters
  BY Positions DEF Read, hooks
<1>2. values \in Seq(Nat) /\ Len(values) \in Nat /\ \A i \in DOMAIN values : values[i] \in Nat
  BY DEF ReadInv
<1>3. ReadCpu \in Cpus /\ ReadField \in Counters /\ Slot(ReadCpu, ReadField) = m
  BY <1>1, <1>2, ReadSlot
<1>4. \A cpu \in Cpus : \A c \in Counters : counters[cpu][c] \in Nat
  BY DEF Hooked
<1>5. v \in Nat /\ v <= Packets
  <2> DEFINE h == Slots(ReadField)
  <2>1. h \in [Cpus -> Nat] /\ h[ReadCpu] = v
    BY <1>3, SumTypes DEF Slots
  <2> HIDE DEF h
  <2>2. h[ReadCpu] <= SumOver(h) /\ SumOver(h) \in Nat /\ h[ReadCpu] \in Nat
    BY <1>3, <2>1, PartOfSum, SumOverType
  <2>3. SumOver(h) + SumOver(Owing(ReadField)) + left <= Packets
    BY <1>3 DEF Budget, h
  <2>4. SumOver(Owing(ReadField)) \in Nat /\ left \in Nat
    BY <1>3, SumTypes DEF Ops, Hooked
  <2> HIDE DEF v
  <2> QED BY <2>1, <2>2, <2>3, <2>4, RuntimeAssumption
<1> HIDE DEF v
<1>6. /\ values' \in Seq(Nat) /\ Len(values') = m
      /\ values'[m] = v /\ \A i \in DOMAIN values : values'[i] = values[i]
      /\ \A i \in DOMAIN values' : i \in DOMAIN values \/ i = m
      /\ m \in DOMAIN values' /\ DOMAIN values \subseteq DOMAIN values' /\ m \notin DOMAIN values
  BY <1>1, <1>2, <1>5
<1> HIDE DEF m
<1>7. \A cpu \in Cpus : \A c \in Counters : Slot(cpu, c) = m => counters[cpu][c] = v
  BY <1>3, SlotOne DEF v
<1>8. ReadInv'
  <2>1. Len(values') <= 6 * NCpus
    BY <1>1, <1>2, <1>6, RuntimeAssumption DEF m
  <2>2. \A i \in DOMAIN values' : values'[i] <= Packets
    BY <1>5, <1>6 DEF ReadInv
  <2>3. ASSUME NEW cpu \in Cpus, NEW c \in Counters, Slot(cpu, c) \in DOMAIN values'
        PROVE  values'[Slot(cpu, c)] <= counters'[cpu][c]
    <3>1. CASE Slot(cpu, c) \in DOMAIN values
      BY <1>1, <1>6, <3>1 DEF ReadInv
    <3>2. CASE Slot(cpu, c) = m
      <4>1. values'[Slot(cpu, c)] = v /\ counters'[cpu][c] = v
        BY <1>1, <1>6, <1>7, <3>2
      <4> QED BY <1>5, <4>1
    <3> QED BY <1>6, <2>3, <3>1, <3>2
  <2> QED BY <1>1, <1>6, <2>1, <2>2, <2>3 DEF ReadInv
<1>9. ASSUME NEW c \in Counters PROVE Copied(c)' = Copied(c)
  <2>1. ASSUME NEW cpu \in Cpus
        PROVE  (IF Slot(cpu, c) \in DOMAIN values' THEN values'[Slot(cpu, c)]
                ELSE counters'[cpu][c])
             = (IF Slot(cpu, c) \in DOMAIN values THEN values[Slot(cpu, c)]
                ELSE counters[cpu][c])
    BY <1>1, <1>6, <1>7
  <2> QED BY <2>1 DEF Copied
<1>10. \A c \in Counters : Copy(c) \in Nat
  BY CopyType
<1> QED BY <1>8, <1>9, <1>10 DEF CopyGrows, Copy

LEMMA NoneRead ==
  ASSUME values = <<>>
  PROVE  \A c \in Counters : Copy(c) = SumOver(Slots(c))
<1> SUFFICES ASSUME NEW c \in Counters PROVE Copied(c) = Slots(c)
  BY DEF Copy
<1>1. \A cpu \in Cpus : Slot(cpu, c) \notin DOMAIN values
  OBVIOUS
<1> QED BY <1>1 DEF Copied, Slots

LEMMA SameCopy ==
  ASSUME Hooked, ReadInv, values' = values, counters' = counters,
         values' # <<>> => pc' = "print"
  PROVE  ReadInv' /\ CopyGrows
<1>1. ReadInv'
  BY DEF ReadInv
<1>2. \A c \in Counters : Copied(c)' = Copied(c)
  BY DEF Copied
<1>3. \A c \in Counters : Copy(c) \in Nat
  BY CopyType
<1> QED BY <1>1, <1>2, <1>3 DEF CopyGrows, Copy

----------------------------------------------------------------------------
(* The lines: one line holds no more than the one being read, and what one  *)
(* counts as an outcome the next counts as seen.                            *)

LineInv ==
  /\ prev \in [Counters -> Nat] /\ last \in [Counters -> Nat]
  /\ \A c \in Counters : prev[c] <= last[c] /\ last[c] <= Copy(c)
  /\ \A x \in Transformed : /\ prev["passed"] + prev[x] <= last["seen"]
                            /\ last["passed"] + last[x] <= Copy("seen")
  /\ prev["reason"] <= last["malformed"] /\ last["reason"] <= Copy("malformed")
  /\ Len(printed) <= Copy("crypto_ok")

LEMMA LineStays ==
  ASSUME Hooked, Hooked', ReadInv, ReadInv', RingInv, LineInv, CopyGrows,
         prev' = prev, last' = last, printed' = printed
  PROVE  LineInv'
<1>1. \A c \in Counters : Copy(c) \in Nat
  BY CopyType
<1>2. \A c \in Counters : Copy(c)' \in Nat
  <2> SUFFICES ASSUME NEW c \in Counters PROVE Copy(c)' \in Nat
    OBVIOUS
  <2>1. Copied(c)' \in [Cpus -> Nat]
    BY DEF Copied, Hooked, ReadInv
  <2> QED BY <2>1, SumOverType DEF Copy
<1>3. \A c \in Counters : last[c] \in Nat
  BY DEF LineInv
<1>4. \A c \in Counters : Copy(c) <= Copy(c)'
  BY DEF CopyGrows
<1>5. \A x \in Transformed : x \in Counters
  BY CountersAre DEF Transformed
<1>6. \A c \in Counters : last[c] <= Copy(c)'
  BY <1>1, <1>2, <1>3, <1>4 DEF LineInv
<1>7. \A x \in Transformed : last["passed"] + last[x] <= Copy("seen")'
  <2> SUFFICES ASSUME NEW x \in Transformed PROVE last["passed"] + last[x] <= Copy("seen")'
    OBVIOUS
  <2>1. last["passed"] + last[x] <= Copy("seen")
    BY DEF LineInv
  <2>2. last["passed"] + last[x] \in Nat /\ Copy("seen") \in Nat /\ Copy("seen")' \in Nat
        /\ Copy("seen") <= Copy("seen")'
    BY <1>1, <1>2, <1>3, <1>4, <1>5, CountersAre
  <2> QED BY <2>1, <2>2
<1>8. last["reason"] <= Copy("malformed")'
  <2>1. "reason" \in Counters /\ "malformed" \in Counters
    BY CountersAre
  <2> QED BY <1>1, <1>2, <1>3, <1>4, <2>1 DEF LineInv
<1>9. Len(printed) <= Copy("crypto_ok")'
  <2>1. "crypto_ok" \in Counters /\ Len(printed) \in Nat /\ Len(printed) <= Copy("crypto_ok")
    BY CountersAre, RingTypes DEF LineInv
  <2>2. /\ Copy("crypto_ok") \in Nat /\ Copy("crypto_ok")' \in Nat
        /\ Copy("crypto_ok") <= Copy("crypto_ok")'
    BY <1>1, <1>2, <1>4, <2>1
  <2> QED BY <2>1, <2>2
<1> QED BY <1>6, <1>7, <1>8, <1>9 DEF LineInv

\* The counters of all CPUs at one instant: an outcome is never ahead of seen.
LEMMA TotalsLaw ==
  ASSUME Hooked
  PROVE  /\ \A x \in Transformed :
              SumOver(Slots("passed")) + SumOver(Slots(x)) <= SumOver(Slots("seen"))
         /\ SumOver(Slots("reason")) <= SumOver(Slots("malformed"))
<1>1. \A c \in Counters : Slots(c) \in [Cpus -> Nat] /\ \A cpu \in Cpus : Slots(c)[cpu] = counters[cpu][c]
  BY SumTypes DEF Slots
<1>2. \A cpu \in Cpus : AccOK(counters[cpu], run[cpu])
  BY DEF Hooked
<1>3. ASSUME NEW x \in Transformed
      PROVE  SumOver(Slots("passed")) + SumOver(Slots(x)) <= SumOver(Slots("seen"))
  <2> DEFINE a == Slots("passed")
             b == Slots(x)
             d == Slots("seen")
  <2>1. x \in Counters /\ "passed" \in Counters /\ "seen" \in Counters
    BY CountersAre DEF Transformed
  <2>2. a \in [Cpus -> Nat] /\ b \in [Cpus -> Nat] /\ d \in [Cpus -> Nat] /\ None \in [Cpus -> Nat]
    BY <1>1, <2>1 DEF None
  <2>3. \A cpu \in Cpus : a[cpu] + b[cpu] <= d[cpu]
    BY <1>1, <1>2, <2>1 DEF AccOK
  <2> HIDE DEF a, b, d
  <2>4. \A cpu \in Cpus : a[cpu] + b[cpu] <= d[cpu] + None[cpu]
    BY <2>2, <2>3 DEF None
  <2>5. SumOver(a) + SumOver(b) <= SumOver(d) + SumOver(None)
    BY <2>2, <2>4, SumLaw
  <2>6. SumOver(a) + SumOver(b) <= SumOver(d)
    BY <2>2, <2>5, SumOfNone, SumOverType
  <2> QED BY <2>6 DEF a, b, d
<1>4. SumOver(Slots("reason")) <= SumOver(Slots("malformed"))
  <2>1. "reason" \in Counters /\ "malformed" \in Counters
    BY CountersAre
  <2>2. \A cpu \in Cpus : Slots("reason")[cpu] <= Slots("malformed")[cpu]
    BY <1>1, <1>2, <2>1 DEF AccOK
  <2> QED BY <1>1, <2>1, <2>2, SumGrows
<1> QED BY <1>3, <1>4

\* The line is what had been read of each counter.
LEMMA LineIs ==
  ASSUME ReadInv, Len(values) = Len(Fields) * NCpus
  PROVE  \A c \in Counters : Line[c] = Copy(c)
<1> SUFFICES ASSUME NEW c \in Counters PROVE Line[c] = Copy(c)
  OBVIOUS
<1>1. \A cpu \in Cpus : Slot(cpu, c) \in DOMAIN values
  <2>1. DOMAIN values = 1..(6 * NCpus)
    BY Positions DEF ReadInv
  <2> QED BY <2>1, SlotIs
<1>2. Copied(c) = [cpu \in Cpus |-> values[Slot(cpu, c)]]
  BY <1>1 DEF Copied
<1> QED BY <1>2 DEF Line, Copy

LEMMA PrintLine ==
  ASSUME Hooked, ReadInv, RingInv, LineInv, PrintStats
  PROVE  ReadInv' /\ LineInv'
<1>1. /\ pc = "print" /\ Len(values) = Len(Fields) * NCpus /\ prev' = last /\ last' = Line
      /\ values' = <<>> /\ counters' = counters /\ printed' = printed
  BY DEF PrintStats, hooks
<1>2. \A c \in Counters : last'[c] = Copy(c)
  BY <1>1, LineIs
<1>3. \A c \in Counters : Copy(c) \in Nat /\ Copy(c) <= SumOver(Slots(c))
  BY CopyType
<1>4. ReadInv'
  BY <1>1, RuntimeAssumption DEF ReadInv
<1>5. \A c \in Counters : Copy(c)' = SumOver(Slots(c)) /\ SumOver(Slots(c)) \in Nat
  <2> SUFFICES ASSUME NEW c \in Counters PROVE Copied(c)' = Slots(c)
    BY SumTypes DEF Copy
  <2> QED BY <1>1 DEF Copied, Slots
<1>6. \A x \in Transformed : x \in Counters
  BY CountersAre DEF Transformed
<1>7. last' \in [Counters -> Nat] /\ prev' \in [Counters -> Nat]
  BY <1>1, <1>2, <1>3 DEF Line, LineInv
<1>8. ASSUME NEW x \in Transformed
      PROVE  /\ prev'["passed"] + prev'[x] <= last'["seen"]
             /\ last'["passed"] + last'[x] <= Copy("seen")'
  <2>1. "passed" \in Counters /\ "seen" \in Counters /\ x \in Counters
    BY <1>6, CountersAre
  <2>2. last["passed"] + last[x] <= Copy("seen")
    BY DEF LineInv
  <2>3. SumOver(Slots("passed")) + SumOver(Slots(x)) <= SumOver(Slots("seen"))
    BY TotalsLaw
  <2>4. /\ last'["passed"] = Copy("passed") /\ last'[x] = Copy(x) /\ last'["seen"] = Copy("seen")
        /\ Copy("seen")' = SumOver(Slots("seen"))
    BY <1>2, <1>5, <2>1
  <2>5. /\ Copy("passed") \in Nat /\ Copy(x) \in Nat
        /\ Copy("passed") <= SumOver(Slots("passed")) /\ Copy(x) <= SumOver(Slots(x))
        /\ SumOver(Slots("passed")) \in Nat /\ SumOver(Slots(x)) \in Nat
        /\ SumOver(Slots("seen")) \in Nat
    BY <1>3, <1>5, <2>1
  <2>6. Copy("passed") + Copy(x) <= SumOver(Slots("seen"))
    BY <2>3, <2>5
  <2> QED BY <1>1, <2>2, <2>4, <2>6
<1>9. prev'["reason"] <= last'["malformed"] /\ last'["reason"] <= Copy("malformed")'
  <2>1. "reason" \in Counters /\ "malformed" \in Counters
    BY CountersAre
  <2>2. SumOver(Slots("reason")) <= SumOver(Slots("malformed"))
    BY TotalsLaw
  <2>3. last["reason"] <= Copy("malformed")
    BY DEF LineInv
  <2>4. Copy("reason") <= SumOver(Slots("malformed"))
    BY <1>3, <1>5, <2>1, <2>2
  <2> QED BY <1>1, <1>2, <1>5, <2>1, <2>3, <2>4
<1>10. Len(printed') <= Copy("crypto_ok")'
  <2>1. "crypto_ok" \in Counters /\ Len(printed) \in Nat /\ Len(printed) <= Copy("crypto_ok")
    BY CountersAre, RingTypes DEF LineInv
  <2> QED BY <1>1, <1>3, <1>5, <2>1
<1>11. \A c \in Counters : prev'[c] <= last'[c] /\ last'[c] <= Copy(c)'
  BY <1>1, <1>2, <1>3, <1>5 DEF LineInv
<1> QED BY <1>4, <1>7, <1>8, <1>9, <1>10, <1>11 DEF LineInv

\* A record printed is one of those reserved, and its packet was counted.
LEMMA ConsumeLine ==
  ASSUME Hooked, Budget, ReadInv, RingInv, RingInv', LineInv, Consume
  PROVE  ReadInv' /\ LineInv'
<1>1. /\ pc = "poll" /\ pc' = pc /\ values' = values /\ counters' = counters
      /\ nevents' = nevents /\ prev' = prev /\ last' = last
  BY DEF Consume, hooks
<1>2. values = <<>>
  BY <1>1 DEF ReadInv
<1>3. ReadInv'
  BY <1>1 DEF ReadInv
<1>4. \A c \in Counters : Copied(c)' = Copied(c)
  BY <1>1 DEF Copied
<1>5. \A c \in Counters : Copy(c)' = Copy(c)
  BY <1>4 DEF Copy
<1>6. "crypto_ok" \in Counters /\ "seen" \in Counters /\ "malformed" \in Counters
  BY CountersAre
<1>7. Copy("crypto_ok") = SumOver(Slots("crypto_ok"))
  BY <1>2, <1>6, NoneRead
<1>8. nevents + SumOver(Early) <= SumOver(Slots("crypto_ok"))
  BY DEF Budget
<1>9. /\ nevents \in Nat /\ SumOver(Early) \in Nat /\ SumOver(Slots("crypto_ok")) \in Nat
  BY <1>6, SumTypes DEF Hooked
<1>10. nevents = Len(printed') + Len(ring') /\ Len(printed') \in Nat /\ Len(ring') \in Nat
  BY <1>1 DEF RingInv
<1>11. Len(printed') <= Copy("crypto_ok")'
  BY <1>5, <1>6, <1>7, <1>8, <1>9, <1>10
<1> QED BY <1>1, <1>3, <1>5, <1>6, <1>11 DEF LineInv

----------------------------------------------------------------------------
(* The inductive invariant. *)

LoopInv ==
  /\ pc \in {"loop", "print", "poll", "stopped"} /\ due \in {"first", "no", "yes"}
  /\ limited \in BOOLEAN /\ exiting \in BOOLEAN /\ over \in BOOLEAN
  /\ jumps \in Nat /\ jumps <= MaxJumps

Inv == Hooked /\ Budget /\ RingInv /\ ReadInv /\ LineInv /\ LoopInv

LEMMA InitInv == Init => Inv
<1> SUFFICES ASSUME Init PROVE Inv
  OBVIOUS
<1>1. \A c \in Counters : Zero[c] = 0
  BY DEF Zero
<1>2. Hooked
  <2>1. Zero \in [Counters -> Nat]
    BY DEF Zero
  <2>2. RunOK(<<>>)
    BY DEF RunOK, Has
  <2>3. AccOK(Zero, <<>>)
    <3>1. \A op : Owed(<<>>, op) = 0
      BY DEF Owed, Has
    <3>2. \A x \in Transformed : x \in Counters
      BY CountersAre DEF Transformed
    <3> QED BY <1>1, <3>1, <3>2, CountersAre DEF AccOK
  <2>4. left \in Nat /\ nevents \in Nat
    BY RuntimeAssumption DEF Init
  <2>5. run \in [Cpus -> Seq(Ops)] /\ counters \in [Cpus -> [Counters -> Nat]]
    BY <2>1 DEF Init
  <2> QED BY <2>2, <2>3, <2>4, <2>5 DEF Init, Hooked
<1>3. \A c \in Counters : Slots(c) = None
  BY <1>1 DEF Slots, None, Init
<1>4. \A op : Owing(op) = None
  BY DEF Owing, Owed, Has, None, Init
<1>5. Early = None
  BY DEF Early, Ahead, Has, None, Init
<1>6. Budget
  BY <1>3, <1>4, <1>5, SumOfNone, RuntimeAssumption, CountersAre DEF Budget, Init
<1>7. RingInv
  BY RuntimeAssumption DEF RingInv, Init
<1>8. ReadInv
  BY RuntimeAssumption DEF ReadInv, Init
<1>9. \A c \in Counters : Copy(c) = 0
  BY <1>3, SumOfNone, NoneRead DEF Init
<1>10. LineInv
  <2>1. prev = Zero /\ last = Zero /\ Zero \in [Counters -> Nat] /\ Len(printed) = 0
    BY DEF Init, Zero
  <2>2. \A x \in Transformed : x \in Counters
    BY CountersAre DEF Transformed
  <2> QED BY <1>1, <1>9, <2>1, <2>2, CountersAre DEF LineInv
<1>11. LoopInv
  <2>1. jumps \in Nat /\ jumps <= MaxJumps
    BY RuntimeAssumption DEF Init
  <2>2. limited \in BOOLEAN /\ exiting \in BOOLEAN /\ over \in BOOLEAN
    BY Zenon DEF Init
  <2> QED BY <2>1, <2>2, Zenon DEF LoopInv, Init
<1> QED BY <1>2, <1>6, <1>7, <1>8, <1>10, <1>11 DEF Inv

LEMMA ArriveInv ==
  ASSUME Inv, NEW cpu \in Cpus, NEW o \in Seen, Arrive(cpu, o)
  PROVE  Inv'
<1>1. /\ ring' = ring /\ printed' = printed /\ nevents' = nevents /\ values' = values /\ pc' = pc
      /\ prev' = prev /\ last' = last /\ run[cpu] = <<>> /\ UNCHANGED clock /\ due' = due
  BY DEF Arrive, loop
<1>2. Hooked' /\ Budget' /\ CountersGrow
  BY ArriveKeeps DEF HookKeeps, Inv
<1>3. RingInv'
  <2>1. Moved(cpu, counters[cpu], Program(o))
    BY ArriveMoves DEF Inv
  <2>2. ~Fills(run[cpu])
    BY <1>1 DEF Fills
  <2> QED BY <1>1, <2>1, <2>2, RingAlone DEF Inv
<1>4. ReadInv' /\ CopyGrows
  BY <1>1, <1>2, HooksCopy DEF Inv
<1>5. LineInv'
  BY <1>1, <1>2, <1>4, LineStays DEF Inv
<1>6. LoopInv'
  BY <1>1 DEF LoopInv, Inv, clock
<1> QED BY <1>2, <1>3, <1>4, <1>5, <1>6 DEF Inv

LEMMA HookStepInv ==
  ASSUME Inv, NEW cpu \in Cpus, HookStep(cpu)
  PROVE  Inv'
<1>1. /\ printed' = printed /\ values' = values /\ pc' = pc /\ prev' = prev /\ last' = last
      /\ run[cpu] # <<>> /\ UNCHANGED clock /\ due' = due
  BY DEF HookStep, loop
<1>2. Bump(cpu) \/ Reserve(cpu) \/ Fill(cpu) \/ Submit(cpu)
  BY DEF HookStep
<1>3. Hooked' /\ Budget' /\ CountersGrow
  BY <1>1, <1>2, BumpKeeps, PublishKeeps DEF HookKeeps, Inv
<1>4. RingInv'
  <2>1. CASE Bump(cpu)
    <3> DEFINE s == run[cpu]
               n == [counters[cpu] EXCEPT ![Head(s)] = @ + 1]
    <3>1. /\ Moved(cpu, n, Tail(s)) /\ Head(s) \in Counters
          /\ nevents' = nevents /\ ring' = ring
      BY <1>1, <2>1, BumpMoves DEF Inv
    <3>2. ~Fills(s)
      BY <3>1, CountersAre DEF Fills
    <3> HIDE DEF n
    <3> QED BY <1>1, <3>1, <3>2, RingAlone DEF Inv
  <2>2. CASE Reserve(cpu)
    BY <1>1, <2>2, RingReserve DEF Inv
  <2>3. CASE Fill(cpu) \/ Submit(cpu)
    BY <1>1, <2>3, RingWrite DEF Inv
  <2> QED BY <1>2, <2>1, <2>2, <2>3
<1>5. ReadInv' /\ CopyGrows
  BY <1>1, <1>3, HooksCopy DEF Inv
<1>6. LineInv'
  BY <1>1, <1>3, <1>5, LineStays DEF Inv
<1>7. LoopInv'
  BY <1>1 DEF LoopInv, Inv, clock
<1> QED BY <1>3, <1>4, <1>5, <1>6, <1>7 DEF Inv

\* What the loop and the clock do leaves the hooks' part alone.
LEMMA HooksAlone ==
  ASSUME Hooked, Budget, UNCHANGED hooks
  PROVE  Hooked' /\ Budget'
<1>1. left' = left /\ run' = run /\ counters' = counters /\ nevents' = nevents
  BY DEF hooks
<1>2. Hooked'
  BY <1>1 DEF Hooked
<1>3. /\ \A c \in Counters : Slots(c)' = Slots(c)
      /\ \A op : Owing(op)' = Owing(op)
      /\ Early' = Early
  BY <1>1 DEF Slots, Owing, Early
<1>4. /\ \A c \in Counters : SumOver(Slots(c))' = SumOver(Slots(c))
      /\ \A op : SumOver(Owing(op))' = SumOver(Owing(op))
      /\ SumOver(Early)' = SumOver(Early)
  BY <1>3
<1>5. "crypto_ok" \in Counters
  BY CountersAre
<1>6. Budget'
  BY <1>1, <1>4, <1>5 DEF Budget
<1> QED BY <1>2, <1>6

LEMMA LoopStepInv ==
  ASSUME Inv, LoopStep
  PROVE  Inv'
<1>1. /\ UNCHANGED hooks /\ UNCHANGED clock
      /\ run' = run /\ nevents' = nevents /\ counters' = counters
  BY DEF LoopStep, Iterate, PrintZeros, Read, PrintStats, Consume, PollEnds, Leave, hooks
<1>2. Hooked' /\ Budget'
  BY <1>1, HooksAlone DEF Inv
<1>3. LoopInv'
  BY <1>1 DEF Inv, LoopInv, clock, LoopStep, Iterate, PrintZeros, Read, PrintStats, Consume,
              PollEnds, Leave
<1>4. CASE Iterate \/ PrintZeros \/ PollEnds \/ Leave
  <2>1. /\ ring' = ring /\ printed' = printed /\ values' = values /\ prev' = prev /\ last' = last
        /\ pc # "print" \/ values = <<>>
    BY <1>4 DEF Iterate, PrintZeros, PollEnds, Leave
  <2>2. values = <<>>
    BY <2>1 DEF Inv, ReadInv
  <2>3. ReadInv' /\ CopyGrows
    BY <1>1, <2>1, <2>2, SameCopy DEF Inv
  <2>4. RingInv'
    BY <1>1, <2>1, RingStays DEF Inv
  <2>5. LineInv'
    BY <1>2, <2>1, <2>3, LineStays DEF Inv
  <2> QED BY <1>2, <1>3, <2>3, <2>4, <2>5 DEF Inv
<1>5. CASE Read
  <2>1. ring' = ring /\ printed' = printed /\ prev' = prev /\ last' = last
    BY <1>5 DEF Read
  <2>2. ReadInv' /\ CopyGrows
    BY <1>5, ReadCopy DEF Inv
  <2>3. RingInv'
    BY <1>1, <2>1, RingStays DEF Inv
  <2>4. LineInv'
    BY <1>2, <2>1, <2>2, LineStays DEF Inv
  <2> QED BY <1>2, <1>3, <2>2, <2>3, <2>4 DEF Inv
<1>6. CASE PrintStats
  <2>1. ring' = ring /\ printed' = printed
    BY <1>6 DEF PrintStats
  <2>2. ReadInv' /\ LineInv'
    BY <1>6, PrintLine DEF Inv
  <2>3. RingInv'
    BY <1>1, <2>1, RingStays DEF Inv
  <2> QED BY <1>2, <1>3, <2>2, <2>3 DEF Inv
<1>7. CASE Consume
  <2>1. RingInv'
    BY <1>7, RingConsume DEF Inv
  <2>2. ReadInv' /\ LineInv'
    BY <1>7, <2>1, ConsumeLine DEF Inv
  <2> QED BY <1>2, <1>3, <2>1, <2>2 DEF Inv
<1> QED BY <1>4, <1>5, <1>6, <1>7 DEF LoopStep

\* The clock, a signal, and a step that changes nothing.
LEMMA OtherInv ==
  ASSUME Inv, TimeStep \/ Signal \/ UNCHANGED vars
  PROVE  Inv'
<1>1. /\ UNCHANGED hooks /\ UNCHANGED <<ring, pc, values, prev, last, printed>>
      /\ run' = run /\ nevents' = nevents /\ counters' = counters
  BY DEF TimeStep, Tick, Expire, SetBack, Signal, vars, hooks, loop
<1>2. Hooked' /\ Budget'
  BY <1>1, HooksAlone DEF Inv
<1>3. LoopInv'
  <2>1. CASE Tick
    BY <2>1 DEF Inv, LoopInv, Tick, clock
  <2>2. CASE Expire
    BY <2>2 DEF Inv, LoopInv, Expire, loop
  <2>3. CASE SetBack
    <3>1. jumps' \in Nat /\ jumps' <= MaxJumps
      BY <2>3, RuntimeAssumption DEF Inv, LoopInv, SetBack
    <3>2. /\ pc' = pc /\ limited' = limited /\ exiting' = exiting /\ over' = FALSE
          /\ due' \in {"first", "no", "yes"}
      BY <2>3 DEF Inv, LoopInv, SetBack
    <3> QED BY <3>1, <3>2, Zenon DEF Inv, LoopInv
  <2>4. CASE Signal
    BY <2>4 DEF Inv, LoopInv, Signal, loop
  <2>5. CASE UNCHANGED vars
    BY <2>5 DEF Inv, LoopInv, vars, clock, loop
  <2> QED BY <2>1, <2>2, <2>3, <2>4, <2>5 DEF TimeStep
<1>4. values # <<>> => pc' = "print"
  BY <1>1 DEF Inv, ReadInv
<1>5. ReadInv' /\ CopyGrows
  BY <1>1, <1>4, SameCopy DEF Inv
<1>6. RingInv'
  BY <1>1, RingStays DEF Inv
<1>7. LineInv'
  BY <1>1, <1>2, <1>5, LineStays DEF Inv
<1> QED BY <1>2, <1>3, <1>5, <1>6, <1>7 DEF Inv

LEMMA NextInv == Inv /\ [Next]_vars => Inv'
<1> SUFFICES ASSUME Inv, [Next]_vars PROVE Inv'
  OBVIOUS
<1>1. CASE ArriveSome
  BY <1>1, ArriveInv DEF ArriveSome
<1>2. CASE \E cpu \in Cpus : HookStep(cpu)
  BY <1>2, HookStepInv
<1>3. CASE LoopStep
  BY <1>3, LoopStepInv
<1>4. CASE TimeStep \/ Signal \/ UNCHANGED vars
  BY <1>4, OtherInv
<1> QED BY <1>1, <1>2, <1>3, <1>4 DEF Next

LEMMA InvAlways == Spec => []Inv
<1> QED BY InitInv, NextInv, PTL DEF Spec

----------------------------------------------------------------------------
(* The theorems. *)

LEMMA InvLinesGrow == Inv => LinesGrow
<1> SUFFICES ASSUME Inv, NEW c \in Counters PROVE prev[c] <= last[c] /\ last[c] <= Total(c)
  BY DEF LinesGrow
<1>1. prev[c] <= last[c] /\ last[c] <= Copy(c) /\ prev[c] \in Nat /\ last[c] \in Nat
  BY DEF Inv, LineInv
<1>2. Copy(c) \in Nat /\ Copy(c) <= SumOver(Slots(c)) /\ SumOver(Slots(c)) \in Nat
  BY CopyType, SumTypes DEF Inv
<1>3. Total(c) = SumOver(Slots(c))
  BY DEF Total, Slots
<1> QED BY <1>1, <1>2, <1>3

\* In the lines of statistics each counter only grows, and a line never shows
\* more than has been counted, however the hooks count while it is read.
THEOREM LinesTheorem == Spec => []LinesGrow
<1> QED BY InvAlways, InvLinesGrow, PTL

\* What a line counts as passed, transformed, failed or malformed, the next line
\* counts as seen.
THEOREM OutcomesTheorem == Spec => []OutcomesSeen
<1>1. Inv => OutcomesSeen
  BY DEF Inv, LineInv, OutcomesSeen, Transformed
<1> QED BY <1>1, InvAlways, PTL

\* handle_crypto_event gets each record filled in, once and in the order of the
\* reservations.
THEOREM EventsTheorem == Spec => []EventsComplete
<1>1. Inv => EventsComplete
  BY DEF Inv, RingInv, EventsComplete
<1> QED BY <1>1, InvAlways, PTL

\* A line of statistics counts every packet whose event was printed before it.
THEOREM LineCountsTheorem == Spec => LineCountsEvents
<1>1. Inv /\ [Next]_vars => [PrintStats => Len(printed) <= last'["crypto_ok"]]_vars
  <2> SUFFICES ASSUME Inv, PrintStats PROVE Len(printed) <= last'["crypto_ok"]
    OBVIOUS
  <2>1. last'["crypto_ok"] = Copy("crypto_ok")
    BY LineIs, CountersAre DEF PrintStats, Inv
  <2> QED BY <2>1 DEF Inv, LineInv
<1> QED BY <1>1, InvAlways, PTL DEF Spec, LineCountsEvents

\* The state stays in its types: no counter and no id passes the number of
\* packets, the ring keeps to its room and print_stats to the slots there are.
THEOREM TypeTheorem == Spec => []TypeOK
<1>1. Inv => TypeOK
  <2> SUFFICES ASSUME Inv PROVE TypeOK
    OBVIOUS
  <2>1. /\ \A c \in Counters : SumOver(Slots(c)) \in Nat /\ SumOver(Owing(c)) \in Nat
        /\ SumOver(Owing("reserve")) \in Nat /\ left \in Nat /\ nevents \in Nat /\ Packets \in Nat
    BY SumTypes, RuntimeAssumption DEF Inv, Hooked, Ops
  <2>2. \A c \in Counters : SumOver(Slots(c)) <= Packets
    <3> SUFFICES ASSUME NEW c \in Counters PROVE SumOver(Slots(c)) <= Packets
      OBVIOUS
    <3>1. SumOver(Slots(c)) + SumOver(Owing(c)) + left <= Packets
      BY DEF Inv, Budget
    <3> QED BY <2>1, <3>1
  <2>3. left \in 0..Packets /\ nevents \in 0..Packets
    <3>1. nevents + SumOver(Owing("reserve")) + left <= Packets
      BY DEF Inv, Budget
    <3> QED BY <2>1, <3>1
  <2>4. counters \in [Cpus -> [Counters -> 0..Packets]]
    <3>1. ASSUME NEW cpu \in Cpus, NEW c \in Counters PROVE counters[cpu][c] \in 0..Packets
      <4>1. Slots(c) \in [Cpus -> Nat] /\ Slots(c)[cpu] = counters[cpu][c]
        BY SumTypes DEF Inv, Slots
      <4>2. Slots(c)[cpu] <= SumOver(Slots(c)) /\ Slots(c)[cpu] \in Nat
        BY <4>1, PartOfSum
      <4> QED BY <2>1, <2>2, <4>1, <4>2
    <3>2. counters \in [Cpus -> [Counters -> Nat]]
      BY DEF Inv, Hooked
    <3> QED BY <3>1, <3>2
  <2>5. run \in [Cpus -> Seq(Ops)]
    BY DEF Inv, Hooked
  <2>6. \A c \in Counters : last[c] \in 0..Packets /\ prev[c] \in 0..Packets
    <3> SUFFICES ASSUME NEW c \in Counters
                 PROVE  last[c] \in 0..Packets /\ prev[c] \in 0..Packets
      OBVIOUS
    <3>1. prev[c] <= last[c] /\ last[c] <= Total(c) /\ Total(c) = SumOver(Slots(c))
      BY InvLinesGrow DEF LinesGrow, Total, Slots
    <3>2. prev[c] \in Nat /\ last[c] \in Nat
      BY DEF Inv, LineInv
    <3> QED BY <2>1, <2>2, <3>1, <3>2
  <2>7. prev \in [Counters -> 0..Packets] /\ last \in [Counters -> 0..Packets]
    BY <2>6 DEF Inv, LineInv
  <2>8. values \in Seq(0..Packets) /\ Len(values) <= Len(Fields) * NCpus
    <3>1. values \in Seq(Nat) /\ Len(values) <= 6 * NCpus
          /\ \A i \in DOMAIN values : values[i] <= Packets
      BY DEF Inv, ReadInv
    <3>2. \A i \in DOMAIN values : values[i] \in 0..Packets
      BY <2>1, <3>1
    <3>3. values \in Seq(0..Packets)
      <4> DEFINE S == 0..Packets
      <4>1. \A i \in DOMAIN values : values[i] \in S
        BY <3>2
      <4> HIDE DEF S
      <4>2. values \in Seq(S)
        BY <3>1, <4>1
      <4> QED BY <4>2 DEF S
    <3> QED BY <3>1, <3>3, Positions
  <2>9. ring \in Seq(Record) /\ printed \in Seq(Record) /\ Len(ring) <= RingSize
    <3>1. /\ ring \in Seq(Rec) /\ printed \in Seq(Rec) /\ Len(ring) <= RingSize
          /\ nevents = Len(printed) + Len(ring)
          /\ \A i \in DOMAIN printed : printed[i].id = i
          /\ \A i \in DOMAIN ring : ring[i].id = Len(printed) + i
      BY DEF Inv, RingInv
    <3>2. nevents <= Packets
      BY <2>1, <2>3
    <3>3. \A i \in DOMAIN ring : ring[i].id \in 1..Packets /\ ring[i] \in Rec
      BY <2>1, <3>1, <3>2
    <3>4. \A i \in DOMAIN printed : printed[i].id \in 1..Packets /\ printed[i] \in Rec
      BY <2>1, <3>1, <3>2
    <3>5. \A r \in Rec : r.id \in 1..Packets => r \in Record
      BY DEF Rec, Record
    <3>6. /\ \A i \in DOMAIN ring : ring[i] \in Record
          /\ \A i \in DOMAIN printed : printed[i] \in Record
      BY <3>3, <3>4, <3>5
    <3>7. ring \in Seq(Record)
      BY <3>1, <3>6
    <3>8. printed \in Seq(Record)
      BY <3>1, <3>6
    <3> QED BY <3>1, <3>7, <3>8
  <2>10. LoopInv /\ jumps \in 0..MaxJumps
    BY RuntimeAssumption DEF Inv, LoopInv
  <2> QED BY <2>3, <2>4, <2>5, <2>7, <2>8, <2>9, <2>10 DEF TypeOK, LoopInv
<1> QED BY <1>1, InvAlways, PTL

----------------------------------------------------------------------------
(* Once traffic stops.  That a line is printed then is a matter of fairness, *)
(* which CatchesUp checks; that it is the right one is safety.               *)

\* The last line is the counters as they are now.
Exact == \A c \in Counters : last[c] = Total(c)

\* The slots read of the line that is being made are what the CPUs count now:
\* so it is when the line is begun.
Fresh ==
  \A cpu \in Cpus, c \in Counters :
    Slot(cpu, c) \in DOMAIN values => values[Slot(cpu, c)] = counters[cpu][c]

LEMMA QuietStep ==
  ASSUME Inv, Quiet, Next
  PROVE  counters' = counters /\ Quiet'
<1>1. ~ArriveSome
  BY DEF Quiet, ArriveSome, Arrive
<1>2. \A cpu \in Cpus : ~HookStep(cpu)
  BY DEF Quiet, HookStep
<1>3. UNCHANGED hooks
  BY <1>1, <1>2 DEF Next, LoopStep, Iterate, PrintZeros, Read, PrintStats, Consume, PollEnds,
                    Leave, TimeStep, Tick, Expire, SetBack, Signal
<1> QED BY <1>3 DEF hooks, Quiet

LEMMA FreshLine ==
  ASSUME Inv, Fresh, PrintStats, NEW c \in Counters
  PROVE  last'[c] = Total(c)
<1>1. \A cpu \in Cpus : Copied(c)[cpu] = counters[cpu][c]
  BY DEF Copied, Fresh
<1>2. Copied(c) = [cpu \in Cpus |-> counters[cpu][c]]
  BY <1>1 DEF Copied
<1> QED BY <1>2, LineIs DEF PrintStats, Inv, Copy, Total

LEMMA FreshStep ==
  ASSUME Inv, Fresh, Quiet, Next
  PROVE  Fresh'
<1> SUFFICES ASSUME NEW cpu \in Cpus, NEW c \in Counters, Slot(cpu, c) \in DOMAIN values'
             PROVE  values'[Slot(cpu, c)] = counters'[cpu][c]
  BY DEF Fresh, Slot, Position
<1>1. counters' = counters
  BY QuietStep
<1>2. CASE values' = values
  BY <1>1, <1>2 DEF Fresh
<1>3. CASE values' = <<>>
  BY <1>3
<1>4. CASE Read
  <2> DEFINE v == counters[ReadCpu][ReadField]
             slot == Slot(cpu, c)
  <2>1. values' = Append(values, v) /\ values \in Seq(Nat) /\ Len(values) < 6 * NCpus
    BY <1>4, Positions DEF Read, Inv, ReadInv
  <2>2. Slot(ReadCpu, ReadField) = Len(values) + 1 /\ ReadCpu \in Cpus /\ ReadField \in Counters
    BY <2>1, ReadSlot
  <2>3. slot = Len(values) + 1 => cpu = ReadCpu /\ c = ReadField
    BY <2>2, SlotOne
  <2>4. slot \in DOMAIN values => values[slot] = counters[cpu][c]
    BY DEF Fresh
  <2> HIDE DEF v, slot
  <2>5. slot \in DOMAIN values'
    BY DEF slot
  <2>6. slot \in DOMAIN values \/ slot = Len(values) + 1
    BY <2>1, <2>5
  <2>7. slot \in DOMAIN values => values'[slot] = values[slot]
    BY <2>1
  <2>8. values'[Len(values) + 1] = v
    BY <2>1
  <2>9. values'[slot] = counters[cpu][c]
    BY <2>3, <2>4, <2>6, <2>7, <2>8 DEF v
  <2> QED BY <1>1, <2>9 DEF slot
<1>5. ~ArriveSome /\ \A x \in Cpus : ~HookStep(x)
  BY DEF Quiet, ArriveSome, Arrive, HookStep
<1>6. values' = values \/ values' = <<>> \/ Read
  BY <1>5 DEF Next, LoopStep, Iterate, PrintZeros, PrintStats, Consume, PollEnds, Leave,
              TimeStep, Tick, Expire, SetBack, Signal, loop
<1> QED BY <1>2, <1>3, <1>4, <1>6

LEMMA ExactStep ==
  ASSUME Inv, Inv', LinesGrow', Exact, Quiet, Next
  PROVE  Exact'
<1> SUFFICES ASSUME NEW c \in Counters
             PROVE  last'[c] = Total(c)'
  BY DEF Exact
<1>1. Total(c)' = Total(c) /\ last[c] = Total(c)
  BY QuietStep DEF Total, Exact
<1>2. CASE PrintStats
  <2>1. prev'[c] = last[c]
    BY <1>2 DEF PrintStats
  <2>2. prev'[c] <= last'[c] /\ last'[c] <= Total(c)'
    BY DEF LinesGrow
  <2>3. prev'[c] \in Nat /\ last'[c] \in Nat
    BY DEF Inv, LineInv
  <2> QED BY <1>1, <2>1, <2>2, <2>3
<1>3. CASE ~PrintStats
  <2>1. ~ArriveSome /\ \A x \in Cpus : ~HookStep(x)
    BY DEF Quiet, ArriveSome, Arrive, HookStep
  <2>2. last' = last
    BY <1>3, <2>1 DEF Next, LoopStep, Iterate, PrintZeros, Read, Consume, PollEnds, Leave,
                      TimeStep, Tick, Expire, SetBack, Signal, loop
  <2> QED BY <1>1, <2>2
<1> QED BY <1>2, <1>3

\* Once no packet is left in a hook or to come, nothing more is counted; a line
\* begun from then on says exactly what was counted, on every CPU; and once a
\* line has said so, each later one does, also one that was begun before.
THEOREM CatchUpTheorem ==
  Spec => [][/\ Quiet => Quiet'
             /\ Quiet /\ Fresh => Fresh' /\ (PrintStats => Exact')
             /\ Quiet /\ Exact => Exact']_vars
<1>1. Inv /\ Inv' /\ LinesGrow' /\ [Next]_vars =>
        [/\ Quiet => Quiet'
         /\ Quiet /\ Fresh => Fresh' /\ (PrintStats => Exact')
         /\ Quiet /\ Exact => Exact']_vars
  <2> SUFFICES ASSUME Inv, Inv', LinesGrow', Next, Quiet
               PROVE  /\ Quiet'
                      /\ Fresh => Fresh' /\ (PrintStats => Exact')
                      /\ Exact => Exact'
    OBVIOUS
  <2>1. Fresh /\ PrintStats => Exact'
    <3> SUFFICES ASSUME Fresh, PrintStats, NEW c \in Counters
                 PROVE  last'[c] = Total(c)'
      BY DEF Exact
    <3>1. Total(c)' = Total(c)
      BY QuietStep DEF Total
    <3> QED BY <3>1, FreshLine
  <2> QED BY <2>1, QuietStep, FreshStep, ExactStep
<1> QED BY <1>1, InvAlways, LinesTheorem, PTL DEF Spec

\* No event that found room is lost: the records printed are those reserved
\* first, without a gap, and all the others are still in the ring, in order.
\* Once the ring is empty (EventsDrain), every event has been printed.
THEOREM NoEventLostTheorem ==
  Spec => [](/\ nevents = Len(printed) + Len(ring)
             /\ \A i \in DOMAIN printed : printed[i].id = i
             /\ \A i \in DOMAIN ring : ring[i].id = Len(printed) + i)
<1> DEFINE P == /\ nevents = Len(printed) + Len(ring)
                /\ \A i \in DOMAIN printed : printed[i].id = i
                /\ \A i \in DOMAIN ring : ring[i].id = Len(printed) + i
<1>1. Inv => P
  BY DEF Inv, RingInv
<1> QED BY <1>1, InvAlways, PTL
=============================================================================
