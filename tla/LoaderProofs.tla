---------------------------- MODULE LoaderProofs ----------------------------
(***************************************************************************)
(* Theorems about Loader, for any number of processes with any command     *)
(* lines: what is attached is ready, each process has its XDP slot to      *)
(* itself, who returns leaves nothing behind, processes at different       *)
(* attach points do not disturb each other, one that runs with XDP owns    *)
(* the slot in the mode it reports, and no step leads back.                *)
(***************************************************************************)
EXTENDS Loader, TLAPS

----------------------------------------------------------------------------
(* The inductive invariant. *)

BeforeXdp == {"idle", "open", "load_ctx", "load_xdp", "load_tc", "configure",
              "create_ctx", "xdp_native", "xdp_generic"}

BeforeStop == BeforeXdp \union {"tc_hook", "tc_attach", "tc_undo", "ring", "running",
                                 "stop_xdp"}

Attaching == {"xdp_native", "xdp_generic", "tc_hook", "tc_attach"}

\* What a process holds follows from where it is.
PhaseInv ==
  \A p \in Procs :
    /\ pc[p] \in {"idle", "open", "stopped", "failed"} => skels[p] = {} /\ ~event_ring[p]
    /\ pc[p] \in BeforeXdp => xdp_flags[p] = "none"
    /\ pc[p] \in BeforeXdp \union {"tc_hook", "tc_attach", "tc_undo"} => ~tc_attached[p]
    /\ pc[p] \in Attaching \union {"create_ctx"} => configured[p]
    /\ pc[p] \in Attaching => ctx[p]
    /\ pc[p] \in {"load_tc", "tc_hook", "tc_attach", "tc_undo"} => UsesTc(p)
    /\ pc[p] \in {"stop_tc", "stop_tc_hook"} \/ tc_attached[p] => UsesTc(p)
    /\ pc[p] \in BeforeStop => refused[p] = {}

\* The XDP slot names a process that is ready and still knows of it, unless
\* it was killed or its detach was refused; and whoever believes to hold the
\* slot does.
XdpInv ==
  /\ XdpOwned
  /\ \A p \in Procs : xdp.owner = p =>
       /\ configured[p] /\ ctx[p]
       /\ pc[p] = "killed" \/ HoldsXdp(p) \/ "xdp" \in refused[p]

\* The same for the filters: they are where their owner's options put them.
FilterInv ==
  \A p \in Procs, pt \in Points : p \in Owners(pt) =>
    /\ pt = Point(p) /\ configured[p] /\ ctx[p]
    /\ \/ pc[p] = "killed"
       \/ tc_attached[p] /\ pc[p] \in {"ring", "running", "stop_xdp", "stop_tc",
                                        "stop_tc_hook"}
       \/ "tc" \in refused[p] /\ pc[p] \in {"stop_free", "stopped", "failed"}

\* From its attach to its stop a process at a point of its own comes first.
ServeInv ==
  DistinctPoints =>
    \A p \in Procs : pc[p] \in {"ring", "running"} /\ UsesTc(p) => Serves(p)

----------------------------------------------------------------------------
(* Filters at a point, as a sequence. *)

LEMMA PointType ==
  ASSUME NEW p \in Procs
  PROVE  Point(p) \in Points
BY LoaderAssumption DEF Point, Points, ConfigType

\* bpf_tc_attach puts the new filter in front and keeps the others.
LEMMA Prepend ==
  ASSUME NEW S, NEW s \in Seq(S), NEW e \in S
  PROVE  /\ <<e>> \o s \in Seq(S)
         /\ <<e>> \o s # <<>> /\ Head(<<e>> \o s) = e
         /\ {(<<e>> \o s)[i] : i \in DOMAIN (<<e>> \o s)}
              = {e} \union {s[i] : i \in DOMAIN s}
         /\ e \notin {s[i] : i \in DOMAIN s} /\ IsInjective(s) => IsInjective(<<e>> \o s)
<1> DEFINE t == <<e>> \o s
<1>1. /\ t \in Seq(S) /\ Len(t) = Len(s) + 1 /\ t[1] = e
      /\ \A i \in 1..Len(s) : t[i + 1] = s[i]
  OBVIOUS
<1>2. DOMAIN t = 1..Len(s) + 1 /\ DOMAIN s = 1..Len(s) /\ Len(s) \in Nat
  BY <1>1
<1>3. t # <<>> /\ Head(t) = e
  BY <1>1, <1>2
<1> HIDE DEF t
<1>4. \A i \in DOMAIN t : i = 1 \/ (i - 1 \in DOMAIN s /\ t[i] = s[i - 1])
  <2> TAKE i \in DOMAIN t
  <2>1. i = 1 \/ i - 1 \in 1..Len(s)
    BY <1>2
  <2>2. i - 1 \in 1..Len(s) => t[(i - 1) + 1] = s[i - 1]
    BY <1>1
  <2> QED BY <1>2, <2>1, <2>2
<1>5. \A i \in DOMAIN s : i + 1 \in DOMAIN t /\ t[i + 1] = s[i]
  BY <1>1, <1>2
<1>6. 1 \in DOMAIN t
  BY <1>2
<1>7. {t[i] : i \in DOMAIN t} = {e} \union {s[i] : i \in DOMAIN s}
  BY <1>1, <1>4, <1>5, <1>6
<1>8. e \notin {s[i] : i \in DOMAIN s} /\ IsInjective(s) => IsInjective(t)
  BY <1>1, <1>2, <1>4 DEF IsInjective
<1> QED BY <1>1, <1>3, <1>7, <1>8 DEF t

\* What bpf_tc_attach and bpf_tc_hook_destroy do to the owners of filters.
LEMMA AttachOwners ==
  ASSUME TypeOK, NEW p \in Procs,
         filters' = [filters EXCEPT ![Point(p)] = <<p>> \o @]
  PROVE  /\ filters' \in [Points -> Seq(Procs)]
         /\ \A pt \in Points \ {Point(p)} : filters'[pt] = filters[pt]
         /\ filters'[Point(p)] # <<>> /\ Head(filters'[Point(p)]) = p
         /\ \A pt \in Points :
              Owners(pt)' = IF pt = Point(p) THEN {p} \union Owners(pt) ELSE Owners(pt)
         /\ p \notin Owners(Point(p)) => IsInjective(filters'[Point(p)])
<1> DEFINE s == filters[Point(p)]
<1>1. Point(p) \in Points
  BY PointType
<1>2. s \in Seq(Procs) /\ IsInjective(s)
  BY <1>1 DEF TypeOK
<1>3. filters'[Point(p)] = <<p>> \o s
  BY <1>1 DEF TypeOK
<1>4. \A pt \in Points \ {Point(p)} : filters'[pt] = filters[pt]
  BY DEF TypeOK
<1>5. Owners(Point(p)) = {s[i] : i \in DOMAIN s}
  BY DEF Owners
<1>6. \A pt \in Points :
        Owners(pt)' = IF pt = Point(p) THEN {(<<p>> \o s)[i] : i \in DOMAIN (<<p>> \o s)}
                      ELSE Owners(pt)
  <2> TAKE pt \in Points
  <2>1. CASE pt = Point(p)
    BY <1>3, <2>1 DEF Owners
  <2>2. CASE pt # Point(p)
    BY <1>4, <2>2 DEF Owners
  <2> QED BY <2>1, <2>2
<1> HIDE DEF s
<1>7. <<p>> \o s \in Seq(Procs)
  BY <1>2, Prepend
<1>8. filters' \in [Points -> Seq(Procs)]
  BY <1>1, <1>7 DEF TypeOK, s
<1>9. {(<<p>> \o s)[i] : i \in DOMAIN (<<p>> \o s)} = {p} \union Owners(Point(p))
  BY <1>2, <1>5, Prepend
<1> QED BY <1>2, <1>3, <1>4, <1>5, <1>6, <1>8, <1>9, Prepend

LEMMA FlushOwners ==
  ASSUME TypeOK, NEW p \in Procs, FlushPoint(p)
  PROVE  /\ filters' \in [Points -> Seq(Procs)]
         /\ \A pt \in Points \ {Point(p)} : filters'[pt] = filters[pt]
         /\ \A pt \in Points : Owners(pt)' = IF pt = Point(p) THEN {} ELSE Owners(pt)
         /\ IsInjective(filters'[Point(p)])
<1>1. /\ filters' \in [Points -> Seq(Procs)]
      /\ \A pt \in Points \ {Point(p)} : filters'[pt] = filters[pt]
      /\ filters'[Point(p)] = <<>>
  BY PointType DEF TypeOK, FlushPoint
<1>2. DOMAIN filters'[Point(p)] = {}
  BY <1>1
<1> QED BY <1>1, <1>2 DEF Owners, IsInjective

\* What is noted of a refusal.
LEMMA Refusals ==
  ASSUME TypeOK, NEW p \in Procs, NEW what \in {"xdp", "tc"},
         RefusedTo(p, what) \/ UNCHANGED refused
  PROVE  /\ refused' \in [Procs -> SUBSET {"xdp", "tc"}]
         /\ \A q \in Procs \ {p} : refused'[q] = refused[q]
         /\ refused[p] \subseteq refused'[p]
         /\ RefusedTo(p, what) => what \in refused'[p]
<1>1. CASE UNCHANGED refused /\ ~RefusedTo(p, what)
  BY <1>1 DEF TypeOK
<1>2. CASE RefusedTo(p, what)
  <2>1. refused[p] \union {what} \in SUBSET {"xdp", "tc"}
    BY DEF TypeOK
  <2> QED BY <1>2, <2>1 DEF RefusedTo, TypeOK
<1> QED BY <1>1, <1>2

----------------------------------------------------------------------------
(* Every action keeps the invariant. *)

Inv == TypeOK /\ PhaseInv /\ XdpInv /\ FilterInv /\ ServeInv

LEMMA TypeStep ==
  ASSUME Inv, NEW p \in Procs,
         Launch(p) \/ Start(p) \/ Leave(p) \/ Stop(p) \/ Signal(p) \/ Kill(p)
  PROVE  TypeOK'
<1> USE DEF Inv, Goto, Proceed, rt, kernel, TypeOK, States, Starting, Stopping, Ended
<1>1. CASE Launch(p)
  BY <1>1 DEF Launch
<1>2. CASE Open(p)
  <2>1. skels' \in [Procs -> SUBSET Skeletons]
    BY <1>2 DEF Open, Skeletons
  <2> QED BY <1>2, <2>1 DEF Open
<1>3. CASE LoadCtx(p)
  BY <1>3 DEF LoadCtx, ErrOut
<1>4. CASE LoadXdp(p)
  <2>1. skels' \in [Procs -> SUBSET Skeletons]
    <3>1. skels[p] \union {"xdp"} \in SUBSET Skeletons
      BY DEF Skeletons
    <3>2. skels' = skels \/ skels' = [skels EXCEPT ![p] = @ \union {"xdp"}]
      BY <1>4 DEF LoadXdp, Load
    <3> QED BY <3>1, <3>2
  <2>2. pc' \in [Procs -> States] /\ failing' \in [Procs -> BOOLEAN]
    BY <1>4 DEF LoadXdp, Load, ErrOut
  <2> QED BY <1>4, <2>1, <2>2 DEF LoadXdp, Load
<1>5. CASE LoadTc(p)
  <2>1. skels' \in [Procs -> SUBSET Skeletons]
    <3>1. skels[p] \union {"tc"} \in SUBSET Skeletons
      BY DEF Skeletons
    <3>2. skels' = skels \/ skels' = [skels EXCEPT ![p] = @ \union {"tc"}]
      BY <1>5 DEF LoadTc, Load
    <3> QED BY <3>1, <3>2
  <2>2. pc' \in [Procs -> States] /\ failing' \in [Procs -> BOOLEAN]
    BY <1>5 DEF LoadTc, Load, ErrOut
  <2> QED BY <1>5, <2>1, <2>2 DEF LoadTc, Load
<1>6. CASE Configure(p)
  BY <1>6 DEF Configure, ErrOut
<1>7. CASE CreateCtx(p)
  BY <1>7 DEF CreateCtx, ErrOut, AfterCtx
<1>8. CASE XdpNative(p)
  <2>1. CASE XdpAttached(p, "native")
    BY <1>8, <2>1 DEF XdpNative, XdpAttached, AfterXdp
  <2>2. CASE Proceed(p, "xdp_generic") /\ UNCHANGED <<xdp, xdp_flags>>
    BY <1>8, <2>2 DEF XdpNative
  <2> QED BY <1>8, <2>1, <2>2 DEF XdpNative
<1>9. CASE XdpGeneric(p)
  <2>1. CASE XdpAttached(p, "generic")
    BY <1>9, <2>1 DEF XdpGeneric, XdpAttached, AfterXdp
  <2>2. CASE ErrOut(p) /\ UNCHANGED <<xdp, xdp_flags>>
    BY <1>9, <2>2 DEF XdpGeneric, ErrOut
  <2> QED BY <1>9, <2>1, <2>2 DEF XdpGeneric
<1>10. CASE TcHookCreate(p)
  BY <1>10 DEF TcHookCreate, ErrOut
<1>11. CASE TcAttach(p)
  <2>1. CASE tc_attached' = tc_attached /\ filters' = filters
    BY <1>11, <2>1 DEF TcAttach, ErrOut
  <2>2. CASE filters' = [filters EXCEPT ![Point(p)] = <<p>> \o @]
    <3>1. p \notin Owners(Point(p))
      BY <1>11, PointType DEF TcAttach, FilterInv
    <3>2. /\ filters' \in [Points -> Seq(Procs)]
          /\ \A pt \in Points \ {Point(p)} : filters'[pt] = filters[pt]
          /\ IsInjective(filters'[Point(p)])
      BY <2>2, <3>1, AttachOwners
    <3> QED BY <1>11, <3>2 DEF TcAttach, ErrOut
  <2> QED BY <1>11, <2>1, <2>2 DEF TcAttach
<1>12. CASE TcUndo(p)
  <2>1. /\ filters' \in [Points -> Seq(Procs)]
        /\ \A pt \in Points : IsInjective(filters'[pt])
    BY <1>12, FlushOwners DEF TcUndo
  <2> QED BY <1>12, <2>1 DEF TcUndo, ErrOut
<1>13. CASE Ring(p)
  BY <1>13 DEF Ring, ErrOut
<1>14. CASE Leave(p)
  BY <1>14 DEF Leave
<1>15. CASE StopXdp(p)
  <2>1. refused' \in [Procs -> SUBSET {"xdp", "tc"}]
    <3>1. RefusedTo(p, "xdp") \/ UNCHANGED refused
      BY <1>15 DEF StopXdp
    <3> QED BY <3>1, Refusals
  <2>2. xdp' \in [mode : {"none", "native", "generic"}, owner : Procs \union {None}]
    BY <1>15 DEF StopXdp, NoXdp
  <2>3. pc' \in [Procs -> States] /\ failing' = failing
    BY <1>15 DEF StopXdp
  <2>4. UNCHANGED <<exiting, rt, clsact, filters>>
    BY <1>15 DEF StopXdp
  <2> QED BY <2>1, <2>2, <2>3, <2>4
<1>16. CASE StopTc(p)
  BY <1>16 DEF StopTc
<1>17. CASE StopTcHook(p)
  <2>1. /\ filters' \in [Points -> Seq(Procs)]
        /\ \A pt \in Points : IsInjective(filters'[pt])
    BY <1>17, FlushOwners DEF StopTcHook
  <2>2. refused' \in [Procs -> SUBSET {"xdp", "tc"}]
    BY <1>17, Refusals DEF StopTcHook
  <2> QED BY <1>17, <2>1, <2>2 DEF StopTcHook
<1>18. CASE StopFree(p)
  BY <1>18 DEF StopFree
<1>19. CASE Signal(p)
  BY <1>19 DEF Signal
<1>20. CASE Kill(p)
  BY <1>20 DEF Kill
<1> QED BY <1>1, <1>2, <1>3, <1>4, <1>5, <1>6, <1>7, <1>8, <1>9, <1>10, <1>11, <1>12, <1>13,
           <1>14, <1>15, <1>16, <1>17, <1>18, <1>19, <1>20 DEF Start, Stop

LEMMA PhaseStep ==
  ASSUME Inv, NEW p \in Procs,
         Launch(p) \/ Start(p) \/ Leave(p) \/ Stop(p) \/ Signal(p) \/ Kill(p)
  PROVE  PhaseInv'
<1> USE DEF Inv, Goto, Proceed, rt, kernel, TypeOK, PhaseInv, BeforeXdp, BeforeStop, Attaching
<1>1. CASE Launch(p)
  BY <1>1 DEF Launch
<1>2. CASE Open(p)
  BY <1>2 DEF Open
<1>3. CASE LoadCtx(p)
  BY <1>3 DEF LoadCtx, ErrOut
<1>4. CASE LoadXdp(p)
  BY <1>4 DEF LoadXdp, Load, ErrOut
<1>5. CASE LoadTc(p)
  BY <1>5 DEF LoadTc, Load, ErrOut
<1>6. CASE Configure(p)
  BY <1>6 DEF Configure, ErrOut
<1>7. CASE CreateCtx(p)
  <2>1. UsesXdp(p) \/ UsesTc(p)
    BY LoaderAssumption DEF UsesXdp, UsesTc, ConfigType, Hooks
  <2> QED BY <1>7, <2>1 DEF CreateCtx, ErrOut, AfterCtx
<1>8. CASE XdpNative(p)
  BY <1>8 DEF XdpNative, XdpAttached, AfterXdp
<1>9. CASE XdpGeneric(p)
  BY <1>9 DEF XdpGeneric, XdpAttached, AfterXdp, ErrOut
<1>10. CASE TcHookCreate(p)
  BY <1>10 DEF TcHookCreate, ErrOut
<1>11. CASE TcAttach(p)
  BY <1>11 DEF TcAttach, ErrOut
<1>12. CASE TcUndo(p)
  BY <1>12 DEF TcUndo, FlushPoint, ErrOut
<1>13. CASE Ring(p)
  BY <1>13 DEF Ring, ErrOut
<1>14. CASE Leave(p)
  BY <1>14 DEF Leave
<1>15. CASE StopXdp(p)
  BY <1>15 DEF StopXdp, RefusedTo
<1>16. CASE StopTc(p)
  BY <1>16 DEF StopTc
<1>17. CASE StopTcHook(p)
  BY <1>17 DEF StopTcHook, RefusedTo
<1>18. CASE StopFree(p)
  BY <1>18 DEF StopFree
<1>19. CASE Signal(p)
  BY <1>19 DEF Signal
<1>20. CASE Kill(p)
  BY <1>20 DEF Kill
<1> QED BY <1>1, <1>2, <1>3, <1>4, <1>5, <1>6, <1>7, <1>8, <1>9, <1>10, <1>11, <1>12, <1>13,
           <1>14, <1>15, <1>16, <1>17, <1>18, <1>19, <1>20 DEF Start, Stop

LEMMA XdpStep ==
  ASSUME Inv, NEW p \in Procs,
         Launch(p) \/ Start(p) \/ Leave(p) \/ Stop(p) \/ Signal(p) \/ Kill(p)
  PROVE  XdpInv'
<1> USE DEF Inv, Goto, Proceed, rt, kernel, TypeOK, PhaseInv, XdpInv, XdpOwned, HoldsXdp,
            BeforeXdp, BeforeStop, Attaching, NoXdp
<1>1. CASE Launch(p)
  BY <1>1 DEF Launch
<1>2. CASE Open(p)
  BY <1>2 DEF Open
<1>3. CASE LoadCtx(p)
  BY <1>3 DEF LoadCtx, ErrOut
<1>4. CASE LoadXdp(p)
  BY <1>4 DEF LoadXdp, Load, ErrOut
<1>5. CASE LoadTc(p)
  BY <1>5 DEF LoadTc, Load, ErrOut
<1>6. CASE Configure(p)
  BY <1>6 DEF Configure, ErrOut
<1>7. CASE CreateCtx(p)
  BY <1>7 DEF CreateCtx, ErrOut, AfterCtx
<1>8. CASE XdpNative(p)
  BY <1>8 DEF XdpNative, XdpAttached, AfterXdp
<1>9. CASE XdpGeneric(p)
  BY <1>9 DEF XdpGeneric, XdpAttached, AfterXdp, ErrOut
<1>10. CASE TcHookCreate(p)
  BY <1>10 DEF TcHookCreate, ErrOut
<1>11. CASE TcAttach(p)
  BY <1>11 DEF TcAttach, ErrOut
<1>12. CASE TcUndo(p)
  BY <1>12 DEF TcUndo, FlushPoint, ErrOut
<1>13. CASE Ring(p)
  BY <1>13 DEF Ring, ErrOut
<1>14. CASE Leave(p)
  BY <1>14 DEF Leave
<1>15. CASE StopXdp(p)
  <2>1. CASE xdp_flags[p] = "none"
    BY <1>15, <2>1 DEF StopXdp, RefusedTo
  <2>2. CASE xdp_flags[p] # "none"
    <3>1. xdp = [mode |-> xdp_flags[p], owner |-> p]
      BY <1>15, <2>2 DEF StopXdp, RefusedTo
    <3>2. \A q \in Procs : HoldsXdp(q) => q = p
      BY <1>15, <2>2, <3>1 DEF StopXdp
    <3>3. \A q \in Procs : ~HoldsXdp(q)'
      BY <1>15, <3>2 DEF StopXdp
    <3>4. CASE xdp' = NoXdp
      <4>1. xdp'.owner \notin Procs
        BY <3>4, LoaderAssumption
      <4> QED BY <3>3, <4>1
    <3>5. CASE RefusedTo(p, "xdp") /\ UNCHANGED xdp
      <4>1. "xdp" \in refused'[p] /\ configured[p] /\ ctx[p]
        BY <3>1, <3>5, Refusals
      <4>2. \A q \in Procs : xdp'.owner = q => q = p
        BY <3>1, <3>5
      <4>3. configured' = configured /\ ctx' = ctx
        BY <1>15 DEF StopXdp
      <4> QED BY <3>3, <4>1, <4>2, <4>3
    <3> QED BY <1>15, <2>2, <3>1, <3>4, <3>5 DEF StopXdp
  <2> QED BY <2>1, <2>2
<1>16. CASE StopTc(p)
  BY <1>16 DEF StopTc
<1>17. CASE StopTcHook(p)
  BY <1>17, Refusals DEF StopTcHook
<1>18. CASE StopFree(p)
  BY <1>18 DEF StopFree
<1>19. CASE Signal(p)
  BY <1>19 DEF Signal
<1>20. CASE Kill(p)
  BY <1>20 DEF Kill
<1> QED BY <1>1, <1>2, <1>3, <1>4, <1>5, <1>6, <1>7, <1>8, <1>9, <1>10, <1>11, <1>12, <1>13,
           <1>14, <1>15, <1>16, <1>17, <1>18, <1>19, <1>20 DEF Start, Stop

LEMMA FilterStep ==
  ASSUME Inv, NEW p \in Procs,
         Launch(p) \/ Start(p) \/ Leave(p) \/ Stop(p) \/ Signal(p) \/ Kill(p)
  PROVE  FilterInv'
<1> USE DEF Inv, Goto, Proceed, rt, kernel, TypeOK, PhaseInv, FilterInv, BeforeXdp, Attaching
<1>1. filters' = filters => \A pt \in Points : Owners(pt)' = Owners(pt)
  BY DEF Owners
<1>2. CASE Launch(p)
  BY <1>2, <1>1 DEF Launch
<1>3. CASE Open(p)
  BY <1>3, <1>1 DEF Open
<1>4. CASE LoadCtx(p)
  BY <1>4, <1>1 DEF LoadCtx, ErrOut
<1>5. CASE LoadXdp(p)
  BY <1>5, <1>1 DEF LoadXdp, Load, ErrOut
<1>6. CASE LoadTc(p)
  BY <1>6, <1>1 DEF LoadTc, Load, ErrOut
<1>7. CASE Configure(p)
  BY <1>7, <1>1 DEF Configure, ErrOut
<1>8. CASE CreateCtx(p)
  BY <1>8, <1>1 DEF CreateCtx, ErrOut, AfterCtx
<1>9. CASE XdpNative(p)
  BY <1>9, <1>1 DEF XdpNative, XdpAttached, AfterXdp
<1>10. CASE XdpGeneric(p)
  BY <1>10, <1>1 DEF XdpGeneric, XdpAttached, AfterXdp, ErrOut
<1>11. CASE TcHookCreate(p)
  BY <1>11, <1>1 DEF TcHookCreate, ErrOut
<1>12. CASE TcAttach(p)
  <2>1. CASE tc_attached' = tc_attached /\ filters' = filters
    BY <1>12, <1>1, <2>1 DEF TcAttach, ErrOut
  <2>2. CASE filters' = [filters EXCEPT ![Point(p)] = <<p>> \o @]
    <3>1. \A pt \in Points :
            Owners(pt)' = IF pt = Point(p) THEN {p} \union Owners(pt) ELSE Owners(pt)
      BY <2>2, AttachOwners
    <3>2. (tc_attached'[p] /\ pc'[p] = "ring") \/ filters' = filters
      BY <1>12 DEF TcAttach
    <3> QED BY <1>12, <2>2, <3>1 DEF TcAttach, ErrOut
  <2> QED BY <1>12, <2>1, <2>2 DEF TcAttach
<1>13. CASE TcUndo(p)
  <2>1. \A pt \in Points : Owners(pt)' \subseteq Owners(pt)
    <3>1. CASE FlushPoint(p)
      <4>1. \A pt \in Points : Owners(pt)' = IF pt = Point(p) THEN {} ELSE Owners(pt)
        BY <3>1, FlushOwners
      <4> QED BY <4>1
    <3>2. CASE filters' = filters
      BY <1>1, <3>2
    <3> QED BY <1>13, <3>1, <3>2 DEF TcUndo
  <2>2. \A pt \in Points : p \notin Owners(pt)'
    BY <1>13, <2>1 DEF TcUndo
  <2>3. \A q \in Procs \ {p} : pc'[q] = pc[q] /\ tc_attached'[q] = tc_attached[q]
    BY <1>13 DEF TcUndo, ErrOut
  <2>4. configured' = configured /\ ctx' = ctx
    BY <1>13 DEF TcUndo
  <2>5. refused' = refused
    BY <1>13 DEF TcUndo
  <2> QED BY <2>1, <2>2, <2>3, <2>4, <2>5
<1>14. CASE Ring(p)
  BY <1>14, <1>1 DEF Ring, ErrOut
<1>15. CASE Leave(p)
  BY <1>15, <1>1 DEF Leave
<1>16. CASE StopXdp(p)
  BY <1>16, <1>1 DEF StopXdp, RefusedTo
<1>17. CASE StopTc(p)
  BY <1>17, <1>1 DEF StopTc
<1>18. CASE StopTcHook(p)
  <2>1. \A pt \in Points : Owners(pt)' \subseteq Owners(pt)
    BY <1>18, <1>1, FlushOwners DEF StopTcHook
  <2>2. (\A pt \in Points : p \notin Owners(pt)') \/ "tc" \in refused'[p]
    <3>1. CASE FlushPoint(p)
      <4>1. \A pt \in Points : Owners(pt)' = IF pt = Point(p) THEN {} ELSE Owners(pt)
        BY <3>1, FlushOwners
      <4> QED BY <4>1
    <3>2. CASE RefusedTo(p, "tc")
      BY <3>2, Refusals
    <3> QED BY <1>18, <3>1, <3>2 DEF StopTcHook
  <2>3. \A q \in Procs \ {p} : pc'[q] = pc[q] /\ tc_attached'[q] = tc_attached[q]
    BY <1>18 DEF StopTcHook, ErrOut
  <2>4. configured' = configured /\ ctx' = ctx
    BY <1>18 DEF StopTcHook
  <2>5. pc'[p] = "stop_free" /\ \A q \in Procs \ {p} : refused'[q] = refused[q]
    BY <1>18, Refusals DEF StopTcHook
  <2> QED BY <2>1, <2>2, <2>3, <2>4, <2>5
<1>19. CASE StopFree(p)
  BY <1>19, <1>1 DEF StopFree
<1>20. CASE Signal(p)
  BY <1>20, <1>1 DEF Signal
<1>21. CASE Kill(p)
  BY <1>21, <1>1 DEF Kill
<1> QED BY <1>2, <1>3, <1>4, <1>5, <1>6, <1>7, <1>8, <1>9, <1>10, <1>11, <1>12, <1>13, <1>14,
           <1>15, <1>16, <1>17, <1>18, <1>19, <1>20, <1>21 DEF Start, Stop

\* No process returns to the time before its start.
LEMMA LaunchedStep ==
  ASSUME Inv, NEW p \in Procs,
         Launch(p) \/ Start(p) \/ Leave(p) \/ Stop(p) \/ Signal(p) \/ Kill(p)
  PROVE  Launched \subseteq Launched'
<1> USE DEF Goto, Proceed, ErrOut, Launched
<1>1. pc \in [Procs -> States]
  BY DEF Inv, TypeOK
<1>2. CASE Launch(p) \/ Leave(p) \/ Signal(p) \/ Kill(p)
  BY <1>1, <1>2 DEF Launch, Leave, Signal, Kill
<1>3. CASE Stop(p)
  BY <1>1, <1>3 DEF Stop, StopXdp, StopTc, StopTcHook, StopFree
<1>4. CASE Open(p) \/ LoadCtx(p) \/ LoadXdp(p) \/ LoadTc(p) \/ Configure(p) \/ CreateCtx(p)
  BY <1>1, <1>4 DEF Open, LoadCtx, LoadXdp, LoadTc, Load, Configure, CreateCtx, AfterCtx
<1>5. CASE XdpNative(p) \/ XdpGeneric(p)
  BY <1>1, <1>5 DEF XdpNative, XdpGeneric, XdpAttached, AfterXdp
<1>6. CASE TcHookCreate(p) \/ TcAttach(p) \/ TcUndo(p) \/ Ring(p)
  BY <1>1, <1>6 DEF TcHookCreate, TcAttach, TcUndo, Ring
<1> QED BY <1>2, <1>3, <1>4, <1>5, <1>6 DEF Start

LEMMA ServeStep ==
  ASSUME Inv, NEW p \in Procs,
         Launch(p) \/ Start(p) \/ Leave(p) \/ Stop(p) \/ Signal(p) \/ Kill(p)
  PROVE  ServeInv'
<1> SUFFICES ASSUME DistinctPoints'
             PROVE  (\A q \in Procs :
                       pc[q] \in {"ring", "running"} /\ UsesTc(q) => Serves(q))'
  BY DEF ServeInv
<1>30. DistinctPoints
  BY LaunchedStep DEF DistinctPoints
<1>31. \A q \in Procs :
        pc[q] \in {"ring", "running"} /\ UsesTc(q) => q \in Launched /\ Serves(q)
  BY <1>30 DEF Inv, ServeInv, Launched
<1>32. ASSUME pc[p] # "idle", UsesTc(p)
      PROVE  \A q \in Procs : q \in Launched /\ UsesTc(q) /\ q # p => Point(q) # Point(p)
  BY <1>30, <1>32 DEF DistinctPoints, Launched
<1> USE <1>31 DEF Inv, Goto, Proceed, rt, kernel, TypeOK, PhaseInv, Serves, BeforeXdp,
            Attaching
<1>1. CASE Launch(p)
  BY <1>1 DEF Launch
<1>2. CASE Open(p)
  BY <1>2 DEF Open
<1>3. CASE LoadCtx(p)
  BY <1>3 DEF LoadCtx, ErrOut
<1>4. CASE LoadXdp(p)
  BY <1>4 DEF LoadXdp, Load, ErrOut
<1>5. CASE LoadTc(p)
  BY <1>5 DEF LoadTc, Load, ErrOut
<1>6. CASE Configure(p)
  BY <1>6 DEF Configure, ErrOut
<1>7. CASE CreateCtx(p)
  BY <1>7 DEF CreateCtx, ErrOut, AfterCtx
<1>8. CASE XdpNative(p)
  BY <1>8 DEF XdpNative, XdpAttached, AfterXdp
<1>9. CASE XdpGeneric(p)
  BY <1>9 DEF XdpGeneric, XdpAttached, AfterXdp, ErrOut
<1>10. CASE TcHookCreate(p)
  BY <1>10 DEF TcHookCreate, ErrOut
<1>11. CASE TcAttach(p)
  <2>1. CASE tc_attached' = tc_attached /\ filters' = filters
    BY <1>11, <2>1 DEF TcAttach, ErrOut
  <2>2. CASE filters' = [filters EXCEPT ![Point(p)] = <<p>> \o @]
    <3>1. Serves(p)'
      BY <2>2, AttachOwners DEF Point
    <3>2. \A q \in Procs : q \in Launched /\ UsesTc(q) /\ q # p =>
            filters'[Point(q)] = filters[Point(q)]
      BY <1>11, <1>32, <2>2, AttachOwners, PointType DEF TcAttach
    <3> QED BY <1>11, <3>1, <3>2 DEF TcAttach, ErrOut
  <2> QED BY <1>11, <2>1, <2>2 DEF TcAttach
<1>12. CASE TcUndo(p)
  <2>1. \A q \in Procs : q \in Launched /\ UsesTc(q) /\ q # p =>
         filters'[Point(q)] = filters[Point(q)]
    BY <1>12, <1>32, FlushOwners, PointType DEF TcUndo
  <2> QED BY <1>12, <2>1 DEF TcUndo, ErrOut
<1>13. CASE Ring(p)
  BY <1>13 DEF Ring, ErrOut
<1>14. CASE Leave(p)
  BY <1>14 DEF Leave
<1>15. CASE StopXdp(p)
  BY <1>15 DEF StopXdp, RefusedTo
<1>16. CASE StopTc(p)
  BY <1>16 DEF StopTc
<1>17. CASE StopTcHook(p)
  <2>1. \A q \in Procs : q \in Launched /\ UsesTc(q) /\ q # p =>
         filters'[Point(q)] = filters[Point(q)]
    BY <1>17, <1>32, FlushOwners, PointType DEF StopTcHook
  <2> QED BY <1>17, <2>1 DEF StopTcHook, ErrOut
<1>18. CASE StopFree(p)
  BY <1>18 DEF StopFree
<1>19. CASE Signal(p)
  BY <1>19 DEF Signal
<1>20. CASE Kill(p)
  BY <1>20 DEF Kill
<1> QED BY <1>1, <1>2, <1>3, <1>4, <1>5, <1>6, <1>7, <1>8, <1>9, <1>10, <1>11, <1>12, <1>13,
           <1>14, <1>15, <1>16, <1>17, <1>18, <1>19, <1>20 DEF Start, Stop

----------------------------------------------------------------------------
(* The theorems. *)

LEMMA Invariance == Spec => []Inv
<1>1. Init => Inv
  <2> SUFFICES ASSUME Init PROVE Inv
    OBVIOUS
  <2>1. filters \in [Points -> Seq(Procs)] /\ \A pt \in Points : filters[pt] = <<>>
    BY DEF Init
  <2>2. \A pt \in Points : IsInjective(filters[pt]) /\ Owners(pt) = {}
    BY <2>1 DEF IsInjective, Owners
  <2>3. TypeOK
    BY <2>1, <2>2 DEF Init, TypeOK, States, NoXdp
  <2>4. PhaseInv
    BY DEF Init, PhaseInv, BeforeXdp, BeforeStop, Attaching
  <2>5. XdpInv
    BY LoaderAssumption DEF Init, XdpInv, XdpOwned, HoldsXdp, NoXdp
  <2>6. FilterInv /\ ServeInv
    BY <2>2 DEF Init, FilterInv, ServeInv
  <2> QED BY <2>3, <2>4, <2>5, <2>6 DEF Inv
<1>2. Inv /\ [Next]_vars => Inv'
  <2> SUFFICES ASSUME Inv, [Next]_vars PROVE Inv'
    OBVIOUS
  <2>1. CASE Next
    BY <2>1, TypeStep, PhaseStep, XdpStep, FilterStep, ServeStep DEF Next, Inv
  <2>2. CASE UNCHANGED vars
    BY <2>2 DEF vars, rt, kernel, Inv, TypeOK, PhaseInv, XdpInv, XdpOwned, HoldsXdp,
                FilterInv, Owners, ServeInv, Serves, DistinctPoints, Launched
  <2> QED BY <2>1, <2>2
<1> QED BY <1>1, <1>2, PTL DEF Spec

\* The state keeps its type; no process has two filters at a point.
THEOREM TypeTheorem == Spec => []TypeOK
<1>1. Inv => TypeOK
  BY DEF Inv
<1> QED BY <1>1, Invariance, PTL

\* No packet meets a hook that is attached but has no configuration or no
\* crypto context, whatever calls failed and whoever was killed.
THEOREM ReadyTheorem == Spec => []AttachedReady
<1>1. Inv => AttachedReady
  BY DEF Inv, XdpInv, FilterInv, AttachedReady
<1> QED BY <1>1, Invariance, PTL

\* A process has the XDP slot to itself from its attach to its detach.
THEOREM XdpTheorem == Spec => []XdpOwned
<1>1. Inv => XdpOwned
  BY DEF Inv, XdpInv
<1> QED BY <1>1, Invariance, PTL

\* A process that has returned, from any point of its start or from its loop,
\* holds nothing and has left on the interface only what the kernel refused to
\* remove: no failing call makes ebaf_bpf_stop skip what was attached.
THEOREM CleanExitTheorem == Spec => []CleanExit
<1>1. Inv => CleanExit
  BY DEF Inv, PhaseInv, XdpInv, HoldsXdp, FilterInv, CleanExit
<1> QED BY <1>1, Invariance, PTL

\* Processes at different attach points do not take each other's traffic, as
\* long as no two are started at one.
THEOREM ServesTheorem == Spec => []RunningServes
<1>1. Inv => RunningServes
  BY DEF Inv, ServeInv, RunningServes
<1> QED BY <1>1, Invariance, PTL

DetachedByOwner ==
  \A p \in Procs : xdp.owner = p /\ xdp' # xdp => pc[p] = "stop_xdp" /\ StopXdp(p)

\* The slot of a process, dead or alive, is emptied by its own detach only.
THEOREM DetachTheorem == Spec => OnlyOwnerDetaches
<1>1. Inv /\ [Next]_vars => DetachedByOwner
  <2> SUFFICES ASSUME Inv, [Next]_vars, NEW p \in Procs, xdp.owner = p, xdp' # xdp
               PROVE  pc[p] = "stop_xdp" /\ StopXdp(p)
    BY DEF DetachedByOwner
  <2>1. xdp # NoXdp
    BY LoaderAssumption DEF NoXdp
  <2>2. PICK q \in Procs : Launch(q) \/ Start(q) \/ Leave(q) \/ Stop(q) \/ Signal(q) \/ Kill(q)
    BY DEF Next, vars, kernel
  <2>3. ~(Launch(q) \/ Leave(q) \/ Signal(q) \/ Kill(q))
    BY DEF Launch, Leave, Signal, Kill, kernel
  <2>4. ~Start(q)
    <3>1. ~(XdpNative(q) \/ XdpGeneric(q))
      BY <2>1 DEF XdpNative, XdpGeneric, XdpAttached
    <3>2. ~(\/ Open(q) \/ LoadCtx(q) \/ LoadXdp(q) \/ LoadTc(q) \/ Configure(q)
            \/ CreateCtx(q) \/ TcHookCreate(q) \/ TcAttach(q) \/ TcUndo(q) \/ Ring(q))
      BY DEF Open, LoadCtx, LoadXdp, LoadTc, Load, Configure, CreateCtx, TcHookCreate,
             TcAttach, TcUndo, Ring, kernel
    <3> QED BY <3>1, <3>2 DEF Start
  <2>5. StopXdp(q)
    BY <2>2, <2>3, <2>4 DEF Stop, StopTc, StopTcHook, StopFree, kernel
  <2>6. pc[q] = "stop_xdp" /\ xdp_flags[q] # "none"
    BY <2>5 DEF StopXdp, RefusedTo
  <2>7. q = p
    BY <2>6 DEF Inv, XdpInv, XdpOwned, HoldsXdp
  <2> QED BY <2>5, <2>6, <2>7
<1> QED BY <1>1, Invariance, PTL DEF OnlyOwnerDetaches, DetachedByOwner, Spec

----------------------------------------------------------------------------
(* The XDP counterpart of RunningServes, which needs no assumption about the *)
(* other processes: the slot is taken once.                                  *)

\* A process that is past its XDP attach remembers the mode it attached in.
ModeKept ==
  \A p \in Procs :
    UsesXdp(p) /\ pc[p] \in {"tc_hook", "tc_attach", "tc_undo", "ring", "running"} =>
      xdp_flags[p] # "none"

LEMMA ModeStep ==
  ASSUME Inv, ModeKept, NEW p \in Procs,
         Launch(p) \/ Start(p) \/ Leave(p) \/ Stop(p) \/ Signal(p) \/ Kill(p)
  PROVE  ModeKept'
<1> USE DEF Inv, TypeOK, ModeKept, Goto, Proceed, ErrOut, UsesXdp
<1>1. CASE CreateCtx(p)
  BY <1>1 DEF CreateCtx, AfterCtx
<1>2. CASE XdpNative(p) \/ XdpGeneric(p)
  BY <1>2 DEF XdpNative, XdpGeneric, XdpAttached, AfterXdp
<1>3. CASE Launch(p) \/ Open(p) \/ LoadCtx(p) \/ LoadXdp(p) \/ LoadTc(p) \/ Configure(p)
  BY <1>3 DEF Launch, Open, LoadCtx, LoadXdp, LoadTc, Load, Configure, rt
<1>4. CASE TcHookCreate(p) \/ TcAttach(p) \/ TcUndo(p) \/ Ring(p)
  BY <1>4 DEF TcHookCreate, TcAttach, TcUndo, Ring, rt
<1>5. CASE Leave(p) \/ Stop(p)
  BY <1>5 DEF Leave, Stop, StopXdp, StopTc, StopTcHook, StopFree, rt
<1>6. CASE Signal(p) \/ Kill(p)
  BY <1>6 DEF Signal, Kill, rt
<1> QED BY <1>1, <1>2, <1>3, <1>4, <1>5, <1>6 DEF Start

\* A running process that was asked for XDP is the one whose program the
\* interface runs, in the mode it will detach: whatever the others do, no two
\* run there at once and none runs without its program.
THEOREM RunningXdpTheorem ==
  Spec => [](\A p \in Procs : pc[p] = "running" /\ UsesXdp(p) =>
               xdp = [mode |-> xdp_flags[p], owner |-> p] /\ xdp_flags[p] # "none")
<1> DEFINE Runs ==
      \A p \in Procs : pc[p] = "running" /\ UsesXdp(p) =>
        xdp = [mode |-> xdp_flags[p], owner |-> p] /\ xdp_flags[p] # "none"
<1>1. Init => ModeKept
  BY DEF Init, ModeKept
<1>2. Inv /\ ModeKept /\ [Next]_vars => ModeKept'
  <2> SUFFICES ASSUME Inv, ModeKept, [Next]_vars PROVE ModeKept'
    OBVIOUS
  <2>1. CASE Next
    BY <2>1, ModeStep DEF Next
  <2>2. CASE UNCHANGED vars
    BY <2>2 DEF vars, rt, ModeKept
  <2> QED BY <2>1, <2>2
<1>3. Inv /\ ModeKept => Runs
  BY DEF Inv, XdpInv, XdpOwned, HoldsXdp, ModeKept
<1> QED BY <1>1, <1>2, <1>3, Invariance, PTL DEF Spec

----------------------------------------------------------------------------
(* Progress.  StartReturns and SignalEnds ask that something be reached; what *)
(* they rest on beside fairness is that no step leads back.                   *)

\* The calls of ebaf_bpf_start, main's loop and ebaf_bpf_stop in their order.
Rank ==
  [idle |-> 0, open |-> 1, load_ctx |-> 2, load_xdp |-> 3, load_tc |-> 4, configure |-> 5,
   create_ctx |-> 6, xdp_native |-> 7, xdp_generic |-> 8, tc_hook |-> 9, tc_attach |-> 10,
   tc_undo |-> 11, ring |-> 12, running |-> 13, stop_xdp |-> 14, stop_tc |-> 15,
   stop_tc_hook |-> 16, stop_free |-> 17, stopped |-> 18, failed |-> 18, killed |-> 18]

\* Process p, and no other, goes on.
Advances(p) ==
  /\ \A q \in Procs \ {p} : pc'[q] = pc[q]
  /\ Rank[pc[p]] < Rank[pc'[p]]
  /\ exiting' = exiting

LEMMA RankIs ==
  /\ Rank["idle"] = 0 /\ Rank["open"] = 1 /\ Rank["load_ctx"] = 2
  /\ Rank["load_xdp"] = 3 /\ Rank["load_tc"] = 4 /\ Rank["configure"] = 5
  /\ Rank["create_ctx"] = 6 /\ Rank["xdp_native"] = 7 /\ Rank["xdp_generic"] = 8
  /\ Rank["tc_hook"] = 9 /\ Rank["tc_attach"] = 10 /\ Rank["tc_undo"] = 11
  /\ Rank["ring"] = 12 /\ Rank["running"] = 13 /\ Rank["stop_xdp"] = 14
  /\ Rank["stop_tc"] = 15 /\ Rank["stop_tc_hook"] = 16 /\ Rank["stop_free"] = 17
  /\ Rank["stopped"] = 18 /\ Rank["failed"] = 18 /\ Rank["killed"] = 18
BY DEF Rank

LEMMA StatesAre ==
  States = {"idle", "open", "load_ctx", "load_xdp", "load_tc", "configure", "create_ctx",
            "xdp_native", "xdp_generic", "tc_hook", "tc_attach", "tc_undo", "ring",
            "running", "stop_xdp", "stop_tc", "stop_tc_hook", "stop_free", "stopped",
            "failed", "killed"}
BY DEF States, Starting, Stopping, Ended

LEMMA GotoAdvances ==
  ASSUME TypeOK, NEW p \in Procs, NEW state \in States, Goto(p, state),
         Rank[pc[p]] < Rank[state], exiting' = exiting
  PROVE  Advances(p)
BY DEF TypeOK, Goto, Advances

LEMMA StepAdvances ==
  ASSUME TypeOK, NEW p \in Procs,
         Launch(p) \/ Start(p) \/ Leave(p) \/ Stop(p) \/ Kill(p)
  PROVE  Advances(p)
<1> DEFINE from == pc[p]
<1>1. \E state \in States : Goto(p, state) /\ Rank[pc[p]] < Rank[state]
  <2> USE RankIs, StatesAre DEF Proceed, ErrOut
  <2>1. CASE Launch(p) \/ Open(p) \/ LoadCtx(p)
    BY <2>1 DEF Launch, Open, LoadCtx
  <2>2. CASE LoadXdp(p) \/ LoadTc(p)
    BY <2>2 DEF LoadXdp, LoadTc, Load
  <2>3. CASE Configure(p) \/ CreateCtx(p)
    BY <2>3 DEF Configure, CreateCtx, AfterCtx
  <2>4. CASE XdpNative(p) \/ XdpGeneric(p)
    BY <2>4 DEF XdpNative, XdpGeneric, XdpAttached, AfterXdp
  <2>5. CASE TcHookCreate(p) \/ TcAttach(p)
    BY <2>5 DEF TcHookCreate, TcAttach
  <2>6. CASE TcUndo(p) \/ Ring(p) \/ Leave(p)
    BY <2>6 DEF TcUndo, Ring, Leave
  <2>7. CASE Stop(p)
    BY <2>7 DEF Stop, StopXdp, StopTc, StopTcHook, StopFree
  <2>8. CASE Kill(p)
    <3>1. \A state \in States \ Ended : Rank[state] < Rank["killed"]
      BY DEF Ended
    <3>2. pc[p] \in States \ Ended /\ Goto(p, "killed") /\ "killed" \in States
      BY <2>8 DEF Kill, TypeOK
    <3> QED BY <3>1, <3>2
  <2> QED BY <2>1, <2>2, <2>3, <2>4, <2>5, <2>6, <2>7, <2>8 DEF Start
<1>2. exiting' = exiting
  BY DEF Launch, Start, Leave, Stop, Kill, Open, LoadCtx, LoadXdp, LoadTc, Load, Configure,
         CreateCtx, XdpNative, XdpGeneric, TcHookCreate, TcAttach, TcUndo, Ring, StopXdp,
         StopTc, StopTcHook, StopFree
<1> QED BY <1>1, <1>2, GotoAdvances

\* Every step either takes one process further along its start, its loop and its
\* stop, or sets a flag that no step clears.  So no call is made twice in one
\* run, a process that ended stays ended, and all processes together take at
\* most 19 steps each: what they do cannot go round in circles.
THEOREM ProgressTheorem ==
  Spec => [][\E p \in Procs :
               \/ Advances(p)
               \/ pc' = pc /\ exiting' = [exiting EXCEPT ![p] = TRUE] /\ ~exiting[p]]_vars
<1>1. TypeOK /\ [Next]_vars =>
        [\E p \in Procs :
           \/ Advances(p)
           \/ pc' = pc /\ exiting' = [exiting EXCEPT ![p] = TRUE] /\ ~exiting[p]]_vars
  <2> SUFFICES ASSUME TypeOK, Next
               PROVE  \E p \in Procs :
                        \/ Advances(p)
                        \/ pc' = pc /\ exiting' = [exiting EXCEPT ![p] = TRUE] /\ ~exiting[p]
    OBVIOUS
  <2>1. PICK p \in Procs :
          Launch(p) \/ Start(p) \/ Leave(p) \/ Stop(p) \/ Signal(p) \/ Kill(p)
    BY DEF Next
  <2>2. CASE Signal(p)
    BY <2>2 DEF Signal
  <2>3. CASE ~Signal(p)
    BY <2>1, <2>3, StepAdvances
  <2> QED BY <2>2, <2>3
<1> QED BY <1>1, TypeTheorem, PTL DEF Spec
=============================================================================
