------------------------------- MODULE Loader -------------------------------
(***************************************************************************)
(* The life of ebaf-crypto processes on one network interface:             *)
(* ebaf_bpf_start and ebaf_bpf_stop of src/user/bpf_loader.c driven by     *)
(* src/user/main.c.                                                        *)
(*                                                                         *)
(* Several processes may start, fail at any call, be signalled and be      *)
(* killed at the same time.  Each call that reads or writes kernel state   *)
(* shared with the others (the interface's XDP slot, its clsact qdisc and  *)
(* the filters on it) is one step; calls on the process's own skeletons    *)
(* are grouped between them.  Programs and filters attached over netlink   *)
(* outlive the process, so what a process leaves behind is state that the  *)
(* next one meets.                                                         *)
(***************************************************************************)
EXTENDS Naturals, Sequences, FiniteSets, Functions

CONSTANTS
  Procs,      \* ebaf-crypto invocations
  Config,     \* invocation -> its command line
  NativeXdp,  \* does the interface's driver support native XDP?
  MayKill,    \* may a process be killed with SIGKILL?
  None,       \* no process
  MaxLaunched \* bound: processes launched

Hooks == {"xdp", "tc", "both"}

Points == {"ingress", "egress"}

\* struct ebaf_user_config, as far as the loader branches on it.
ConfigType == [hook : Hooks, action : {"encrypt", "decrypt"},
               tc_attach : {"auto"} \union Points]

ASSUME LoaderAssumption ==
  /\ Config \in [Procs -> ConfigType]
  /\ NativeXdp \in BOOLEAN /\ MayKill \in BOOLEAN
  /\ None \notin Procs
  /\ MaxLaunched \in Nat

UsesXdp(p) == Config[p].hook \in {"xdp", "both"}

UsesTc(p) == Config[p].hook \in {"tc", "both"}

\* Egress to encrypt, ingress to decrypt, unless an option says otherwise.
Point(p) == IF Config[p].tc_attach # "auto" THEN Config[p].tc_attach
            ELSE IF Config[p].action = "decrypt" THEN "ingress" ELSE "egress"

----------------------------------------------------------------------------
(* Process states, in the order of the calls. *)

Starting == {"open", "load_ctx", "load_xdp", "load_tc", "configure", "create_ctx",
             "xdp_native", "xdp_generic", "tc_hook", "tc_attach", "tc_undo", "ring"}

Stopping == {"stop_xdp", "stop_tc", "stop_tc_hook", "stop_free"}

Ended == {"stopped", "failed", "killed"}

States == {"idle", "running"} \union Starting \union Stopping \union Ended

Skeletons == {"ctx", "xdp", "tc"}

NoXdp == [mode |-> "none", owner |-> None]

VARIABLES
  pc,           \* process -> where it is
  exiting,      \* process -> main.c's flag, set by SIGINT and SIGTERM
  failing,      \* process -> is ebaf_bpf_stop running on behalf of err_out?
  skels,        \* process -> skeletons it holds
  configured,   \* process -> is its config map filled?
  ctx,          \* process -> does its ctx map hold a crypto context?
  xdp_flags,    \* process -> rt->xdp_flags
  tc_attached,  \* process -> rt->tc_attached
  hook_created, \* process -> attach_tc's hook_created
  event_ring,   \* process -> is rt->event_ring set?
  xdp,          \* kernel: the interface's XDP slot
  clsact,       \* kernel: does the interface have a clsact qdisc?
  filters,      \* kernel: attach point -> owners of its filters, newest first
  refused       \* history: process -> what the kernel refused to remove for it

rt == <<skels, configured, ctx, xdp_flags, tc_attached, hook_created, event_ring>>
kernel == <<xdp, clsact, filters, refused>>
vars == <<pc, exiting, failing, rt, kernel>>

Init ==
  /\ pc = [p \in Procs |-> "idle"]
  /\ exiting = [p \in Procs |-> FALSE]
  /\ failing = [p \in Procs |-> FALSE]
  /\ skels = [p \in Procs |-> {}]
  /\ configured = [p \in Procs |-> FALSE]
  /\ ctx = [p \in Procs |-> FALSE]
  /\ xdp_flags = [p \in Procs |-> "none"]
  /\ tc_attached = [p \in Procs |-> FALSE]
  /\ hook_created = [p \in Procs |-> FALSE]
  /\ event_ring = [p \in Procs |-> FALSE]
  /\ xdp = NoXdp
  /\ clsact \in BOOLEAN
  /\ filters = [pt \in Points |-> <<>>]
  /\ refused = [p \in Procs |-> {}]

Goto(p, state) == pc' = [pc EXCEPT ![p] = state]

\* goto err_out: the caller undoes everything done so far.
ErrOut(p) ==
  /\ Goto(p, "stop_xdp")
  /\ failing' = [failing EXCEPT ![p] = TRUE]

Proceed(p, state) == Goto(p, state) /\ UNCHANGED failing

----------------------------------------------------------------------------
(* ebaf_bpf_start. *)

\* Where the start goes on after a stage, skipping the hooks not asked for.
AfterCtx(p) == IF UsesXdp(p) THEN "xdp_native" ELSE "tc_hook"

AfterXdp(p) == IF UsesTc(p) THEN "tc_hook" ELSE "ring"

Launched == {p \in Procs : pc[p] # "idle"}

Launch(p) ==
  /\ pc[p] = "idle"
  /\ Cardinality(Launched) < MaxLaunched
  /\ Proceed(p, "open")
  /\ UNCHANGED <<exiting, rt, kernel>>

\* if_nametoindex and the opening of the first skeleton return without
\* err_out: nothing has been acquired.
Open(p) ==
  /\ pc[p] = "open"
  /\ UNCHANGED <<exiting, configured, ctx, xdp_flags, tc_attached, hook_created,
                 event_ring, kernel>>
  /\ \/ /\ Proceed(p, "load_ctx")
        /\ skels' = [skels EXCEPT ![p] = {"ctx"}]
     \/ Proceed(p, "failed") /\ UNCHANGED skels

LoadCtx(p) ==
  /\ pc[p] = "load_ctx"
  /\ UNCHANGED <<exiting, rt, kernel>>
  /\ Proceed(p, "load_xdp") \/ ErrOut(p)

\* A skeleton that was opened is held even if loading it fails.
Load(p, skel, state, after) ==
  /\ pc[p] = state
  /\ UNCHANGED <<exiting, configured, ctx, xdp_flags, tc_attached, hook_created,
                 event_ring, kernel>>
  /\ \/ skels' = [skels EXCEPT ![p] = @ \union {skel}] /\ (Proceed(p, after) \/ ErrOut(p))
     \/ ErrOut(p) /\ UNCHANGED skels

\* The XDP program is loaded whatever the hook: TC shares its maps.
LoadXdp(p) ==
  Load(p, "xdp", "load_xdp", IF UsesTc(p) THEN "load_tc" ELSE "configure")

LoadTc(p) == Load(p, "tc", "load_tc", "configure")

Configure(p) ==
  /\ pc[p] = "configure"
  /\ UNCHANGED <<exiting, skels, ctx, xdp_flags, tc_attached, hook_created, event_ring,
                 kernel>>
  /\ \/ Proceed(p, "create_ctx") /\ configured' = [configured EXCEPT ![p] = TRUE]
     \/ ErrOut(p) /\ UNCHANGED configured

\* Mutant: the return value of the program itself is not looked at.
CreateCtxUnchecked(p) ==
  /\ pc[p] = "create_ctx"
  /\ UNCHANGED <<exiting, skels, configured, xdp_flags, tc_attached, hook_created,
                 event_ring, kernel>>
  /\ \/ ctx' \in {ctx, [ctx EXCEPT ![p] = TRUE]} /\ Proceed(p, AfterCtx(p))
     \/ ErrOut(p) /\ UNCHANGED ctx

\* bpf_prog_test_run_opts of create_crypto_ctx: a negative return of either
\* the run or the program ends the start.
CreateCtx(p) ==
  /\ pc[p] = "create_ctx"
  /\ UNCHANGED <<exiting, skels, configured, xdp_flags, tc_attached, hook_created,
                 event_ring, kernel>>
  /\ \/ configured[p] /\ ctx' = [ctx EXCEPT ![p] = TRUE] /\ Proceed(p, AfterCtx(p))
     \/ ErrOut(p) /\ UNCHANGED ctx

\* Mutant: without XDP_FLAGS_UPDATE_IF_NOEXIST, a program of the same mode
\* is replaced.
XdpAttachedReplacing(p, mode) ==
  /\ xdp.mode \in {"none", mode}
  /\ xdp' = [mode |-> mode, owner |-> p]
  /\ xdp_flags' = [xdp_flags EXCEPT ![p] = mode]
  /\ Proceed(p, AfterXdp(p))

\* Mutant: the flag of the update is kept among those of the mode.
XdpAttachedAllFlags(p, mode) ==
  /\ xdp = NoXdp
  /\ xdp' = [mode |-> mode, owner |-> p]
  /\ xdp_flags' = [xdp_flags EXCEPT ![p] = mode \o "|no_replace"]
  /\ Proceed(p, AfterXdp(p))

\* bpf_xdp_attach with XDP_FLAGS_UPDATE_IF_NOEXIST: the slot must be free in
\* both modes.
XdpAttached(p, mode) ==
  /\ xdp = NoXdp
  /\ xdp' = [mode |-> mode, owner |-> p]
  /\ xdp_flags' = [xdp_flags EXCEPT ![p] = mode]
  /\ Proceed(p, AfterXdp(p))

\* The first attempt; any error, a taken slot included, leads to the second.
XdpNative(p) ==
  /\ pc[p] = "xdp_native"
  /\ UNCHANGED <<exiting, skels, configured, ctx, tc_attached, hook_created, event_ring,
                 clsact, filters, refused>>
  /\ \/ NativeXdp /\ XdpAttached(p, "native")
     \/ Proceed(p, "xdp_generic") /\ UNCHANGED <<xdp, xdp_flags>>

\* Mutant: a taken slot is tried again until it is free.
XdpGenericRetries(p) ==
  /\ pc[p] = "xdp_generic"
  /\ UNCHANGED <<exiting, skels, configured, ctx, tc_attached, hook_created, event_ring,
                 clsact, filters, refused>>
  /\ \/ XdpAttached(p, "generic")
     \/ /\ IF xdp # NoXdp THEN Proceed(p, "xdp_native") ELSE ErrOut(p)
        /\ UNCHANGED <<xdp, xdp_flags>>

XdpGeneric(p) ==
  /\ pc[p] = "xdp_generic"
  /\ UNCHANGED <<exiting, skels, configured, ctx, tc_attached, hook_created, event_ring,
                 clsact, filters, refused>>
  /\ \/ XdpAttached(p, "generic")
     \/ ErrOut(p) /\ UNCHANGED <<xdp, xdp_flags>>

\* attach_tc: bpf_tc_hook_create makes the clsact qdisc, or finds it there.
TcHookCreate(p) ==
  /\ pc[p] = "tc_hook"
  /\ UNCHANGED <<exiting, skels, configured, ctx, xdp_flags, tc_attached, event_ring, xdp,
                 filters, refused>>
  /\ \/ /\ clsact' = TRUE
        /\ hook_created' = [hook_created EXCEPT ![p] = ~clsact]
        /\ Proceed(p, "tc_attach")
     \/ ErrOut(p) /\ UNCHANGED <<clsact, hook_created>>

\* bpf_tc_attach: the new filter runs before those already there.  This is the
\* last that attach_tc's local hook_created is needed for.
TcAttach(p) ==
  /\ pc[p] = "tc_attach"
  /\ UNCHANGED <<exiting, skels, configured, ctx, xdp_flags, event_ring, xdp, clsact,
                 refused>>
  /\ hook_created' = [hook_created EXCEPT ![p] = FALSE]
  /\ \/ /\ filters' = [filters EXCEPT ![Point(p)] = <<p>> \o @]
        /\ tc_attached' = [tc_attached EXCEPT ![p] = TRUE]
        /\ Proceed(p, "ring")
     \/ /\ IF hook_created[p] THEN Proceed(p, "tc_undo") ELSE ErrOut(p)
        /\ UNCHANGED <<filters, tc_attached>>

\* Mutant: the hook is destroyed for both attach points at once.
FlushQdisc(p) == filters' = [pt \in Points |-> <<>>]

\* bpf_tc_hook_destroy of one attach point removes every filter on it and
\* leaves the qdisc.
FlushPoint(p) == filters' = [filters EXCEPT ![Point(p)] = <<>>]

\* Its result is not looked at: if the kernel refuses, the point stays as it is.
TcUndo(p) ==
  /\ pc[p] = "tc_undo"
  /\ FlushPoint(p) \/ UNCHANGED filters
  /\ ErrOut(p)
  /\ UNCHANGED <<exiting, rt, xdp, clsact, refused>>

\* Mutant: a missing ring returns without undoing the attachments.
RingNoUndo(p) ==
  /\ pc[p] = "ring"
  /\ UNCHANGED <<exiting, skels, configured, ctx, xdp_flags, tc_attached, hook_created,
                 kernel>>
  /\ \/ Proceed(p, "running") /\ event_ring' = [event_ring EXCEPT ![p] = TRUE]
     \/ Proceed(p, "failed") /\ UNCHANGED event_ring

\* Mutant: main clears the flag once the start has returned.
RingClearsFlag(p) ==
  /\ pc[p] = "ring"
  /\ UNCHANGED <<skels, configured, ctx, xdp_flags, tc_attached, hook_created, kernel>>
  /\ \/ /\ Proceed(p, "running")
        /\ event_ring' = [event_ring EXCEPT ![p] = TRUE]
        /\ exiting' = [exiting EXCEPT ![p] = FALSE]
     \/ ErrOut(p) /\ UNCHANGED <<event_ring, exiting>>

Ring(p) ==
  /\ pc[p] = "ring"
  /\ UNCHANGED <<exiting, skels, configured, ctx, xdp_flags, tc_attached, hook_created,
                 kernel>>
  /\ \/ Proceed(p, "running") /\ event_ring' = [event_ring EXCEPT ![p] = TRUE]
     \/ ErrOut(p) /\ UNCHANGED event_ring

----------------------------------------------------------------------------
(* main's loop and ebaf_bpf_stop. *)

\* The loop ends when a signal has set the flag or when --duration is over.
\* Its body (print, poll, sleep) changes nothing modelled here.
Leave(p) ==
  /\ pc[p] = "running"
  /\ Proceed(p, "stop_xdp")
  /\ UNCHANGED <<exiting, rt, kernel>>

LeaveOnSignal(p) == exiting[p] /\ Leave(p)

\* The kernel did not do what p's cleanup asked of it.
RefusedTo(p, remove) == refused' = [refused EXCEPT ![p] = @ \union {remove}]

\* Mutant: the program is detached whether or not this process attached it.
StopXdpAlways(p) ==
  /\ pc[p] = "stop_xdp"
  /\ \/ xdp' = NoXdp /\ UNCHANGED refused
     \/ RefusedTo(p, "xdp") /\ UNCHANGED xdp
  /\ Proceed(p, IF tc_attached[p] THEN "stop_tc" ELSE "stop_free")
  /\ UNCHANGED <<exiting, rt, clsact, filters>>

\* bpf_xdp_detach names the mode, not the program.  Its result is ignored: a
\* refusal leaves the program where it is, and the stop goes on.
StopXdp(p) ==
  /\ pc[p] = "stop_xdp"
  /\ \/ /\ xdp' = IF xdp_flags[p] # "none" /\ xdp.mode = xdp_flags[p] THEN NoXdp ELSE xdp
        /\ UNCHANGED refused
     \/ /\ xdp_flags[p] # "none" /\ RefusedTo(p, "xdp")
        /\ UNCHANGED xdp
  /\ Proceed(p, IF tc_attached[p] THEN "stop_tc" ELSE "stop_free")
  /\ UNCHANGED <<exiting, rt, clsact, filters>>

\* bpf_tc_detach is given the options of the attach, prog_fd included, which
\* libbpf refuses: it removes nothing.
StopTc(p) ==
  /\ pc[p] = "stop_tc"
  /\ Proceed(p, "stop_tc_hook")
  /\ UNCHANGED <<exiting, rt, kernel>>

\* Its result is ignored as well.
StopTcHook(p) ==
  /\ pc[p] = "stop_tc_hook"
  /\ \/ FlushPoint(p) /\ UNCHANGED refused
     \/ RefusedTo(p, "tc") /\ UNCHANGED filters
  /\ Proceed(p, "stop_free")
  /\ UNCHANGED <<exiting, rt, xdp, clsact>>

\* Free the ring, destroy the skeletons, reset rt and return.
StopFree(p) ==
  /\ pc[p] = "stop_free"
  /\ Proceed(p, IF failing[p] THEN "failed" ELSE "stopped")
  /\ skels' = [skels EXCEPT ![p] = {}]
  /\ event_ring' = [event_ring EXCEPT ![p] = FALSE]
  /\ xdp_flags' = [xdp_flags EXCEPT ![p] = "none"]
  /\ tc_attached' = [tc_attached EXCEPT ![p] = FALSE]
  /\ UNCHANGED <<exiting, configured, ctx, hook_created, kernel>>

----------------------------------------------------------------------------
(* The environment. *)

\* SIGINT or SIGTERM: the handler only sets the flag.
Signal(p) ==
  /\ pc[p] \notin {"idle"} \union Ended
  /\ ~exiting[p]
  /\ exiting' = [exiting EXCEPT ![p] = TRUE]
  /\ UNCHANGED <<pc, failing, rt, kernel>>

\* SIGKILL: the process is gone with its memory and its descriptors; what it
\* attached stays, with the maps the attached programs use.
Kill(p) ==
  /\ MayKill
  /\ pc[p] \notin {"idle"} \union Ended
  /\ Proceed(p, "killed")
  /\ skels' = [skels EXCEPT ![p] = {}]
  /\ xdp_flags' = [xdp_flags EXCEPT ![p] = "none"]
  /\ tc_attached' = [tc_attached EXCEPT ![p] = FALSE]
  /\ hook_created' = [hook_created EXCEPT ![p] = FALSE]
  /\ event_ring' = [event_ring EXCEPT ![p] = FALSE]
  /\ UNCHANGED <<exiting, configured, ctx, kernel>>

Start(p) ==
  \/ Open(p) \/ LoadCtx(p) \/ LoadXdp(p) \/ LoadTc(p) \/ Configure(p) \/ CreateCtx(p)
  \/ XdpNative(p) \/ XdpGeneric(p) \/ TcHookCreate(p) \/ TcAttach(p) \/ TcUndo(p)
  \/ Ring(p)

Stop(p) == StopXdp(p) \/ StopTc(p) \/ StopTcHook(p) \/ StopFree(p)

Next ==
  \E p \in Procs : Launch(p) \/ Start(p) \/ Leave(p) \/ Stop(p) \/ Signal(p) \/ Kill(p)

\* A process that is running its code keeps running it: every call returns,
\* and the loop's poll and sleep time out.  Nobody has to start or signal it.
Fairness ==
  \A p \in Procs : WF_vars(Start(p)) /\ WF_vars(LeaveOnSignal(p)) /\ WF_vars(Stop(p))

Spec == Init /\ [][Next]_vars /\ Fairness

----------------------------------------------------------------------------
(* Properties. *)

Owners(pt) == {filters[pt][i] : i \in DOMAIN filters[pt]}

\* The state has its type; a point holds at most one filter per process.
TypeOK ==
  /\ pc \in [Procs -> States]
  /\ exiting \in [Procs -> BOOLEAN] /\ failing \in [Procs -> BOOLEAN]
  /\ skels \in [Procs -> SUBSET Skeletons]
  /\ configured \in [Procs -> BOOLEAN] /\ ctx \in [Procs -> BOOLEAN]
  /\ xdp_flags \in [Procs -> {"none", "native", "generic"}]
  /\ tc_attached \in [Procs -> BOOLEAN] /\ hook_created \in [Procs -> BOOLEAN]
  /\ event_ring \in [Procs -> BOOLEAN]
  /\ xdp \in [mode : {"none", "native", "generic"}, owner : Procs \union {None}]
  /\ clsact \in BOOLEAN
  /\ filters \in [Points -> Seq(Procs)]
  /\ \A pt \in Points : IsInjective(filters[pt])
  /\ refused \in [Procs -> SUBSET {"xdp", "tc"}]

\* A program the kernel can run, on the XDP slot or on a filter, finds a
\* filled config map and a crypto context, whatever failed or was killed
\* before: no packet meets a hook that is attached but not ready.
AttachedReady ==
  \A p \in Procs :
    xdp.owner = p \/ (\E pt \in Points : p \in Owners(pt)) => configured[p] /\ ctx[p]

\* Does p still hold what xdp_flags says it attached?
HoldsXdp(p) == xdp_flags[p] # "none" /\ pc[p] \in {"tc_hook", "tc_attach", "tc_undo",
                                                  "ring", "running", "stop_xdp"}

\* Between its attach and its detach a process has the slot to itself, in
\* the mode it will detach: no other start replaces it and no other stop,
\* successful or through err_out, empties it.
XdpOwned == \A p \in Procs : HoldsXdp(p) => xdp = [mode |-> xdp_flags[p], owner |-> p]

\* A process that has returned from main, however far its start got, holds no
\* skeleton and no ring, and has left a program or a filter on the interface
\* only if the kernel refused the very call that removes it.
CleanExit ==
  \A p \in Procs : pc[p] \in {"stopped", "failed"} =>
    /\ xdp.owner = p => "xdp" \in refused[p]
    /\ \A pt \in Points : p \in Owners(pt) => "tc" \in refused[p]
    /\ skels[p] = {} /\ ~event_ring[p]

\* The slot of a process, also of one that was killed, is emptied by no step
\* but its own detach: what SIGKILL leaves on the interface no later
\* ebaf-crypto takes away, and each of their XDP starts fails.
OnlyOwnerDetaches ==
  [][\A p \in Procs : xdp.owner = p /\ xdp' # xdp => pc[p] = "stop_xdp" /\ StopXdp(p)]_vars

\* Does traffic at p's attach point go through p's filter first?
Serves(p) == filters[Point(p)] # <<>> /\ Head(filters[Point(p)]) = p

DistinctPoints ==
  \A p, q \in Launched : p # q /\ UsesTc(p) /\ UsesTc(q) => Point(p) # Point(q)

\* Processes at different attach points do not disturb each other: whatever
\* the other one does, starting, failing, stopping or being killed, a running
\* process keeps its filter in front as long as no other one was started at
\* its attach point.
RunningServes ==
  DistinctPoints => \A p \in Procs : pc[p] = "running" /\ UsesTc(p) => Serves(p)

\* A process that was asked to end ends, also when the signal came before
\* its start was over.
SignalEnds == \A p \in Procs : exiting[p] ~> pc[p] \in Ended

\* A start does not hang: it is running or over.
StartReturns == \A p \in Procs : pc[p] \in Starting ~> pc[p] \in {"running"} \union Ended
=============================================================================
