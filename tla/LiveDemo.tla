------------------------------ MODULE LiveDemo ------------------------------
(***************************************************************************)
(* The life of the dashboard, Demo and main of                             *)
(* scripts/demo_live_cipher.py: it makes a network namespace and a veth    *)
(* pair, starts two ebaf-crypto, a receiver and a sender, serves pages     *)
(* until told to stop, and cleans up, also when a step of all this fails.  *)
(* Its children may end by themselves, or not react to SIGTERM.            *)
(***************************************************************************)
EXTENDS Naturals, Sequences

CONSTANTS
  Traffic,     \* --traffic: the values it may have
  Stubborn     \* children that may not react to SIGTERM

Children == {"app", "decrypt_app", "receiver", "sender"}

ASSUME DemoAssumption == Traffic \subseteq {"synthetic", "ffmpeg"} /\ Stubborn \subseteq Children

VARIABLES
  traffic,  \* --traffic
  pc,       \* where main is
  stop,     \* the stop event
  child,    \* child -> state of the process
  todo,     \* children cleanup has still to see to
  netns, link, \* the namespace and the veth pair
  batch     \* the thread of the synthetic sender

vars == <<traffic, pc, stop, child, todo, netns, link, batch>>

\* Left is what the kernel refused to remove.
NetStates == {"absent", "present", "left"}

ChildStates == {"none", "up", "asked", "killed", "dead"}

Steps == {"netns", "link", "configure", "app", "decrypt_app", "check_app",
          "check_decrypt_app", "receiver", "check_receiver", "traffic", "server", "serve"}

Init ==
  /\ traffic \in Traffic
  /\ pc = "netns" /\ stop = FALSE
  /\ child = [c \in Children |-> "none"] /\ todo = <<>>
  /\ netns = "absent" /\ link = "absent"
  /\ batch = "off"

----------------------------------------------------------------------------
(* Starting: each step may raise, and main goes to its finally. *)

CleanupOrder == <<"sender", "receiver", "app", "decrypt_app">>

\* demo.cleanup() is entered: the stop event is set first.
EnterCleanup == pc' = "cleanup" /\ stop' = TRUE /\ todo' = CleanupOrder

Fail ==
  /\ pc \in Steps \ {"serve"}
  /\ EnterCleanup
  /\ UNCHANGED <<traffic, child, netns, link, batch>>

\* setup(): the namespace, the veth pair, then addresses and MACs.
AddNetns ==
  /\ pc = "netns" /\ pc' = "link" /\ netns' = "present"
  /\ UNCHANGED <<traffic, stop, child, todo, link, batch>>

AddLink ==
  /\ pc = "link" /\ pc' = "configure" /\ link' = "present"
  /\ UNCHANGED <<traffic, stop, child, todo, netns, batch>>

Configure ==
  /\ pc = "configure" /\ pc' = "app"
  /\ UNCHANGED <<traffic, stop, child, todo, netns, link, batch>>

Launch(c, next) ==
  /\ pc = c /\ pc' = next
  /\ child' = [child EXCEPT ![c] = "up"]
  /\ UNCHANGED <<traffic, stop, todo, netns, link, batch>>

\* A while after its start a child must still run, otherwise Demo raises: the
\* two ebaf-crypto after two seconds, the receiver after 0.2 seconds.
Check(here, c, next) ==
  /\ pc = here /\ child[c] = "up"
  /\ pc' = next
  /\ UNCHANGED <<traffic, stop, child, todo, netns, link, batch>>

StartCrypto ==
  \/ Launch("app", "decrypt_app") \/ Launch("decrypt_app", "check_app")
  \/ Check("check_app", "app", "check_decrypt_app")
  \/ Check("check_decrypt_app", "decrypt_app", "receiver")

StartReceiver ==
  Launch("receiver", "check_receiver") \/ Check("check_receiver", "receiver", "traffic")

\* The sender: a thread of the dashboard, or ffmpeg.
StartTraffic ==
  /\ pc = "traffic" /\ pc' = "server"
  /\ IF traffic = "synthetic"
     THEN batch' = "check" /\ UNCHANGED child
     ELSE child' = [child EXCEPT !["sender"] = "up"] /\ UNCHANGED batch
  /\ UNCHANGED <<traffic, stop, todo, netns, link>>

StartServer ==
  /\ pc = "server" /\ pc' = "serve"
  /\ UNCHANGED <<traffic, stop, child, todo, netns, link, batch>>

----------------------------------------------------------------------------
(* Serving, and the threads and processes beside main. *)

\* A signal, POST /api/stop, or the end of --duration.
Stop ==
  /\ pc # "stopped" /\ ~stop
  /\ stop' = TRUE
  /\ UNCHANGED <<traffic, pc, child, todo, netns, link, batch>>

\* handle_request returns at the latest after half a second.
ServeEnds ==
  /\ pc = "serve" /\ stop
  /\ EnterCleanup
  /\ UNCHANGED <<traffic, child, netns, link, batch>>

\* A child crashes, or ebaf-crypto cannot start.
Crash(c) ==
  /\ child[c] = "up"
  /\ child' = [child EXCEPT ![c] = "dead"]
  /\ UNCHANGED <<traffic, pc, stop, todo, netns, link, batch>>

Obey(c) ==
  /\ child[c] = "killed" \/ (child[c] = "asked" /\ c \notin Stubborn)
  /\ child' = [child EXCEPT ![c] = "dead"]
  /\ UNCHANGED <<traffic, pc, stop, todo, netns, link, batch>>

\* _send_loop: a batch is built and handed to a child process of its own,
\* which cleanup does not know and which ends when it has sent the batch.
\* The thread dies with main.
StartBatch ==
  /\ batch = "check" /\ pc # "stopped"
  /\ batch' = IF stop THEN "off" ELSE "run"
  /\ UNCHANGED <<traffic, pc, stop, child, todo, netns, link>>

BatchEnds ==
  /\ batch = "run"
  /\ batch' = IF pc = "stopped" THEN "off" ELSE "check"
  /\ UNCHANGED <<traffic, pc, stop, child, todo, netns, link>>

----------------------------------------------------------------------------
(* cleanup() *)

NextChild == todo' = Tail(todo)

\* Mutant: terminate() is called on what never started.
AskedAll(state) == IF state = "none" THEN "AttributeError" ELSE "asked"

\* if proc and proc.poll() is None: proc.terminate()
Asked(state) == IF state = "up" THEN "asked" ELSE state

Terminate ==
  /\ pc = "cleanup" /\ todo # <<>> /\ child[Head(todo)] \notin {"asked", "killed"}
  /\ child' = [child EXCEPT ![Head(todo)] = Asked(@)]
  /\ IF child'[Head(todo)] = "asked" THEN UNCHANGED todo ELSE NextChild
  /\ UNCHANGED <<traffic, pc, stop, netns, link, batch>>

\* Mutant: wait() has no timeout.
GivesUpNever == FALSE

\* proc.wait(timeout=3) raises TimeoutExpired. If the child ends in time, the
\* wait returns and Terminate passes over it.
GivesUp == pc = "cleanup" /\ todo # <<>> /\ child[Head(todo)] = "asked"

KillIt ==
  /\ GivesUp
  /\ child' = [child EXCEPT ![Head(todo)] = "killed"]
  /\ NextChild
  /\ UNCHANGED <<traffic, pc, stop, netns, link, batch>>

\* ip netns del, then ip link del, whether or not there is something to remove;
\* their results are not looked at, a refusal included.
Removal(net) == IF net = "present" THEN {"absent", "left"} ELSE {net}

\* Mutant: cleanup ends when the namespace could not be removed.
DeleteNetnsChecked ==
  /\ pc = "cleanup" /\ todo = <<>>
  /\ netns' \in Removal(netns)
  /\ pc' = IF netns' = "left" THEN "stopped" ELSE "dellink"
  /\ UNCHANGED <<traffic, stop, child, todo, link, batch>>

DeleteNetns ==
  /\ pc = "cleanup" /\ todo = <<>>
  /\ pc' = "dellink" /\ netns' \in Removal(netns)
  /\ UNCHANGED <<traffic, stop, child, todo, link, batch>>

DeleteLink ==
  /\ pc = "dellink"
  /\ pc' = "stopped" /\ link' \in Removal(link)
  /\ UNCHANGED <<traffic, stop, child, todo, netns, batch>>

----------------------------------------------------------------------------
Start == AddNetns \/ AddLink \/ Configure \/ StartCrypto \/ StartReceiver
           \/ StartTraffic \/ StartServer

Cleanup == Terminate \/ KillIt \/ DeleteNetns \/ DeleteLink

Main == Start \/ Fail \/ ServeEnds \/ Cleanup

Next ==
  \/ Main \/ Stop
  \/ \E c \in Children : Crash(c) \/ Obey(c)
  \/ StartBatch \/ BatchEnds

\* main's thread and the sender's are scheduled, a batch ends, and a child
\* that was killed, or asked and is not stubborn, ends.
Fairness ==
  /\ WF_vars(Main) /\ WF_vars(StartBatch) /\ WF_vars(BatchEnds)
  /\ \A c \in Children : WF_vars(Obey(c))

Spec == Init /\ [][Next]_vars /\ Fairness

----------------------------------------------------------------------------
(* Properties. *)

\* The state has its type; in particular terminate() is never called on a
\* child that was not started.
TypeOK ==
  /\ traffic \in Traffic /\ stop \in BOOLEAN /\ netns \in NetStates /\ link \in NetStates
  /\ pc \in Steps \union {"cleanup", "dellink", "stopped"}
  /\ child \in [Children -> ChildStates]
  /\ todo \in Seq(Children) /\ batch \in {"off", "check", "run"}

\* However far the start came and whatever failed, after cleanup no child was
\* left alone, and the namespace and the veth pair are gone, each unless the
\* kernel refused to remove it: a refusal of one keeps nothing else.
Cleaned ==
  pc = "stopped" =>
    /\ \A c \in Children : child[c] \in {"none", "killed", "dead"}
    /\ netns # "present" /\ link # "present"

\* Once told to stop, or failed, the dashboard comes to its end, with no child
\* and no batch of the synthetic sender left running, even if a child does not
\* react to SIGTERM.
EndsAlone ==
  (stop \/ pc = "cleanup") ~>
    [](/\ pc = "stopped" /\ batch # "run"
       /\ \A c \in Children : child[c] \in {"none", "dead"})
=============================================================================
