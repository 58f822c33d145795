----------------------------- MODULE Lifecycle -----------------------------
(***************************************************************************)
(* How testkit-service is built, started and stopped.                      *)
(*                                                                         *)
(* A host is whoever holds an instance of the service in the process: the  *)
(* server of cmd/server, or an embedder that goes through Connect.  Each   *)
(* instance connects its components one after the other and records them   *)
(* in a manager; any of these steps may fail.  Instances of one process    *)
(* meet in its module slots: testkit-service and each downstream service   *)
(* may be embedded once per process.  The steps of a host are sequential;  *)
(* those of different hosts interleave.                                    *)
(*                                                                         *)
(* lifecycle.Manager, the Connect of the downstream services and grpcx are *)
(* other repositories: they are modelled by what this one relies on.       *)
(***************************************************************************)
EXTENDS Integers, Sequences

CONSTANTS
    Servers,       \* hosts that call pkg.NewServer
    Embedders,     \* hosts that call pkg.Connect
    Deployments,   \* sets of downstream services that a config may embed
    Nobody,        \* the holder of a free slot
    MaxCalls       \* bound: calls a server works on at a time

Hosts == Servers \cup Embedders

(* The order in which New connects.                                        *)
Order == <<"redis", "db", "gid", "reference", "message", "storage", "user",
           "license", "telemetry", "portal", "jobs">>

Last        == Len(Order)
Components  == {Order[i] : i \in 1..Last}
Downstreams == Components \ {"redis", "db", "jobs"}
Slots       == Downstreams \cup {"testkit"}

ASSUME LifecycleAssumption ==
    /\ Servers \cap Embedders = {}
    /\ Nobody \notin Hosts
    /\ Deployments \subseteq SUBSET Downstreams
    /\ MaxCalls \in Nat

VARIABLES
    pc,         \* pc[h]: where the host is
    embeds,     \* embeds[h]: the downstream services in module mode
    mgr,        \* mgr[h]: the manager's list, in order of registration
    open,       \* open[h]: the components that hold connections
    up,         \* up[h]: mgr.Start has returned without an error
    listening,  \* listening[h]: grpcSrv accepts calls
    calls,      \* calls[h]: the calls being worked on
    slot        \* slot[s]: who holds the process's module slot

vars == <<pc, embeds, mgr, open, up, listening, calls, slot>>

(* lost: an instance nobody has a handle to; half: Start failed.           *)
Places == {"idle", "dialed", "building", "undoing", "refused", "built",
           "starting", "binding", "running", "half", "draining", "stopping",
           "stopped", "lost"}

(* A type invariant of the life cycle.                                     *)
TypeOK ==
    /\ pc \in [Hosts -> Places]
    /\ embeds \in [Hosts -> SUBSET Downstreams]
    /\ mgr \in [Hosts -> Seq(Components)]
    /\ open \in [Hosts -> SUBSET Components]
    /\ up \in [Hosts -> BOOLEAN]
    /\ listening \in [Hosts -> BOOLEAN]
    /\ calls \in [Hosts -> Nat]
    /\ slot \in [Slots -> Hosts \cup {Nobody}]

Init ==
    /\ pc = [h \in Hosts |-> "idle"]
    /\ embeds = [h \in Hosts |-> {}]
    /\ mgr = [h \in Hosts |-> << >>]
    /\ open = [h \in Hosts |-> {}]
    /\ up = [h \in Hosts |-> FALSE]
    /\ listening = [h \in Hosts |-> FALSE]
    /\ calls = [h \in Hosts |-> 0]
    /\ slot = [s \in Slots |-> Nobody]

At(h, places) == pc[h] \in places
Goto(h, place) == pc' = [pc EXCEPT ![h] = place]

-----------------------------------------------------------------------------
(* Module slots.                                                           *)

Claim(s, h) ==
    /\ slot[s] = Nobody
    /\ slot' = [slot EXCEPT ![s] = h]

Release(s) == slot' = [slot EXCEPT ![s] = Nobody]

-----------------------------------------------------------------------------
(* Construction.                                                           *)

(* An instance that is gone, or never was, can be asked for (again).       *)
Vacant(h) == At(h, {"idle", "refused", "stopped"})

(* New begins with a config of its own.                                    *)
New(h) ==
    /\ \E modules \in Deployments : embeds' = [embeds EXCEPT ![h] = modules]
    /\ Goto(h, "building")

NewServer(h) ==
    /\ h \in Servers /\ Vacant(h)
    /\ New(h)
    /\ UNCHANGED <<mgr, open, up, listening, calls, slot>>

(* Connect in module mode.                                                 *)
ConnectModule(h) ==
    /\ h \in Embedders /\ Vacant(h)
    /\ Claim("testkit", h)
    /\ New(h)
    /\ UNCHANGED <<mgr, open, up, listening, calls>>

(* Connect in grpc mode: no component of its own and no slot.              *)
ConnectRemote(h) ==
    /\ h \in Embedders /\ Vacant(h)
    /\ Goto(h, "dialed")
    /\ UNCHANGED <<embeds, mgr, open, up, listening, calls, slot>>

(* No target, no config, an unknown mode, a slot that is taken.            *)
ConnectRefused(h) ==
    /\ h \in Embedders /\ Vacant(h)
    /\ Goto(h, "refused")
    /\ UNCHANGED <<embeds, mgr, open, up, listening, calls, slot>>

Upcoming(h) == Order[Len(mgr[h]) + 1]

(* Slip: the scheduler is built and not added to the manager.              *)
ConnectNextUnrecorded(h) ==
    /\ At(h, {"building"}) /\ Len(mgr[h]) < Last
    /\ IF Upcoming(h) \in embeds[h] THEN Claim(Upcoming(h), h)
                                    ELSE UNCHANGED slot
    /\ open' = [open EXCEPT ![h] = @ \cup {Upcoming(h)}]
    /\ \/ mgr' = [mgr EXCEPT ![h] = Append(@, Upcoming(h))]
       \/ Upcoming(h) = "jobs" /\ UNCHANGED mgr
    /\ UNCHANGED <<pc, embeds, up, listening, calls>>

(* The next component connects and is recorded.  An embedded one claims    *)
(* its slot.                                                               *)
ConnectNext(h) ==
    /\ At(h, {"building"}) /\ Len(mgr[h]) < Last
    /\ IF Upcoming(h) \in embeds[h] THEN Claim(Upcoming(h), h)
                                    ELSE UNCHANGED slot
    /\ open' = [open EXCEPT ![h] = @ \cup {Upcoming(h)}]
    /\ mgr' = [mgr EXCEPT ![h] = Append(@, Upcoming(h))]
    /\ UNCHANGED <<pc, embeds, up, listening, calls>>

(* Slip: a return without rollback.                                        *)
ConnectFailsBare(h) ==
    /\ At(h, {"building"}) /\ Len(mgr[h]) < Last
    /\ Goto(h, "refused")
    /\ UNCHANGED <<embeds, mgr, open, up, listening, calls, slot>>

(* It cannot be connected, or its slot is taken: rollback.                 *)
ConnectFails(h) ==
    /\ At(h, {"building"}) /\ Len(mgr[h]) < Last
    /\ Goto(h, "undoing")
    /\ UNCHANGED <<embeds, mgr, open, up, listening, calls, slot>>

(* The instance is complete.  An embedder's manager gets it wrapped, so    *)
(* that its stop frees the slot.                                           *)
Complete(h) ==
    /\ At(h, {"building"}) /\ Len(mgr[h]) = Last
    /\ Goto(h, "built")
    /\ UNCHANGED <<embeds, mgr, open, up, listening, calls, slot>>

(* protovalidate.New fails after New: NewServer returns the error and      *)
(* drops the instance.                                                     *)
ValidatorFails(h) ==
    /\ h \in Servers
    /\ At(h, {"building"}) /\ Len(mgr[h]) = Last
    /\ Goto(h, "lost")
    /\ UNCHANGED <<embeds, mgr, open, up, listening, calls, slot>>

(* Slip: in order of registration.                                         *)
StopFirst(h) ==
    /\ At(h, {"undoing", "stopping"}) /\ mgr[h] # << >>
    /\ LET first == Head(mgr[h])
       IN  /\ open' = [open EXCEPT ![h] = @ \ {first}]
           /\ IF first \in embeds[h] THEN Release(first) ELSE UNCHANGED slot
    /\ mgr' = [mgr EXCEPT ![h] = Tail(@)]
    /\ up' = [up EXCEPT ![h] = FALSE]
    /\ UNCHANGED <<pc, embeds, listening, calls>>

(* The manager stops its last component, whether that returns an error or  *)
(* not; an embedded one leaves its slot.                                   *)
StopLast(h) ==
    /\ At(h, {"undoing", "stopping"}) /\ mgr[h] # << >>
    /\ LET last == mgr[h][Len(mgr[h])]
       IN  /\ open' = [open EXCEPT ![h] = @ \ {last}]
           /\ IF last \in embeds[h] THEN Release(last) ELSE UNCHANGED slot
    /\ mgr' = [mgr EXCEPT ![h] = SubSeq(@, 1, Len(@) - 1)]
    /\ up' = [up EXCEPT ![h] = FALSE]
    /\ UNCHANGED <<pc, embeds, listening, calls>>

(* Slip: the slot is freed when construction fails, rollback or not, by    *)
(* whoever fails.                                                          *)
UndoneAny(h) ==
    /\ At(h, {"undoing"}) /\ mgr[h] = << >>
    /\ Release("testkit")
    /\ Goto(h, "refused")
    /\ UNCHANGED <<embeds, mgr, open, up, listening, calls>>

(* rollback is done and Connect frees the slot it claimed.                 *)
Undone(h) ==
    /\ At(h, {"undoing"}) /\ mgr[h] = << >>
    /\ IF h \in Embedders THEN Release("testkit") ELSE UNCHANGED slot
    /\ Goto(h, "refused")
    /\ UNCHANGED <<embeds, mgr, open, up, listening, calls>>

-----------------------------------------------------------------------------
(* Start and stop.                                                         *)

Start(h) ==
    /\ At(h, {"built"})
    /\ Goto(h, "starting")
    /\ UNCHANGED <<embeds, mgr, open, up, listening, calls, slot>>

(* mgr.Start has started all components; a server goes on to listen.       *)
Started(h) ==
    /\ At(h, {"starting"})
    /\ up' = [up EXCEPT ![h] = TRUE]
    /\ Goto(h, IF h \in Servers THEN "binding" ELSE "running")
    /\ UNCHANGED <<embeds, mgr, open, listening, calls, slot>>

(* mgr.Start fails, and Start returns its error.                           *)
StartFails(h) ==
    /\ At(h, {"starting"})
    /\ Goto(h, "half")
    /\ UNCHANGED <<embeds, mgr, open, up, listening, calls, slot>>

Bind(h) ==
    /\ At(h, {"binding"})
    /\ listening' = [listening EXCEPT ![h] = TRUE]
    /\ Goto(h, "running")
    /\ UNCHANGED <<embeds, mgr, open, up, calls, slot>>

(* grpcSrv.Start fails: the instance is stopped.                           *)
BindFails(h) ==
    /\ At(h, {"binding"})
    /\ Goto(h, "stopping")
    /\ UNCHANGED <<embeds, mgr, open, up, listening, calls, slot>>

(* A call arrives at a server that listens, and is answered.               *)
CallBegins(h) ==
    /\ listening[h] /\ calls[h] < MaxCalls
    /\ calls' = [calls EXCEPT ![h] = @ + 1]
    /\ UNCHANGED <<pc, embeds, mgr, open, up, listening, slot>>

CallEnds(h) ==
    /\ calls[h] > 0
    /\ calls' = [calls EXCEPT ![h] = @ - 1]
    /\ UNCHANGED <<pc, embeds, mgr, open, up, listening, slot>>

(* Slip: the components first.                                             *)
StopAtOnce(h) ==
    /\ At(h, {"dialed", "built", "running", "half"})
    /\ listening' = [listening EXCEPT ![h] = FALSE]
    /\ Goto(h, IF pc[h] = "dialed" THEN "stopped" ELSE "stopping")
    /\ UNCHANGED <<embeds, mgr, open, up, calls, slot>>

(* The holder of a handle stops it: first the listener, then, once the     *)
(* calls are answered, the components.  A dialed client only closes.       *)
Stop(h) ==
    /\ At(h, {"dialed", "built", "running", "half"})
    /\ listening' = [listening EXCEPT ![h] = FALSE]
    /\ Goto(h, IF pc[h] = "dialed" THEN "stopped" ELSE "draining")
    /\ UNCHANGED <<embeds, mgr, open, up, calls, slot>>

(* Slip: an error of grpcSrv.Stop ends Stop.                               *)
DrainedOrStuck(h) ==
    /\ At(h, {"draining"}) /\ calls[h] = 0
    /\ \/ Goto(h, "stopping")
       \/ Goto(h, "half")
    /\ UNCHANGED <<embeds, mgr, open, up, listening, calls, slot>>

Drained(h) ==
    /\ At(h, {"draining"}) /\ calls[h] = 0
    /\ Goto(h, "stopping")
    /\ UNCHANGED <<embeds, mgr, open, up, listening, calls, slot>>

Stopped(h) ==
    /\ At(h, {"stopping"}) /\ mgr[h] = << >>
    /\ IF h \in Embedders THEN Release("testkit") ELSE UNCHANGED slot
    /\ Goto(h, "stopped")
    /\ UNCHANGED <<embeds, mgr, open, up, listening, calls>>

-----------------------------------------------------------------------------
Build(h)    == ConnectNext(h) \/ ConnectFails(h) \/ Complete(h)
                   \/ ValidatorFails(h) \/ Undone(h)
Startup(h)  == Started(h) \/ StartFails(h) \/ Bind(h) \/ BindFails(h)
Shutdown(h) == Drained(h) \/ StopLast(h) \/ Stopped(h)

Next ==
    \E h \in Hosts :
        \/ NewServer(h) \/ ConnectModule(h) \/ ConnectRemote(h)
        \/ ConnectRefused(h)
        \/ Build(h)
        \/ Start(h) \/ Startup(h)
        \/ CallBegins(h) \/ CallEnds(h)
        \/ Stop(h) \/ Shutdown(h)

Spec == Init /\ [][Next]_vars

(* Construction, start and stop run to their end once called: connecting   *)
(* has time limits, StopLast waits for jobs that finish, and every call is *)
(* answered.  Nobody has to build, start or stop anything.                 *)
FairSpec ==
    /\ Spec
    /\ \A h \in Hosts : /\ WF_vars(Build(h))
                        /\ WF_vars(Startup(h))
                        /\ WF_vars(Shutdown(h))
                        /\ WF_vars(CallEnds(h))

-----------------------------------------------------------------------------
(* Properties.                                                             *)

(* What New hands to a component for its use (WithDB, WithRedis,           *)
(* WithGIDHandler, WithMessageHandler).  A raw handler is nil unless its   *)
(* service is embedded.                                                    *)
Injected(h, c) ==
    CASE c \in {"message", "storage"} ->
             {"db", "redis"} \cup ({"gid"} \cap embeds[h])
      [] c = "user" ->
             {"db", "redis"} \cup ({"gid", "message"} \cap embeds[h])
      [] c = "license" -> {"db", "redis"}
      [] c = "telemetry" -> {"db"}
      [] OTHER -> {}

(* No component is closed while one that was handed it is open: not during *)
(* construction, rollback or stop, wherever they fail (New connects in     *)
(* dependency order and Stop goes in reverse).                             *)
UpstreamsOutliveUsers ==
    \A h \in Hosts : \A c \in open[h] : Injected(h, c) \subseteq open[h]

(* A downstream service is embedded at most once in the process, and its   *)
(* slot is held exactly while it is: no rollback frees the slot of another *)
(* instance, none is left taken.  Connect's own slot likewise.             *)
SlotsMatchModules ==
    /\ \A h \in Hosts, d \in Downstreams :
           slot[d] = h <=> d \in open[h] /\ d \in embeds[h]
    /\ \A h \in Hosts :
           slot["testkit"] = h <=> h \in Embedders /\ ~Vacant(h)
                                                   /\ pc[h] # "dialed"

(* An instance whose construction failed, or that was stopped, holds no    *)
(* connection, and a later one can be built.  NewServer's "lost" is the    *)
(* exception.                                                              *)
NothingLeftBehind ==
    \A h \in Hosts : Vacant(h) => /\ open[h] = {}
                                  /\ mgr[h] = << >>
                                  /\ \A s \in Slots : slot[s] # h

(* Whoever can call the server finds all components started and open,      *)
(* until the last call is answered.                                        *)
CallsFindBackends ==
    \A h \in Hosts : listening[h] \/ calls[h] > 0 =>
                         up[h] /\ open[h] = Components

(* A stop that was asked for, and a construction that was begun, come to   *)
(* an end.                                                                 *)
ShutdownEnds ==
    \A h \in Hosts : /\ At(h, {"draining"}) ~> At(h, {"stopped"})
                     /\ At(h, {"building"}) ~> ~At(h, {"building", "undoing"})

(* The inductive invariant.  The manager's list is the part of Order that  *)
(* was connected, what is open is what the list has, and where a host is   *)
(* tells how much of it there can be.                                      *)
ListIsPrefix ==
    \A h \in Hosts : /\ Len(mgr[h]) <= Last
                     /\ \A i \in 1..Len(mgr[h]) : mgr[h][i] = Order[i]

OpenIsListed ==
    \A h \in Hosts : open[h] = {Order[i] : i \in 1..Len(mgr[h])}

PlaceTellsState ==
    \A h \in Hosts :
        /\ At(h, {"idle", "dialed", "refused", "stopped"}) => mgr[h] = << >>
        /\ At(h, {"built", "starting", "binding", "running", "half",
                  "draining", "lost"}) => Len(mgr[h]) = Last
        /\ At(h, {"binding", "running"}) => up[h]
        /\ listening[h] => At(h, {"running"})
        /\ calls[h] > 0 => up[h] /\ At(h, {"running", "draining"})
        /\ h \in Servers => ~At(h, {"dialed"})

IInv == TypeOK /\ ListIsPrefix /\ OpenIsListed /\ PlaceTellsState
               /\ SlotsMatchModules
=============================================================================
