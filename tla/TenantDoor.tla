----------------------------- MODULE TenantDoor -----------------------------
(***************************************************************************)
(* What the tenant gate promises, without its cache: the matrix of the     *)
(* package comment of internal/tenantgate, applied to a view of the        *)
(* portal's tables that may lag behind them by less than Staleness.        *)
(*                                                                         *)
(* A request that needs the portal is pending until it is settled in one   *)
(* step, against one view; it may also find the portal unavailable.        *)
(* TenantGate implements this module (DoorSpec there).                     *)
(***************************************************************************)
EXTENDS Integers

CONSTANTS Admins, Staff, EndUsers, NoActor, Tenants, ConsoleKey, NoKey,
          Registry, Requests, Staleness

VARIABLES portal, changedAt, clock, door

doorVars == <<portal, changedAt, clock, door>>

Actors   == Admins \cup Staff \cup EndUsers \cup {NoActor}
Choices  == Tenants \cup {NoKey}
Keys     == Choices \cup {ConsoleKey}
Subjects == DOMAIN portal

Asked(actor, choice, route) ==
    [pc |-> "pending", actor |-> actor, choice |-> choice, route |-> route,
     key |-> NoKey]

(* The same request with a verdict, and the key it carries.                *)
Answer(q, pc, key) ==
    [pc |-> pc, actor |-> q.actor, choice |-> q.choice, route |-> q.route,
     key |-> key]

Nobody == Answer(Asked(NoActor, NoKey, "scoped"), "idle", NoKey)

Init ==
    /\ changedAt = [s \in Subjects |-> [k \in Tenants |-> 0]]
    /\ clock = 1
    /\ door = [r \in Requests |-> Nobody]

Tick ==
    /\ clock' = clock + 1
    /\ UNCHANGED <<portal, changedAt, door>>

PortalChanges(s, k) ==
    /\ portal' = [portal EXCEPT ![s] =
                     IF k \in @ THEN @ \ {k} ELSE @ \cup {k}]
    /\ changedAt' = [changedAt EXCEPT ![s][k] = clock]
    /\ UNCHANGED <<clock, door>>

(* Whose table decides: the administrator's own, or the registry.          *)
Subject(q) == IF q.actor \in Admins THEN q.actor ELSE Registry

(* A view of s that differs from the truth only where it changed lately.   *)
Plausible(s, view) ==
    \A k \in Tenants :
        \/ (k \in view) <=> (k \in portal[s])
        \/ changedAt[s][k] > 0 /\ clock < changedAt[s][k] + Staleness

NeedsPortal(q) ==
    /\ q.route # "preflight"
    /\ \/ q.actor \in Admins
       \/ q.actor \in Staff /\ q.choice # NoKey

(* The keys the matrix lets a request carry: one, or none for a denial.    *)
Granted(q, view) ==
    IF q.route = "preflight" THEN {NoKey} ELSE
    {k \in Keys :
        \/ q.actor = NoActor /\ k = ConsoleKey
        \/ q.actor \in EndUsers /\ q.choice = NoKey /\ k = NoKey
        \/ q.actor \in Staff /\ k = q.choice /\ k \in view \cup {NoKey}
        \/ q.actor \in Admins /\ q.choice # NoKey /\ k = q.choice /\ k \in view
        \/ q.actor \in Admins /\ q.choice = NoKey /\ view = {k}
        \/ /\ q.actor \in Admins /\ q.choice = NoKey /\ k = NoKey
           /\ q.route = "whoami" /\ \A t \in Tenants : view # {t}}

Answers(q, view) ==
    IF Granted(q, view) # {}
    THEN {Answer(q, "forwarded", k) : k \in Granted(q, view)}
    ELSE {Answer(q, "denied", NoKey)}

Free(r) == door[r].pc \in {"idle", "forwarded", "denied", "unavailable"}

Turn(r, q) ==
    /\ door' = [door EXCEPT ![r] = q]
    /\ UNCHANGED <<portal, changedAt, clock>>

Ask(r) ==
    /\ Free(r)
    /\ \E actor \in Actors, choice \in Choices,
          route \in {"whoami", "scoped", "preflight"} :
          LET q == Asked(actor, choice, route) IN
          IF NeedsPortal(q) THEN Turn(r, q)
          ELSE \E a \in Answers(q, {}) : Turn(r, a)

Settle(r) ==
    /\ door[r].pc = "pending"
    /\ \E view \in SUBSET Tenants :
          /\ Plausible(Subject(door[r]), view)
          /\ \E a \in Answers(door[r], view) : Turn(r, a)

Fail(r) ==
    /\ door[r].pc = "pending"
    /\ Turn(r, Answer(door[r], "unavailable", NoKey))

Next ==
    \/ Tick
    \/ \E s \in Subjects, k \in Tenants : PortalChanges(s, k)
    \/ \E r \in Requests : Ask(r) \/ Settle(r) \/ Fail(r)

Spec == Init /\ [][Next]_doorVars
=============================================================================
