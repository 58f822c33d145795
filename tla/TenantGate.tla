----------------------------- MODULE TenantGate -----------------------------
(***************************************************************************)
(* The tenant gate of the console door: internal/tenantgate.               *)
(*                                                                         *)
(* Every HTTP request crosses Gate.Wrap, which strips the inbound tenant   *)
(* headers and decides which trusted tenant key, if any, the request       *)
(* carries further.  The decision rests on two tables the portal owns: the *)
(* memberships of a tenant administrator (WhoAmI) and the tenant registry  *)
(* (ListTenants).  Resolver caches each table for TTL.  Its mutex is not   *)
(* held during the portal call, so a lookup is three steps other requests  *)
(* may interleave with: look in the cache, call, store the answer.         *)
(*                                                                         *)
(* A "subject" is what one cache entry is about: an administrator's        *)
(* membership list (Resolver.bindings[userID]) or the one registry         *)
(* (Resolver.registry).  The code handles the two alike.                   *)
(***************************************************************************)
EXTENDS Integers

CONSTANTS
    Admins,      \* user ids of type TENANT_ADMIN
    Staff,       \* user ids of type PLATFORM
    EndUsers,    \* user ids of type END_USER, or of a type the door ignores
    NoActor,     \* no session: a request on a public path
    Tenants,     \* the tenant keys in use
    ConsoleKey,  \* ConsoleTenantKey, the reserved console directory
    NoKey,       \* the empty string, as a choice and as a key
    Registry,    \* the subject of the registry's cache entry
    Requests,    \* request slots: how many requests are served at a time
    TTL,         \* Resolver.ttl, in clock ticks
    MaxLatency,  \* ticks between the portal's read and the end of the call
    MaxClock     \* the bound on the clock

ASSUME ActorsAssumption ==
    /\ Admins \cap (Staff \cup EndUsers \cup {NoActor}) = {}
    /\ Staff \cap (EndUsers \cup {NoActor}) = {}
    /\ NoActor \notin EndUsers
    /\ Registry \notin Admins

ASSUME KeysAssumption ==
    /\ NoKey \notin Tenants
    /\ ConsoleKey \notin Tenants \cup {NoKey}

ASSUME TimeAssumption ==
    /\ TTL \in Nat \ {0}
    /\ MaxLatency \in Nat
    /\ MaxClock \in Nat

VARIABLES
    portal,     \* portal[s]: the tenant keys the portal holds for subject s
    changedAt,  \* changedAt[s][k]: when k last joined or left s; 0 if never
    clock,      \* the time; it starts at 1, so 0 is Go's zero time
    cache,      \* cache[s]: the resolver's entry for s
    req         \* req[r]: the request in slot r, and its verdict

vars == <<portal, changedAt, clock, cache, req>>

Actors   == Admins \cup Staff \cup EndUsers \cup {NoActor}
(* Nobody asks for the registry where there is no staff to drill down.     *)
Subjects == Admins \cup (IF Staff = {} THEN {} ELSE {Registry})
Choices  == Tenants \cup {NoKey}
Keys     == Tenants \cup {NoKey, ConsoleKey}

(* The paths the gate tells apart: the one choiceless route, everything    *)
(* else, and a CORS preflight (method OPTIONS, whatever its path).         *)
ChoicelessRoutes == {"whoami"}
Routes == ChoicelessRoutes \cup {"scoped", "preflight"}

Verdicts == {"forwarded", "denied", "unavailable"}
Phases   == {"idle", "lookup", "calling", "answered"} \cup Verdicts

Request ==
    [pc     : Phases,
     actor  : Actors,
     choice : Choices,
     route  : Routes,
     key    : Keys,           \* the trusted key header, as the request holds it
     view   : SUBSET Choices, \* the keys the portal call answered
     readAt : Nat,            \* when the portal read them
     at     : Nat]            \* when the resolver decided

CacheEntry == [keys : SUBSET Tenants, expiresAt : Nat]

(* A type invariant.  Only a request that is being resolved is in one of   *)
(* the resolver's phases.                                                  *)
TypeOK ==
    /\ portal \in [Subjects -> SUBSET Tenants]
    /\ changedAt \in [Subjects -> [Tenants -> Nat]]
    /\ clock \in Nat \ {0}
    /\ cache \in [Subjects -> CacheEntry]
    /\ req \in [Requests -> Request]

(* Go's zero entry: never loaded, and expired at any time.                 *)
NeverLoaded == [keys |-> {}, expiresAt |-> 0]

Blank == [pc |-> "idle", actor |-> NoActor, choice |-> NoKey,
          route |-> "scoped", key |-> NoKey, view |-> {},
          readAt |-> 0, at |-> 0]

Init ==
    /\ portal \in [Subjects -> SUBSET Tenants]
    /\ changedAt = [s \in Subjects |-> [k \in Tenants |-> 0]]
    /\ clock = 1
    /\ cache = [s \in Subjects |-> NeverLoaded]
    /\ req = [r \in Requests |-> Blank]

-----------------------------------------------------------------------------
(* The environment: time, and the portal's own tables.                     *)

(* No call stays open longer than MaxLatency after the portal's read.      *)
Tick ==
    /\ clock < MaxClock
    /\ \A r \in Requests :
          req[r].pc = "answered" => clock < req[r].readAt + MaxLatency
    /\ clock' = clock + 1
    /\ UNCHANGED <<portal, changedAt, cache, req>>

(* The portal grants or revokes a membership, adds or removes a tenant.    *)
PortalChanges(s, k) ==
    /\ portal' = [portal EXCEPT ![s] =
                     IF k \in @ THEN @ \ {k} ELSE @ \cup {k}]
    /\ changedAt' = [changedAt EXCEPT ![s][k] = clock]
    /\ UNCHANGED <<clock, cache, req>>

-----------------------------------------------------------------------------
(* Gate.Wrap up to the resolver.                                           *)

(* Slip: the inbound key header is left in place.                          *)
KeepSmuggled(smuggled) == smuggled

(* Only plain and wire forms of the trusted key are at stake: whatever the *)
(* client sent under those names is deleted.                               *)
Strip(smuggled) == NoKey

Incoming(actor, choice, route, smuggled) ==
    [Blank EXCEPT !.actor = actor, !.choice = choice, !.route = route,
                  !.key = Strip(smuggled)]

Free(r) == req[r].pc \in Verdicts \cup {"idle"}

Put(r, q) ==
    /\ req' = [req EXCEPT ![r] = q]
    /\ UNCHANGED <<portal, changedAt, clock, cache>>

Forward(q, key) ==
    [q EXCEPT !.pc = "forwarded", !.key = IF key = NoKey THEN @ ELSE key]

Deny(q) == [q EXCEPT !.pc = "denied"]

Preflight(r, q) ==
    /\ q.route = "preflight"
    /\ Put(r, Forward(q, NoKey))

Anonymous(r, q) ==
    /\ q.route # "preflight"
    /\ q.actor = NoActor
    /\ Put(r, Forward(q, ConsoleKey))

(* Slip: the choice of a self-service user is dropped, not refused.        *)
SelfServiceAnyChoice(r, q) ==
    /\ q.route # "preflight"
    /\ q.actor \in EndUsers
    /\ Put(r, Forward(q, NoKey))

(* The user types without a management plane may not even name a tenant.   *)
SelfService(r, q) ==
    /\ q.route # "preflight"
    /\ q.actor \in EndUsers
    /\ Put(r, IF q.choice # NoKey THEN Deny(q) ELSE Forward(q, NoKey))

(* Platform staff without a choice see all tenants: nothing to look up.    *)
CrossView(r, q) ==
    /\ q.route # "preflight"
    /\ q.actor \in Staff
    /\ q.choice = NoKey
    /\ Put(r, Forward(q, NoKey))

Resolve(r, q) ==
    /\ q.route # "preflight"
    /\ \/ q.actor \in Admins
       \/ q.actor \in Staff /\ q.choice # NoKey
    /\ Put(r, [q EXCEPT !.pc = "lookup"])

Arrive(r) ==
    /\ Free(r)
    /\ \E actor \in Actors, choice \in Choices, route \in Routes,
          smuggled \in Choices :
          LET q == Incoming(actor, choice, route, smuggled) IN
          \/ Preflight(r, q)
          \/ Anonymous(r, q)
          \/ SelfService(r, q)
          \/ CrossView(r, q)
          \/ Resolve(r, q)

-----------------------------------------------------------------------------
(* Resolver: the cached lookups and the decision.                          *)

Subject(q) == IF q.actor \in Admins THEN q.actor ELSE Registry

(* Slip: !now.After(expiresAt) for now.Before(expiresAt).                  *)
FreshInclusive(entry) == clock <= entry.expiresAt

Fresh(entry) == clock < entry.expiresAt

(* Slip: len(keys) == 0 for len(keys) != 1, so that a caller with several  *)
(* bindings gets one of them.                                              *)
ResolvedFirst(q, keys) ==
    {k \in keys : q.choice = NoKey \/ k = q.choice}

(* The keys Resolve may return for a request: its choice if that is among  *)
(* the subject's keys, the only key there is if it made none.  The set has *)
(* one member, or none when Resolve returns an error.                      *)
Resolved(q, keys) ==
    {k \in keys : IF q.choice = NoKey THEN keys = {k} ELSE k = q.choice}

(* A denied request crosses all the same, without a key, when it made no   *)
(* choice and asks for a choiceless route: the switcher's bootstrap.       *)
Bootstrap(q) == q.choice = NoKey /\ q.route \in ChoicelessRoutes

Settled(q) == [q EXCEPT !.view = {}, !.readAt = 0, !.at = clock]

(* Slip: the bootstrap exception is missing.                               *)
DecisionsStrict(q, keys) ==
    IF Resolved(q, keys) # {}
    THEN {Forward(Settled(q), k) : k \in Resolved(q, keys)}
    ELSE {Deny(Settled(q))}

Decisions(q, keys) ==
    IF Resolved(q, keys) # {}
    THEN {Forward(Settled(q), k) : k \in Resolved(q, keys)}
    ELSE {IF Bootstrap(q) THEN Forward(Settled(q), NoKey) ELSE Deny(Settled(q))}

Decide(r, keys) ==
    \E q \in Decisions(req[r], keys) : req' = [req EXCEPT ![r] = q]

(* Under the mutex: a fresh entry answers at once.                         *)
LookupHit(r) ==
    /\ req[r].pc = "lookup"
    /\ Fresh(cache[Subject(req[r])])
    /\ Decide(r, cache[Subject(req[r])].keys)
    /\ UNCHANGED <<portal, changedAt, clock, cache>>

(* A missing or expired entry: the mutex is released and the call begins.  *)
LookupMiss(r) ==
    /\ req[r].pc = "lookup"
    /\ ~Fresh(cache[Subject(req[r])])
    /\ req' = [req EXCEPT ![r].pc = "calling"]
    /\ UNCHANGED <<portal, changedAt, clock, cache>>

(* The portal reads its table.  A row may come with an empty tenant key.   *)
PortalReads(r) ==
    /\ req[r].pc = "calling"
    /\ \E blankRow \in SUBSET {NoKey} :
          req' = [req EXCEPT
                     ![r].pc = "answered",
                     ![r].readAt = clock,
                     ![r].view = portal[Subject(req[r])] \cup blankRow]
    /\ UNCHANGED <<portal, changedAt, clock, cache>>

(* Slip: a failure is remembered as an empty table.                        *)
PortalFailsCached(r) ==
    /\ req[r].pc \in {"calling", "answered"}
    /\ cache' = [cache EXCEPT ![Subject(req[r])] =
                     [keys |-> {}, expiresAt |-> clock + TTL]]
    /\ req' = [req EXCEPT ![r].pc = "unavailable",
                          ![r].view = {},
                          ![r].readAt = 0]
    /\ UNCHANGED <<portal, changedAt, clock>>

(* Slip: a failed call is tried again, for as long as it fails.            *)
PortalFailsRetried(r) ==
    /\ req[r].pc \in {"calling", "answered"}
    /\ req' = [req EXCEPT ![r].pc = "lookup",
                          ![r].view = {},
                          ![r].readAt = 0]
    /\ UNCHANGED <<portal, changedAt, clock, cache>>

(* The call fails, before or after the portal read anything: 503, and the  *)
(* cache is left as it was.                                                *)
PortalFails(r) ==
    /\ req[r].pc \in {"calling", "answered"}
    /\ req' = [req EXCEPT ![r].pc = "unavailable",
                          ![r].view = {},
                          ![r].readAt = 0]
    /\ UNCHANGED <<portal, changedAt, clock, cache>>

(* Slip: rows without a tenant key are kept.                               *)
NamedUnfiltered(rows) == rows

Named(rows) == rows \ {NoKey}

(* Slip: the answer is added to the entry's keys instead of replacing them.*)
StoreMerged(r) ==
    /\ req[r].pc = "answered"
    /\ LET keys == Named(req[r].view) \cup cache[Subject(req[r])].keys IN
       /\ cache' = [cache EXCEPT ![Subject(req[r])] =
                       [keys |-> keys, expiresAt |-> clock + TTL]]
       /\ Decide(r, keys)
    /\ UNCHANGED <<portal, changedAt, clock>>

(* Slip: one entry for everybody, not one per user.                        *)
StoreForAll(r) ==
    /\ req[r].pc = "answered"
    /\ LET keys == Named(req[r].view) IN
       /\ cache' = [s \in Subjects |->
                       [keys |-> keys, expiresAt |-> clock + TTL]]
       /\ Decide(r, keys)
    /\ UNCHANGED <<portal, changedAt, clock>>

(* The answer goes into the cache, whatever entry is there by now, and     *)
(* lives TTL from this moment.  The decision uses the answer itself.       *)
Store(r) ==
    /\ req[r].pc = "answered"
    /\ LET keys == Named(req[r].view) IN
       /\ cache' = [cache EXCEPT ![Subject(req[r])] =
                       [keys |-> keys, expiresAt |-> clock + TTL]]
       /\ Decide(r, keys)
    /\ UNCHANGED <<portal, changedAt, clock>>

Serve(r) ==
    \/ LookupHit(r)
    \/ LookupMiss(r)
    \/ PortalReads(r)
    \/ PortalFails(r)
    \/ Store(r)

Next ==
    \/ Tick
    \/ \E s \in Subjects, k \in Tenants : PortalChanges(s, k)
    \/ \E r \in Requests : Arrive(r) \/ Serve(r)

Spec == Init /\ [][Next]_vars

(* A request being served is a running goroutine, and every portal call    *)
(* ends, with an answer or an error.                                       *)
FairSpec == Spec /\ \A r \in Requests : WF_vars(Serve(r))

-----------------------------------------------------------------------------
(* Properties.                                                             *)

(* How long a decision may contradict the portal.  An entry lives TTL from *)
(* the moment it is stored, and what it holds was read up to MaxLatency    *)
(* before that.                                                            *)
StalenessBound == TTL + MaxLatency

RecentlyChanged(s, k, t) ==
    changedAt[s][k] > 0 /\ t < changedAt[s][k] + StalenessBound

(* A revoked tenant is refused (tenantgate.go:108-112, 195, 214).  An      *)
(* injected key is one the portal holds for this very caller - its         *)
(* membership, or the registry - or one that left less than the staleness  *)
(* bound before the decision.  It takes a slow call, a revoke and a hit    *)
(* by another request to get near the bound.                               *)
RevokedIsRefused ==
    \A r \in Requests :
        LET q == req[r]  s == Subject(q) IN
        q.pc = "forwarded" /\ q.key \in Tenants =>
            q.key \in portal[s] \/ RecentlyChanged(s, q.key, q.at)

(* A granted tenant is admitted: a 403 for an explicit choice means that   *)
(* the caller does not hold that tenant, or has held it for less than the  *)
(* staleness bound.                                                        *)
GrantedIsAdmitted ==
    \A r \in Requests :
        LET q == req[r]  s == Subject(q) IN
        q.pc = "denied" /\ q.choice # NoKey /\ q.actor \notin EndUsers =>
            q.choice \notin portal[s] \/ RecentlyChanged(s, q.choice, q.at)

(* The default is unambiguous (tenantgate.go:160-166): a key the caller    *)
(* did not choose is injected only when no other tenant has been bound for *)
(* longer than the staleness bound.                                        *)
DefaultIsSole ==
    \A r \in Requests :
        LET q == req[r]  s == Subject(q) IN
        q.pc = "forwarded" /\ q.choice = NoKey /\ q.key \in Tenants =>
            \A k \in portal[s] : k = q.key \/ RecentlyChanged(s, k, q.at)

(* The door is the only writer of the trusted key (tenantgate.go:311-319), *)
(* and nothing is forwarded unresolved (:75-78): whatever the client sent, *)
(* each actor type carries exactly the key the matrix gives it, and an     *)
(* administrator without a key reaches only the bootstrap route.           *)
KeyFollowsMatrix ==
    \A r \in Requests :
        LET q == req[r] IN
        q.pc = "forwarded" =>
            \/ q.route = "preflight" /\ q.key = NoKey
            \/ q.actor = NoActor /\ q.key = ConsoleKey
            \/ q.actor \in EndUsers /\ q.choice = NoKey /\ q.key = NoKey
            \/ q.actor \in Staff /\ q.key = q.choice
            \/ q.actor \in Admins /\ q.key \in Tenants
                                  /\ q.choice \in {NoKey, q.key}
            \/ q.actor \in Admins /\ q.key = NoKey /\ Bootstrap(q)

(* The bootstrap cannot lock an administrator out (tenantgate.go:257-264): *)
(* without a choice, WhoAmI is never answered 403, whatever the number of  *)
(* bindings and whatever the cache holds.                                  *)
BootstrapReachable ==
    \A r \in Requests :
        req[r].pc = "denied" /\ req[r].actor \in Admins => ~Bootstrap(req[r])

(* The cache-free promise (module TenantDoor) is kept: seen from outside,  *)
(* a request in the resolver is pending, and it is settled in one step     *)
(* against one view of the portal that lags by less than the bound.        *)
Outside(q) ==
    [pc     |-> IF q.pc \in {"lookup", "calling", "answered"} THEN "pending"
                                                              ELSE q.pc,
     actor  |-> q.actor,
     choice |-> q.choice,
     route  |-> q.route,
     key    |-> q.key]

Door == INSTANCE TenantDoor
            WITH Staleness <- StalenessBound,
                 door <- [r \in Requests |-> Outside(req[r])]

DoorSpec == Door!Spec

(* Every request that enters the resolver is answered: no interleaving of  *)
(* lookups leaves one waiting.                                             *)
EveryRequestAnswered ==
    \A r \in Requests : req[r].pc = "lookup" ~> req[r].pc \in Verdicts

-----------------------------------------------------------------------------
(* The inductive invariant behind the staleness properties.                *)

(* The answer of an open call is the portal's table as it was at readAt:   *)
(* where it differs now, the table changed since.                          *)
AnswersWereTrue ==
    \A r \in Requests :
        LET q == req[r]  s == Subject(q) IN
        q.pc = "answered" =>
            /\ 0 < q.readAt /\ q.readAt <= clock
            /\ clock <= q.readAt + MaxLatency
            /\ \A k \in Tenants :
                  \/ k \in q.view <=> k \in portal[s]
                  \/ q.readAt <= changedAt[s][k]

(* An entry outlives a change it missed by less than the staleness bound,  *)
(* whichever of several concurrent calls stored it last.                   *)
EntriesExpire ==
    \A s \in Subjects :
        /\ cache[s].expiresAt <= clock + TTL
        /\ cache[s].expiresAt > 0 =>
              \A k \in Tenants :
                  \/ k \in cache[s].keys <=> k \in portal[s]
                  \/ /\ changedAt[s][k] > 0
                     /\ cache[s].expiresAt <= changedAt[s][k] + StalenessBound

(* Only requests the resolver serves are in its phases, with no key yet;   *)
(* nothing happened later than now; the anonymous are never denied.        *)
InTheResolver ==
    \A r \in Requests :
        /\ req[r].at <= clock
        /\ req[r].pc = "denied" => req[r].actor # NoActor
        /\ req[r].pc \in {"lookup", "calling", "answered"} =>
              /\ req[r].key = NoKey
              /\ req[r].route # "preflight"
              /\ \/ req[r].actor \in Admins
                 \/ req[r].actor \in Staff /\ req[r].choice # NoKey

IInv ==
    /\ TypeOK
    /\ AnswersWereTrue
    /\ EntriesExpire
    /\ InTheResolver
    /\ RevokedIsRefused
    /\ GrantedIsAdmitted
    /\ DefaultIsSole
    /\ KeyFollowsMatrix
    /\ BootstrapReachable
=============================================================================
