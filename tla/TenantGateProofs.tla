-------------------------- MODULE TenantGateProofs --------------------------
(***************************************************************************)
(* TLAPS proofs about TenantGate, for every set of users, tenants and      *)
(* request slots, every TTL and every latency bound.                       *)
(***************************************************************************)
EXTENDS TenantGate, TLAPS

USE ActorsAssumption, KeysAssumption, TimeAssumption

(* A request of the resolver has a subject that has a cache entry.         *)
LEMMA SubjectIsOne ==
    ASSUME NEW q \in Request,
           \/ q.actor \in Admins
           \/ q.actor \in Staff
    PROVE  Subject(q) \in Subjects
  BY DEF Subject, Subjects

(* What a decision may be, given the keys it rests on.                     *)
LEMMA DecisionCases ==
    ASSUME NEW q \in Request, NEW keys \in SUBSET Tenants,
           NEW d \in Decisions(q, keys), clock \in Nat,
           q.key = NoKey
    PROVE  /\ d \in Request
           /\ d.actor = q.actor /\ d.choice = q.choice /\ d.route = q.route
           /\ d.at = clock
           /\ \/ /\ d.pc = "forwarded" /\ d.key \in keys
                 /\ IF q.choice = NoKey THEN keys = {d.key}
                                        ELSE d.key = q.choice
              \/ /\ d.pc = "forwarded" /\ d.key = NoKey /\ Bootstrap(q)
                 /\ \A k \in Tenants : keys # {k}
              \/ /\ d.pc = "denied" /\ d.key = NoKey /\ ~Bootstrap(q)
                 /\ q.choice # NoKey => q.choice \notin keys
                 /\ q.choice = NoKey => \A k \in Tenants : keys # {k}
  <1> DEFINE s == Settled(q)
  <1>1. /\ s \in Request
        /\ s.actor = q.actor /\ s.choice = q.choice /\ s.route = q.route
        /\ s.at = clock /\ s.key = NoKey
    BY DEF Settled, Request, Choices
  <1>2. CASE Resolved(q, keys) # {}
    <2>1. PICK k \in Resolved(q, keys) : d = Forward(s, k)
      BY <1>2 DEF Decisions
    <2>2. k \in Tenants /\ k # NoKey
      BY DEF Resolved
    <2>3. d = [s EXCEPT !.pc = "forwarded", !.key = k]
      BY <2>1, <2>2 DEF Forward
    <2>4. /\ d \in Request /\ d.pc = "forwarded" /\ d.key = k
          /\ d.actor = s.actor /\ d.choice = s.choice /\ d.route = s.route
          /\ d.at = s.at
      BY <1>1, <2>2, <2>3 DEF Request, Phases, Verdicts, Keys
    <2>5. QED
      BY <1>1, <2>4 DEF Resolved
  <1>3. CASE Resolved(q, keys) = {}
    <2>1. /\ q.choice # NoKey => q.choice \notin keys
          /\ q.choice = NoKey => \A k \in Tenants : keys # {k}
      BY <1>3 DEF Resolved
    <2>2. CASE Bootstrap(q)
      <3>1. d = [s EXCEPT !.pc = "forwarded"]
        BY <1>1, <1>3, <2>2 DEF Decisions, Forward, Request
      <3>2. QED
        BY <1>1, <2>1, <2>2, <3>1
           DEF Bootstrap, Request, Phases, Verdicts
    <2>3. CASE ~Bootstrap(q)
      <3>1. d = [s EXCEPT !.pc = "denied"]
        BY <1>3, <2>3 DEF Decisions, Deny
      <3>2. QED
        BY <1>1, <2>1, <2>3, <3>1 DEF Request, Phases, Verdicts
    <2>4. QED
      BY <2>2, <2>3
  <1>4. QED
    BY <1>2, <1>3

-----------------------------------------------------------------------------
(* The part of IInv that is about one request, as a predicate on its       *)
(* record: a step that changes one slot has to establish it for the new    *)
(* record only.                                                            *)
SlotInv(q) ==
    /\ q.at <= clock
    /\ q.pc = "denied" => q.actor # NoActor
    /\ q.pc \in {"lookup", "calling", "answered"} =>
          /\ q.key = NoKey
          /\ q.route # "preflight"
          /\ q.actor \in Admins \/ (q.actor \in Staff /\ q.choice # NoKey)
    /\ q.pc = "answered" =>
          /\ 0 < q.readAt /\ q.readAt <= clock
          /\ clock <= q.readAt + MaxLatency
          /\ \A k \in Tenants :
                \/ k \in q.view <=> k \in portal[Subject(q)]
                \/ q.readAt <= changedAt[Subject(q)][k]
    /\ q.pc = "forwarded" /\ q.key \in Tenants =>
          q.key \in portal[Subject(q)] \/ RecentlyChanged(Subject(q), q.key, q.at)
    /\ q.pc = "denied" /\ q.choice # NoKey /\ q.actor \notin EndUsers =>
          \/ q.choice \notin portal[Subject(q)]
          \/ RecentlyChanged(Subject(q), q.choice, q.at)
    /\ q.pc = "forwarded" /\ q.choice = NoKey /\ q.key \in Tenants =>
          \A k \in portal[Subject(q)] :
              k = q.key \/ RecentlyChanged(Subject(q), k, q.at)
    /\ q.pc = "forwarded" =>
          \/ q.route = "preflight" /\ q.key = NoKey
          \/ q.actor = NoActor /\ q.key = ConsoleKey
          \/ q.actor \in EndUsers /\ q.choice = NoKey /\ q.key = NoKey
          \/ q.actor \in Staff /\ q.key = q.choice
          \/ q.actor \in Admins /\ q.key \in Tenants /\ q.choice \in {NoKey, q.key}
          \/ q.actor \in Admins /\ q.key = NoKey /\ Bootstrap(q)
    /\ q.pc = "denied" /\ q.actor \in Admins => ~Bootstrap(q)

LEMMA IInvBySlot ==
    IInv <=> TypeOK /\ EntriesExpire /\ \A r \in Requests : SlotInv(req[r])
  BY DEF IInv, SlotInv, AnswersWereTrue, InTheResolver, RevokedIsRefused,
         GrantedIsAdmitted, DefaultIsSole, KeyFollowsMatrix, BootstrapReachable

LEMMA IInvBySlotNext ==
    TypeOK' /\ EntriesExpire' /\ (\A r \in Requests : SlotInv(req[r])') => IInv'
  BY DEF IInv, SlotInv, AnswersWereTrue, InTheResolver, RevokedIsRefused,
         GrantedIsAdmitted, DefaultIsSole, KeyFollowsMatrix, BootstrapReachable

(* Replacing one record in a slot, all else but the cache unchanged.       *)
LEMMA ReplaceOne ==
    ASSUME IInv, NEW r \in Requests, NEW q \in Request, SlotInv(q),
           req' = [req EXCEPT ![r] = q],
           UNCHANGED <<portal, changedAt, clock>>,
           cache' \in [Subjects -> CacheEntry], EntriesExpire'
    PROVE  IInv'
  <1>1. TypeOK'
    BY DEF IInv, TypeOK
  <1>2. ASSUME NEW p \in Requests PROVE SlotInv(req[p])'
    <2>1. req'[p] = IF p = r THEN q ELSE req[p]
      BY DEF IInv, TypeOK
    <2>2. SlotInv(req'[p])
      BY <2>1, IInvBySlot
    <2>3. QED
      BY <2>2 DEF SlotInv, RecentlyChanged, Subject, Bootstrap
  <1>3. QED
    BY <1>1, <1>2, IInvBySlotNext

(* The decision on keys that lag behind the portal within the bound.       *)
LEMMA SoundDecision ==
    ASSUME TypeOK, NEW q \in Request, SlotInv(q),
           q.pc \in {"lookup", "answered"},
           NEW keys \in SUBSET Tenants,
           \A k \in Tenants : \/ k \in keys <=> k \in portal[Subject(q)]
                              \/ RecentlyChanged(Subject(q), k, clock),
           NEW d \in Decisions(q, keys)
    PROVE  d \in Request /\ SlotInv(d)
  <1>1. /\ q.key = NoKey
        /\ q.actor \in Admins \/ (q.actor \in Staff /\ q.choice # NoKey)
    BY DEF SlotInv
  <1>2. /\ Subject(q) \in Subjects
        /\ clock \in Nat
        /\ portal[Subject(q)] \in SUBSET Tenants
    BY <1>1, SubjectIsOne DEF TypeOK
  <1>3. /\ d \in Request
        /\ d.actor = q.actor /\ d.choice = q.choice /\ d.route = q.route
        /\ d.at = clock
        /\ \/ /\ d.pc = "forwarded" /\ d.key \in keys
              /\ IF q.choice = NoKey THEN keys = {d.key}
                                     ELSE d.key = q.choice
           \/ /\ d.pc = "forwarded" /\ d.key = NoKey /\ Bootstrap(q)
              /\ \A k \in Tenants : keys # {k}
           \/ /\ d.pc = "denied" /\ d.key = NoKey /\ ~Bootstrap(q)
              /\ q.choice # NoKey => q.choice \notin keys
              /\ q.choice = NoKey => \A k \in Tenants : keys # {k}
    BY <1>1, <1>2, DecisionCases
  <1>4. Subject(d) = Subject(q) /\ (Bootstrap(d) <=> Bootstrap(q))
    BY <1>3 DEF Subject, Bootstrap
  <1>5. d.choice \in Tenants \cup {NoKey}
    BY <1>3 DEF Request, Choices
  <1>6. CASE d.pc = "forwarded" /\ d.key \in keys
    <2>1. d.key \in portal[Subject(d)] \/ RecentlyChanged(Subject(d), d.key, d.at)
      BY <1>3, <1>4, <1>6
    <2>2. d.choice = NoKey =>
            \A k \in portal[Subject(d)] :
                k = d.key \/ RecentlyChanged(Subject(d), k, d.at)
      BY <1>2, <1>3, <1>4, <1>6
    <2>3. d.choice \in {NoKey, d.key} /\ d.key \in Tenants /\ d.key # NoKey
      BY <1>3, <1>6
    <2>4. QED
      BY <1>1, <1>2, <1>3, <1>6, <2>1, <2>2, <2>3 DEF SlotInv
  <1>7. CASE d.pc = "forwarded" /\ d.key = NoKey /\ Bootstrap(q)
    BY <1>1, <1>2, <1>3, <1>4, <1>7 DEF SlotInv, Bootstrap
  <1>8. CASE d.pc = "denied"
    BY <1>2, <1>3, <1>4, <1>5, <1>8 DEF SlotInv
  <1>9. QED
    BY <1>3, <1>6, <1>7, <1>8

-----------------------------------------------------------------------------
(* The steps.                                                              *)

LEMMA InitIInv == Init => IInv
  <1> SUFFICES ASSUME Init PROVE IInv
    OBVIOUS
  <1>1. TypeOK
    BY DEF Init, TypeOK, CacheEntry, NeverLoaded, Request, Blank, Phases,
           Verdicts, Actors, Choices, Routes, Keys
  <1>2. EntriesExpire
    BY DEF Init, EntriesExpire, NeverLoaded, StalenessBound
  <1>3. \A r \in Requests : SlotInv(req[r])
    BY DEF Init, SlotInv, Blank
  <1>4. QED
    BY <1>1, <1>2, <1>3, IInvBySlot

(* Time passes: bounds that compare with the clock only get looser, but    *)
(* for the open calls, which Tick waits for.                               *)
LEMMA TickIInv == IInv /\ Tick => IInv'
  <1> SUFFICES ASSUME IInv, Tick PROVE IInv'
    OBVIOUS
  <1>1. TypeOK'
    BY DEF IInv, Tick, TypeOK
  <1>2. EntriesExpire'
    BY DEF IInv, Tick, TypeOK, CacheEntry, EntriesExpire, StalenessBound
  <1>3. ASSUME NEW r \in Requests PROVE SlotInv(req[r])'
    <2>1. SlotInv(req[r]) /\ req[r] \in Request /\ clock \in Nat
      BY IInvBySlot DEF IInv, TypeOK
    <2>2. /\ req'[r] = req[r] /\ clock' = clock + 1
          /\ portal' = portal /\ changedAt' = changedAt
          /\ req[r].pc = "answered" => clock < req[r].readAt + MaxLatency
      BY DEF Tick
    <2>3. req[r].at \in Nat /\ req[r].readAt \in Nat
      BY <2>1 DEF Request
    <2>4. QED
      BY <2>1, <2>2, <2>3
         DEF SlotInv, RecentlyChanged, Subject, Bootstrap
  <1>4. QED
    BY <1>1, <1>2, <1>3, IInvBySlotNext

(* The portal changes one key of one subject: whatever no longer agrees    *)
(* with it has changed just now.                                           *)
LEMMA PortalChangesIInv ==
    ASSUME IInv, NEW s \in Subjects, NEW k \in Tenants, PortalChanges(s, k)
    PROVE  IInv'
  <1>1. /\ portal \in [Subjects -> SUBSET Tenants]
        /\ changedAt \in [Subjects -> [Tenants -> Nat]]
        /\ clock \in Nat /\ clock > 0
        /\ cache \in [Subjects -> CacheEntry]
        /\ req \in [Requests -> Request]
    BY DEF IInv, TypeOK
  <1>2. /\ clock' = clock /\ cache' = cache /\ req' = req
        /\ portal' \in [Subjects -> SUBSET Tenants]
        /\ changedAt' \in [Subjects -> [Tenants -> Nat]]
        /\ changedAt'[s][k] = clock
        /\ \A u \in Subjects, j \in Tenants :
              u # s \/ j # k => /\ j \in portal'[u] <=> j \in portal[u]
                                /\ changedAt'[u][j] = changedAt[u][j]
    BY <1>1 DEF PortalChanges
  <1>3. TypeOK'
    BY <1>1, <1>2 DEF TypeOK
  <1>4. EntriesExpire'
    <2> SUFFICES ASSUME NEW u \in Subjects
                 PROVE  /\ cache[u].expiresAt <= clock + TTL
                        /\ cache[u].expiresAt > 0 =>
                            \A j \in Tenants :
                              \/ j \in cache[u].keys <=> j \in portal'[u]
                              \/ /\ changedAt'[u][j] > 0
                                 /\ cache[u].expiresAt
                                      <= changedAt'[u][j] + StalenessBound
      BY <1>2 DEF EntriesExpire
    <2>1. /\ cache[u].expiresAt <= clock + TTL
          /\ cache[u].expiresAt > 0 =>
              \A j \in Tenants :
                \/ j \in cache[u].keys <=> j \in portal[u]
                \/ /\ changedAt[u][j] > 0
                   /\ cache[u].expiresAt <= changedAt[u][j] + StalenessBound
      BY DEF IInv, EntriesExpire
    <2>2. cache[u].expiresAt \in Nat
      BY <1>1 DEF CacheEntry
    <2>3. clock + TTL <= clock + StalenessBound
      BY <1>1 DEF StalenessBound
    <2>4. cache[u].expiresAt <= clock + StalenessBound
      BY <1>1, <2>1, <2>2, <2>3 DEF StalenessBound
    <2>5. QED
      BY <1>1, <1>2, <2>1, <2>4
  <1>5. ASSUME NEW r \in Requests PROVE SlotInv(req[r])'
    <2> DEFINE q == req[r]
               u == Subject(q)
               RecentNow(j) == /\ changedAt'[u][j] > 0
                               /\ q.at < changedAt'[u][j] + StalenessBound
    <2>1. SlotInv(q) /\ q \in Request /\ q.at \in Nat /\ q.readAt \in Nat
      BY <1>1, IInvBySlot DEF Request
    <2>2. q.at <= clock
      BY <2>1 DEF SlotInv
    <2>3. ASSUME NEW j \in Tenants, q.actor \in Admins \cup Staff
          PROVE  \/ j \in portal'[u] <=> j \in portal[u]
                 \/ /\ changedAt'[u][j] = clock
                    /\ RecentNow(j)
      <3>1. u \in Subjects
        BY <2>1, <2>3, SubjectIsOne
      <3>2. CASE u = s /\ j = k
        BY <1>1, <1>2, <2>1, <2>2, <3>2 DEF RecentlyChanged, StalenessBound
      <3>3. CASE u # s \/ j # k
        BY <1>2, <3>1, <3>3
      <3>4. QED
        BY <3>2, <3>3
    <2>4. ASSUME NEW j \in Tenants, q.actor \in Admins \cup Staff,
                 RecentlyChanged(u, j, q.at)
          PROVE  RecentNow(j)
      <3>1. u \in Subjects
        BY <2>1, <2>4, SubjectIsOne
      <3>2. changedAt'[u][j] = changedAt[u][j] \/ changedAt'[u][j] = clock
        BY <1>2, <3>1
      <3>3. QED
        BY <1>1, <1>2, <2>1, <2>2, <2>4, <3>1, <3>2
           DEF RecentlyChanged, StalenessBound
    <2>5. q.pc = "answered" =>
             /\ 0 < q.readAt /\ q.readAt <= clock
             /\ clock <= q.readAt + MaxLatency
             /\ \A j \in Tenants : \/ j \in q.view <=> j \in portal'[u]
                                   \/ q.readAt <= changedAt'[u][j]
      <3> SUFFICES ASSUME q.pc = "answered", NEW j \in Tenants
                   PROVE  \/ j \in q.view <=> j \in portal'[u]
                          \/ q.readAt <= changedAt'[u][j]
        BY <2>1 DEF SlotInv
      <3>1. /\ q.actor \in Admins \cup Staff
            /\ q.readAt <= clock
            /\ \/ j \in q.view <=> j \in portal[u]
               \/ q.readAt <= changedAt[u][j]
        BY <2>1 DEF SlotInv
      <3>2. u \in Subjects
        BY <2>1, <3>1, SubjectIsOne
      <3>3. QED
        BY <1>1, <1>2, <3>1, <3>2
    <2>6. q.pc = "forwarded" /\ q.key \in Tenants =>
             q.key \in portal'[u] \/ RecentNow(q.key)
      <3> SUFFICES ASSUME q.pc = "forwarded", q.key \in Tenants
                   PROVE  q.key \in portal'[u] \/ RecentNow(q.key)
        OBVIOUS
      <3>1. q.key \in portal[u] \/ RecentlyChanged(u, q.key, q.at)
        BY <2>1 DEF SlotInv
      <3>2. q.actor \in Admins \cup Staff
        BY <2>1 DEF SlotInv
      <3>3. QED
        BY <2>3, <2>4, <3>1, <3>2
    <2>7. q.pc = "denied" /\ q.choice # NoKey /\ q.actor \notin EndUsers =>
             q.choice \notin portal'[u] \/ RecentNow(q.choice)
      <3> SUFFICES ASSUME q.pc = "denied", q.choice # NoKey,
                          q.actor \notin EndUsers
                   PROVE  \/ q.choice \notin portal'[u]
                          \/ RecentNow(q.choice)
        OBVIOUS
      <3>1. q.choice \notin portal[u] \/ RecentlyChanged(u, q.choice, q.at)
        BY <2>1 DEF SlotInv
      <3>2. q.choice \in Tenants
        BY <2>1 DEF Request, Choices
      <3>3. q.actor \in Admins \cup Staff
        BY <2>1 DEF SlotInv, Request, Actors
      <3>4. QED
        BY <2>3, <2>4, <3>1, <3>2, <3>3
    <2>8. q.pc = "forwarded" /\ q.choice = NoKey /\ q.key \in Tenants =>
             \A j \in portal'[u] : j = q.key \/ RecentNow(j)
      <3> SUFFICES ASSUME q.pc = "forwarded", q.choice = NoKey,
                          q.key \in Tenants, NEW j \in portal'[u]
                   PROVE  j = q.key \/ RecentNow(j)
        OBVIOUS
      <3>1. \A i \in portal[u] : i = q.key \/ RecentlyChanged(u, i, q.at)
        BY <2>1 DEF SlotInv
      <3>2. q.actor \in Admins \cup Staff
        BY <2>1 DEF SlotInv
      <3>3. j \in Tenants
        BY <1>2, <2>1, <3>2, SubjectIsOne
      <3>4. QED
        BY <2>3, <2>4, <3>1, <3>2, <3>3
    <2>9. QED
      BY <1>2, <2>1, <2>5, <2>6, <2>7, <2>8
         DEF SlotInv, Subject, Bootstrap, RecentlyChanged
  <1>6. QED
    BY <1>3, <1>4, <1>5, IInvBySlotNext

(* What the gate does to a record it does not hand to the resolver.        *)
LEMMA ForwardFields ==
    ASSUME NEW q \in Request, NEW key \in Keys
    PROVE  LET f == Forward(q, key) IN
           /\ f \in Request /\ f.pc = "forwarded"
           /\ f.key = IF key = NoKey THEN q.key ELSE key
           /\ f.actor = q.actor /\ f.choice = q.choice /\ f.route = q.route
           /\ f.at = q.at
  BY DEF Forward, Request, Phases, Verdicts

LEMMA DenyFields ==
    ASSUME NEW q \in Request
    PROVE  LET f == Deny(q) IN
           /\ f \in Request /\ f.pc = "denied" /\ f.key = q.key
           /\ f.actor = q.actor /\ f.choice = q.choice /\ f.route = q.route
           /\ f.at = q.at
  BY DEF Deny, Request, Phases, Verdicts

LEMMA IncomingFields ==
    ASSUME NEW actor \in Actors, NEW choice \in Choices, NEW route \in Routes,
           NEW smuggled \in Choices
    PROVE  LET q == Incoming(actor, choice, route, smuggled) IN
           /\ q \in Request /\ q.key = NoKey /\ q.at = 0
           /\ q.actor = actor /\ q.choice = choice /\ q.route = route
  BY DEF Incoming, Blank, Strip, Request, Phases, Choices, Keys, Actors

(* A request arrives: at once settled without the resolver, or looked up.  *)
LEMMA ArriveIInv ==
    ASSUME IInv, NEW r \in Requests, Arrive(r)
    PROVE  IInv'
  <1>1. PICK actor \in Actors, choice \in Choices, route \in Routes,
             smuggled \in Choices :
          \/ Preflight(r, Incoming(actor, choice, route, smuggled))
          \/ Anonymous(r, Incoming(actor, choice, route, smuggled))
          \/ SelfService(r, Incoming(actor, choice, route, smuggled))
          \/ CrossView(r, Incoming(actor, choice, route, smuggled))
          \/ Resolve(r, Incoming(actor, choice, route, smuggled))
    BY DEF Arrive
  <1>2. PICK q \in Request :
          /\ q.key = NoKey /\ q.at = 0
          /\ \/ Preflight(r, q) \/ Anonymous(r, q) \/ SelfService(r, q)
             \/ CrossView(r, q) \/ Resolve(r, q)
    BY <1>1, IncomingFields
  <1>3. clock \in Nat /\ NoKey \in Keys /\ ConsoleKey \in Keys
    BY DEF IInv, TypeOK, Keys
  <1>4. ASSUME NEW p \in Request, SlotInv(p), Put(r, p)
        PROVE  IInv'
    <2>1. cache' \in [Subjects -> CacheEntry] /\ EntriesExpire'
      BY <1>4 DEF Put, IInv, TypeOK, EntriesExpire
    <2>2. QED
      BY <1>4, <2>1, ReplaceOne DEF Put
  <1>5. CASE Preflight(r, q)
    <2>1. Forward(q, NoKey) \in Request /\ SlotInv(Forward(q, NoKey))
      BY <1>2, <1>3, <1>5, ForwardFields DEF SlotInv, Preflight
    <2>2. QED
      BY <1>4, <1>5, <2>1 DEF Preflight
  <1>6. CASE Anonymous(r, q)
    <2>1. Forward(q, ConsoleKey) \in Request /\ SlotInv(Forward(q, ConsoleKey))
      BY <1>2, <1>3, <1>6, ForwardFields DEF SlotInv, Anonymous
    <2>2. QED
      BY <1>4, <1>6, <2>1 DEF Anonymous
  <1>7. CASE SelfService(r, q)
    <2>1. CASE q.choice = NoKey
      <3>1. Forward(q, NoKey) \in Request /\ SlotInv(Forward(q, NoKey))
        BY <1>2, <1>3, <1>7, <2>1, ForwardFields DEF SlotInv, SelfService
      <3>2. QED
        BY <1>4, <1>7, <2>1, <3>1 DEF SelfService
    <2>2. CASE q.choice # NoKey
      <3>1. Deny(q) \in Request /\ SlotInv(Deny(q))
        BY <1>2, <1>3, <1>7, DenyFields DEF SlotInv, SelfService
      <3>2. QED
        BY <1>4, <1>7, <2>2, <3>1 DEF SelfService
    <2>3. QED
      BY <2>1, <2>2
  <1>8. CASE CrossView(r, q)
    <2>1. Forward(q, NoKey) \in Request /\ SlotInv(Forward(q, NoKey))
      BY <1>2, <1>3, <1>8, ForwardFields DEF SlotInv, CrossView
    <2>2. QED
      BY <1>4, <1>8, <2>1 DEF CrossView
  <1>9. CASE Resolve(r, q)
    <2> DEFINE p == [q EXCEPT !.pc = "lookup"]
    <2>1. /\ p \in Request /\ p.pc = "lookup" /\ p.key = NoKey /\ p.at = 0
          /\ p.actor = q.actor /\ p.choice = q.choice /\ p.route = q.route
      BY <1>2 DEF Request, Phases, Verdicts
    <2>2. SlotInv(p)
      BY <1>3, <1>9, <2>1 DEF SlotInv, Resolve
    <2>3. QED
      BY <1>4, <1>9, <2>1, <2>2 DEF Resolve
  <1>10. QED
    BY <1>2, <1>5, <1>6, <1>7, <1>8, <1>9

(* A hit: the entry is not expired, so what it missed is recent.           *)
LEMMA HitIsPlausible ==
    ASSUME IInv, NEW r \in Requests, req[r].pc = "lookup",
           Fresh(cache[Subject(req[r])])
    PROVE  LET s == Subject(req[r])  keys == cache[s].keys IN
           /\ keys \in SUBSET Tenants
           /\ \A k \in Tenants : \/ k \in keys <=> k \in portal[s]
                                 \/ RecentlyChanged(s, k, clock)
  <1> DEFINE s == Subject(req[r])
             e == cache[s]
  <1>1. /\ SlotInv(req[r]) /\ req[r] \in Request
        /\ clock \in Nat /\ TypeOK /\ clock < e.expiresAt
    BY IInvBySlot DEF IInv, TypeOK, Fresh
  <1>2. s \in Subjects
    BY <1>1, SubjectIsOne DEF SlotInv
  <1>3. e.keys \in SUBSET Tenants /\ e.expiresAt \in Nat
    BY <1>1, <1>2 DEF TypeOK, CacheEntry
  <1>4. ASSUME NEW k \in Tenants
        PROVE  \/ k \in e.keys <=> k \in portal[s]
               \/ RecentlyChanged(s, k, clock)
    <2>1. \/ k \in e.keys <=> k \in portal[s]
          \/ /\ changedAt[s][k] > 0
             /\ e.expiresAt <= changedAt[s][k] + StalenessBound
      BY <1>1, <1>2, <1>3 DEF IInv, EntriesExpire
    <2>2. changedAt[s][k] \in Nat
      BY <1>1, <1>2 DEF TypeOK
    <2>3. QED
      BY <1>1, <1>3, <2>1, <2>2 DEF RecentlyChanged, StalenessBound
  <1>5. QED
    BY <1>3, <1>4

LEMMA LookupHitIInv ==
    ASSUME IInv, NEW r \in Requests, LookupHit(r)
    PROVE  IInv'
  <1> DEFINE keys == cache[Subject(req[r])].keys
  <1>1. /\ req[r] \in Request /\ SlotInv(req[r]) /\ req[r].pc = "lookup"
        /\ TypeOK /\ Fresh(cache[Subject(req[r])])
    BY IInvBySlot DEF IInv, TypeOK, LookupHit
  <1>2. PICK d \in Decisions(req[r], keys) : req' = [req EXCEPT ![r] = d]
    BY DEF LookupHit, Decide
  <1>3. d \in Request /\ SlotInv(d)
    BY <1>1, <1>2, HitIsPlausible, SoundDecision
  <1>4. cache' \in [Subjects -> CacheEntry] /\ EntriesExpire'
    BY DEF LookupHit, IInv, TypeOK, EntriesExpire
  <1>5. QED
    BY <1>2, <1>3, <1>4, ReplaceOne DEF LookupHit

LEMMA LookupMissIInv ==
    ASSUME IInv, NEW r \in Requests, LookupMiss(r)
    PROVE  IInv'
  <1> DEFINE q == [req[r] EXCEPT !.pc = "calling"]
  <1>1. req[r] \in Request /\ SlotInv(req[r]) /\ req[r].pc = "lookup"
    BY IInvBySlot DEF IInv, TypeOK, LookupMiss
  <1>2. q \in Request /\ SlotInv(q)
    BY <1>1 DEF Request, Phases, Verdicts, SlotInv
  <1>3. req' = [req EXCEPT ![r] = q]
    BY DEF LookupMiss
  <1>4. cache' \in [Subjects -> CacheEntry] /\ EntriesExpire'
    BY DEF LookupMiss, IInv, TypeOK, EntriesExpire
  <1>5. QED
    BY <1>2, <1>3, <1>4, ReplaceOne DEF LookupMiss

(* The portal's answer is true when it is read.                            *)
LEMMA PortalReadsIInv ==
    ASSUME IInv, NEW r \in Requests, PortalReads(r)
    PROVE  IInv'
  <1>1. /\ req[r] \in Request /\ SlotInv(req[r]) /\ req[r].pc = "calling"
        /\ clock \in Nat /\ clock > 0 /\ TypeOK
    BY IInvBySlot DEF IInv, TypeOK, PortalReads
  <1>2. Subject(req[r]) \in Subjects
    BY <1>1, SubjectIsOne DEF SlotInv
  <1>3. PICK blankRow \in SUBSET {NoKey} :
          req' = [req EXCEPT
                    ![r].pc = "answered",
                    ![r].readAt = clock,
                    ![r].view = portal[Subject(req[r])] \cup blankRow]
    BY DEF PortalReads
  <1> DEFINE q == [req[r] EXCEPT !.pc = "answered", !.readAt = clock,
                     !.view = portal[Subject(req[r])] \cup blankRow]
  <1>4. req' = [req EXCEPT ![r] = q]
    BY <1>3
  <1>5. portal[Subject(req[r])] \in SUBSET Tenants
    BY <1>1, <1>2 DEF TypeOK
  <1>6. q \in Request
    BY <1>1, <1>5 DEF Request, Phases, Choices
  <1>7. /\ q.pc = "answered" /\ q.readAt = clock /\ q.at = req[r].at
        /\ q.actor = req[r].actor /\ q.choice = req[r].choice
        /\ q.route = req[r].route /\ q.key = req[r].key
        /\ q.view = portal[Subject(req[r])] \cup blankRow
    BY <1>1 DEF Request
  <1>8. Subject(q) = Subject(req[r])
    BY <1>7 DEF Subject
  <1>9. SlotInv(q)
    BY <1>1, <1>7, <1>8 DEF SlotInv
  <1>10. cache' \in [Subjects -> CacheEntry] /\ EntriesExpire'
    BY DEF PortalReads, IInv, TypeOK, EntriesExpire
  <1>11. QED
    BY <1>4, <1>6, <1>9, <1>10, ReplaceOne DEF PortalReads

LEMMA PortalFailsIInv ==
    ASSUME IInv, NEW r \in Requests, PortalFails(r)
    PROVE  IInv'
  <1> DEFINE q == [req[r] EXCEPT !.pc = "unavailable", !.view = {},
                                 !.readAt = 0]
  <1>1. req[r] \in Request /\ SlotInv(req[r])
    BY IInvBySlot DEF IInv, TypeOK
  <1>2. q \in Request /\ SlotInv(q)
    BY <1>1 DEF Request, Phases, Verdicts, SlotInv
  <1>3. req' = [req EXCEPT ![r] = q]
    BY DEF PortalFails
  <1>4. cache' \in [Subjects -> CacheEntry] /\ EntriesExpire'
    BY DEF PortalFails, IInv, TypeOK, EntriesExpire
  <1>5. QED
    BY <1>2, <1>3, <1>4, ReplaceOne DEF PortalFails

(* The answer is at most MaxLatency old when the call ends, so what it     *)
(* missed stays recent for another TTL.                                    *)
LEMMA AnswerIsPlausible ==
    ASSUME IInv, NEW r \in Requests, req[r].pc = "answered"
    PROVE  LET s == Subject(req[r])  keys == Named(req[r].view) IN
           /\ s \in Subjects /\ keys \in SUBSET Tenants
           /\ \A k \in Tenants :
                 \/ k \in keys <=> k \in portal[s]
                 \/ /\ changedAt[s][k] > 0
                    /\ clock + TTL <= changedAt[s][k] + StalenessBound
                    /\ RecentlyChanged(s, k, clock)
  <1> DEFINE q == req[r]
             s == Subject(q)
             keys == Named(q.view)
  <1>1. /\ q \in Request /\ SlotInv(q) /\ clock \in Nat /\ TypeOK
        /\ q.readAt \in Nat
    BY IInvBySlot DEF IInv, TypeOK, Request
  <1>2. s \in Subjects
    BY <1>1, SubjectIsOne DEF SlotInv
  <1>3. keys \in SUBSET Tenants
    BY <1>1 DEF Request, Choices, Named
  <1>4. ASSUME NEW k \in Tenants
        PROVE  \/ k \in keys <=> k \in portal[s]
               \/ /\ changedAt[s][k] > 0
                  /\ clock + TTL <= changedAt[s][k] + StalenessBound
                  /\ RecentlyChanged(s, k, clock)
    <2>1. k \in keys <=> k \in q.view
      BY DEF Named
    <2>2. /\ 0 < q.readAt /\ clock <= q.readAt + MaxLatency
          /\ \/ k \in q.view <=> k \in portal[s]
             \/ q.readAt <= changedAt[s][k]
      BY <1>1 DEF SlotInv
    <2>3. changedAt[s][k] \in Nat
      BY <1>1, <1>2 DEF TypeOK
    <2>4. QED
      BY <1>1, <2>1, <2>2, <2>3 DEF RecentlyChanged, StalenessBound
  <1>5. QED
    BY <1>2, <1>3, <1>4

LEMMA StoreIInv ==
    ASSUME IInv, NEW r \in Requests, Store(r)
    PROVE  IInv'
  <1> DEFINE s == Subject(req[r])
             keys == Named(req[r].view)
             entry == [keys |-> keys, expiresAt |-> clock + TTL]
  <1>1. /\ req[r] \in Request /\ SlotInv(req[r]) /\ req[r].pc = "answered"
        /\ clock \in Nat /\ TypeOK
        /\ cache \in [Subjects -> CacheEntry]
        /\ cache' = [cache EXCEPT ![s] = entry]
    BY IInvBySlot DEF IInv, TypeOK, Store
  <1>2. /\ s \in Subjects /\ keys \in SUBSET Tenants
        /\ \A k \in Tenants :
              \/ k \in keys <=> k \in portal[s]
              \/ /\ changedAt[s][k] > 0
                 /\ clock + TTL <= changedAt[s][k] + StalenessBound
                 /\ RecentlyChanged(s, k, clock)
    BY <1>1, AnswerIsPlausible
  <1>3. PICK d \in Decisions(req[r], keys) : req' = [req EXCEPT ![r] = d]
    BY DEF Store, Decide
  <1>4. d \in Request /\ SlotInv(d)
    BY <1>1, <1>2, <1>3, SoundDecision
  <1>5. entry \in CacheEntry
    BY <1>1, <1>2 DEF CacheEntry
  <1>6. cache' \in [Subjects -> CacheEntry]
    BY <1>1, <1>5
  <1>7. EntriesExpire'
    <2> SUFFICES ASSUME NEW u \in Subjects
                 PROVE  /\ cache'[u].expiresAt <= clock + TTL
                        /\ cache'[u].expiresAt > 0 =>
                            \A j \in Tenants :
                              \/ j \in cache'[u].keys <=> j \in portal[u]
                              \/ /\ changedAt[u][j] > 0
                                 /\ cache'[u].expiresAt
                                      <= changedAt[u][j] + StalenessBound
      BY DEF EntriesExpire, Store
    <2>1. CASE u = s
      <3>1. cache'[u].keys = keys /\ cache'[u].expiresAt = clock + TTL
        BY <1>1, <1>2, <2>1
      <3>2. QED
        BY <1>1, <1>2, <2>1, <3>1
    <2>2. CASE u # s
      BY <1>1, <2>2 DEF IInv, EntriesExpire
    <2>3. QED
      BY <2>1, <2>2
  <1>8. QED
    BY <1>3, <1>4, <1>6, <1>7, ReplaceOne DEF Store

LEMMA NextIInv == IInv /\ [Next]_vars => IInv'
  <1> SUFFICES ASSUME IInv, [Next]_vars PROVE IInv'
    OBVIOUS
  <1>1. CASE Tick
    BY <1>1, TickIInv
  <1>2. ASSUME NEW s \in Subjects, NEW k \in Tenants, PortalChanges(s, k)
        PROVE  IInv'
    BY <1>2, PortalChangesIInv
  <1>3. ASSUME NEW r \in Requests, Arrive(r) PROVE IInv'
    BY <1>3, ArriveIInv
  <1>4. ASSUME NEW r \in Requests, Serve(r) PROVE IInv'
    BY <1>4, LookupHitIInv, LookupMissIInv, PortalReadsIInv, PortalFailsIInv,
       StoreIInv DEF Serve
  <1>5. CASE UNCHANGED vars
    <2>1. TypeOK' /\ EntriesExpire'
      BY <1>5 DEF IInv, TypeOK, EntriesExpire, vars
    <2>2. \A r \in Requests : SlotInv(req[r])'
      BY <1>5, IInvBySlot DEF vars, SlotInv, RecentlyChanged, Subject, Bootstrap
    <2>3. QED
      BY <2>1, <2>2, IInvBySlotNext
  <1>6. QED
    BY <1>1, <1>2, <1>3, <1>4, <1>5 DEF Next

-----------------------------------------------------------------------------
(* The theorems.                                                           *)

LEMMA Invariance == Spec => []IInv
  BY InitIInv, NextIInv, PTL DEF Spec

(* The variables keep their types, so an empty tenant key never enters the *)
(* cache and a request always holds a key of the expected kind.            *)
THEOREM TypeCorrect == Spec => []TypeOK
  <1>1. IInv => TypeOK
    BY DEF IInv
  <1>2. QED
    BY <1>1, Invariance, PTL

(* A revoked tenant is refused, and a tenant removed from the registry     *)
(* cannot be drilled into, once TTL + MaxLatency have passed.              *)
THEOREM RevocationIsBounded == Spec => []RevokedIsRefused
  <1>1. IInv => RevokedIsRefused
    BY DEF IInv
  <1>2. QED
    BY <1>1, Invariance, PTL

(* A granted tenant is admitted within the same bound.                     *)
THEOREM GrantIsBounded == Spec => []GrantedIsAdmitted
  <1>1. IInv => GrantedIsAdmitted
    BY DEF IInv
  <1>2. QED
    BY <1>1, Invariance, PTL

(* An injected default was the only binding, up to the same bound.         *)
THEOREM DefaultIsUnambiguous == Spec => []DefaultIsSole
  <1>1. IInv => DefaultIsSole
    BY DEF IInv
  <1>2. QED
    BY <1>1, Invariance, PTL

(* The trusted key a request carries is the one the matrix gives its actor *)
(* type, whatever the client sent.                                         *)
THEOREM MatrixHolds == Spec => []KeyFollowsMatrix
  <1>1. IInv => KeyFollowsMatrix
    BY DEF IInv
  <1>2. QED
    BY <1>1, Invariance, PTL

(* The switcher's bootstrap is never answered 403.                         *)
THEOREM BootstrapHolds == Spec => []BootstrapReachable
  <1>1. IInv => BootstrapReachable
    BY DEF IInv
  <1>2. QED
    BY <1>1, Invariance, PTL

-----------------------------------------------------------------------------
(* The gate implements the cache-free door.                                *)

(* The fields of a record as the door sees it.                             *)
LEMMA OutsideFields ==
    ASSUME NEW q
    PROVE  /\ Outside(q).actor = q.actor /\ Outside(q).choice = q.choice
           /\ Outside(q).route = q.route /\ Outside(q).key = q.key
           /\ Outside(q).pc = IF q.pc \in {"lookup", "calling", "answered"}
                              THEN "pending" ELSE q.pc
           /\ Outside(q) = Door!Answer(q, Outside(q).pc, q.key)
  BY DEF Outside, Door!Answer

(* Every decision of the resolver is one the matrix allows for the keys it *)
(* rests on.                                                               *)
LEMMA DecisionIsAnswer ==
    ASSUME TypeOK, NEW q \in Request, SlotInv(q),
           q.pc \in {"lookup", "answered"},
           NEW keys \in SUBSET Tenants, NEW d \in Decisions(q, keys)
    PROVE  Outside(d) \in Door!Answers(Outside(q), keys)
  <1> DEFINE o == Outside(q)
  <1>1. /\ q.key = NoKey /\ q.route # "preflight"
        /\ q.actor \in Admins \/ (q.actor \in Staff /\ q.choice # NoKey)
    BY DEF SlotInv
  <1>2. /\ d.actor = q.actor /\ d.choice = q.choice /\ d.route = q.route
        /\ \/ /\ d.pc = "forwarded" /\ d.key \in keys
              /\ IF q.choice = NoKey THEN keys = {d.key}
                                     ELSE d.key = q.choice
           \/ /\ d.pc = "forwarded" /\ d.key = NoKey /\ Bootstrap(q)
              /\ \A k \in Tenants : keys # {k}
           \/ /\ d.pc = "denied" /\ d.key = NoKey /\ ~Bootstrap(q)
              /\ q.choice # NoKey => q.choice \notin keys
              /\ q.choice = NoKey => \A k \in Tenants : keys # {k}
    BY <1>1, DecisionCases DEF TypeOK
  <1>3. /\ o.actor = q.actor /\ o.choice = q.choice /\ o.route = q.route
    BY OutsideFields
  <1>4. Outside(d) = Door!Answer(o, d.pc, d.key)
    BY <1>2, <1>3 DEF Outside, Door!Answer
  <1>5. /\ q.actor # NoActor /\ q.actor \notin EndUsers
        /\ q.actor \in Admins => q.actor \notin Staff
    BY <1>1
  <1>6. Door!Granted(o, keys) =
           {k \in Door!Keys :
              \/ q.actor \in Staff /\ k = q.choice /\ k \in keys \cup {NoKey}
              \/ /\ q.actor \in Admins /\ q.choice # NoKey
                 /\ k = q.choice /\ k \in keys
              \/ q.actor \in Admins /\ q.choice = NoKey /\ keys = {k}
              \/ /\ q.actor \in Admins /\ q.choice = NoKey /\ k = NoKey
                 /\ q.route = "whoami" /\ \A t \in Tenants : keys # {t}}
    BY <1>1, <1>3, <1>5 DEF Door!Granted
  <1>7. CASE d.pc = "forwarded"
    <2>1. d.key \in Door!Keys
      BY <1>2, <1>7 DEF Door!Keys, Door!Choices
    <2>2. d.key \in Door!Granted(o, keys)
      BY <1>1, <1>2, <1>6, <1>7, <2>1 DEF Bootstrap, ChoicelessRoutes
    <2>3. QED
      BY <1>4, <1>7, <2>2 DEF Door!Answers
  <1>8. CASE d.pc = "denied"
    <2>1. d.key = NoKey
      BY <1>2, <1>8
    <2>2. Door!Granted(o, keys) = {}
      BY <1>1, <1>2, <1>6, <1>8 DEF Bootstrap, ChoicelessRoutes
    <2>3. QED
      BY <1>4, <1>8, <2>1, <2>2 DEF Door!Answers
  <1>9. QED
    BY <1>2, <1>7, <1>8

(* A step that puts one record in a slot puts its outside view at the door.*)
LEMMA ReplaceOutside ==
    ASSUME TypeOK, NEW r \in Requests, NEW q,
           req' = [req EXCEPT ![r] = q]
    PROVE  [p \in Requests |-> Outside(req[p])]'
             = [[p \in Requests |-> Outside(req[p])] EXCEPT ![r] = Outside(q)]
  <1>1. \A p \in Requests : req'[p] = IF p = r THEN q ELSE req[p]
    BY DEF TypeOK
  <1>2. \A p \in Requests : Outside(req'[p]) = IF p = r THEN Outside(q)
                                                       ELSE Outside(req[p])
    BY <1>1
  <1>3. [p \in Requests |-> Outside(req[p])]'
          = [p \in Requests |-> Outside(req'[p])]
    BY DEF Outside
  <1>4. QED
    BY <1>2, <1>3

(* The door as its variable is seen through the refinement mapping.        *)
LEMMA TurnOutside ==
    ASSUME TypeOK, NEW r \in Requests, NEW q,
           req' = [req EXCEPT ![r] = q],
           UNCHANGED <<portal, changedAt, clock>>
    PROVE  Door!Turn(r, Outside(q))
  BY ReplaceOutside DEF Door!Turn

(* A plausible view, and a decision taken on it, settle the request.       *)
LEMMA SettlesAtDoor ==
    ASSUME TypeOK, NEW r \in Requests, SlotInv(req[r]),
           req[r].pc \in {"lookup", "answered"},
           NEW keys \in SUBSET Tenants,
           \A k \in Tenants :
              \/ k \in keys <=> k \in portal[Subject(req[r])]
              \/ RecentlyChanged(Subject(req[r]), k, clock),
           Decide(r, keys),
           UNCHANGED <<portal, changedAt, clock>>
    PROVE  Door!Settle(r)
  <1> DEFINE o == Outside(req[r])
  <1>1. req[r] \in Request
    BY DEF TypeOK
  <1>2. PICK d \in Decisions(req[r], keys) : req' = [req EXCEPT ![r] = d]
    BY DEF Decide
  <1>3. Outside(d) \in Door!Answers(o, keys)
    BY <1>1, DecisionIsAnswer
  <1>4. Door!Turn(r, Outside(d))
    BY <1>2, TurnOutside
  <1>5. o.pc = "pending" /\ Door!Subject(o) = Subject(req[r])
    BY OutsideFields DEF Door!Subject, Subject
  <1>6. Door!Plausible(Door!Subject(o), keys)
    BY <1>5 DEF Door!Plausible, RecentlyChanged
  <1>7. QED
    BY <1>3, <1>4, <1>5, <1>6 DEF Door!Settle

LEMMA InitAtDoor == Init => Door!Init
  <1> SUFFICES ASSUME Init PROVE Door!Init
    OBVIOUS
  <1>1. DOMAIN portal = Subjects
    BY DEF Init
  <1>2. Outside(Blank) = Door!Nobody
    BY DEF Outside, Blank, Door!Nobody, Door!Answer, Door!Asked
  <1>3. [r \in Requests |-> Outside(req[r])] = [r \in Requests |-> Door!Nobody]
    BY <1>2 DEF Init
  <1>4. QED
    BY <1>1, <1>3 DEF Init, Door!Init, Door!Subjects

(* Arrivals: either pending at the door, or settled without a view.        *)
LEMMA ArriveAtDoor ==
    ASSUME IInv, NEW r \in Requests, Arrive(r)
    PROVE  Door!Ask(r)
  <1> TypeOK
    BY DEF IInv
  <1>1. PICK actor \in Actors, choice \in Choices, route \in Routes,
             smuggled \in Choices :
          \/ Preflight(r, Incoming(actor, choice, route, smuggled))
          \/ Anonymous(r, Incoming(actor, choice, route, smuggled))
          \/ SelfService(r, Incoming(actor, choice, route, smuggled))
          \/ CrossView(r, Incoming(actor, choice, route, smuggled))
          \/ Resolve(r, Incoming(actor, choice, route, smuggled))
    BY DEF Arrive
  <1>2. PICK q \in Request :
          /\ q.key = NoKey /\ q.actor = actor /\ q.choice = choice
          /\ q.route = route
          /\ \/ Preflight(r, q) \/ Anonymous(r, q) \/ SelfService(r, q)
             \/ CrossView(r, q) \/ Resolve(r, q)
    BY <1>1, IncomingFields
  <1> DEFINE a == Door!Asked(actor, choice, route)
  <1>3. /\ a.pc = "pending" /\ a.actor = actor /\ a.choice = choice
        /\ a.route = route /\ a.key = NoKey
    BY DEF Door!Asked
  <1>4. /\ actor \in Door!Actors /\ choice \in Door!Choices
        /\ route \in {"whoami", "scoped", "preflight"}
        /\ NoKey \in Door!Keys /\ ConsoleKey \in Door!Keys
        /\ NoKey \in Keys /\ ConsoleKey \in Keys
    BY DEF Actors, Choices, Routes, ChoicelessRoutes, Door!Actors,
           Door!Choices, Door!Keys, Keys
  <1>5. Outside(req[r]).pc \in {"idle", "forwarded", "denied", "unavailable"}
    BY OutsideFields DEF Arrive, Free, Verdicts
  <1>6. Door!Free(r)
    BY <1>5 DEF Door!Free
  <1>7. ASSUME ~Door!NeedsPortal(a), NEW p, Put(r, p),
               Outside(p) \in Door!Answers(a, {})
        PROVE  Door!Ask(r)
    <2>1. Door!Turn(r, Outside(p))
      BY <1>7, TurnOutside DEF Put
    <2>2. QED
      BY <1>4, <1>6, <1>7, <2>1 DEF Door!Ask
  <1>8. ASSUME NEW k \in Keys, NEW p,
               p = Forward(q, k), k \in Door!Granted(a, {})
        PROVE  Outside(p) \in Door!Answers(a, {})
    <2>1. /\ p.pc = "forwarded" /\ p.key = k /\ p.actor = actor
          /\ p.choice = choice /\ p.route = route
      BY <1>2, <1>8, ForwardFields
    <2>2. Outside(p) = Door!Answer(a, "forwarded", k)
      BY <1>3, <2>1 DEF Outside, Door!Answer
    <2>3. QED
      BY <1>8, <2>2 DEF Door!Answers
  <1>9. CASE Preflight(r, q)
    <2>1. NoKey \in Door!Granted(a, {}) /\ ~Door!NeedsPortal(a)
      BY <1>2, <1>3, <1>9 DEF Preflight, Door!Granted, Door!NeedsPortal
    <2>2. QED
      BY <1>4, <1>7, <1>8, <1>9, <2>1 DEF Preflight
  <1>10. CASE Anonymous(r, q)
    <2>1. ConsoleKey \in Door!Granted(a, {}) /\ ~Door!NeedsPortal(a)
      BY <1>2, <1>3, <1>4, <1>10
         DEF Anonymous, Door!Granted, Door!NeedsPortal
    <2>2. QED
      BY <1>4, <1>7, <1>8, <1>10, <2>1 DEF Anonymous
  <1>11. CASE SelfService(r, q)
    <2>1. ~Door!NeedsPortal(a)
      BY <1>2, <1>3, <1>11 DEF SelfService, Door!NeedsPortal
    <2>2. CASE choice = NoKey
      <3>1. NoKey \in Door!Granted(a, {})
        BY <1>2, <1>3, <1>4, <1>11, <2>2 DEF SelfService, Door!Granted
      <3>2. QED
        BY <1>2, <1>4, <1>7, <1>8, <1>11, <2>1, <2>2, <3>1 DEF SelfService
    <2>3. CASE choice # NoKey
      <3>1. Door!Granted(a, {}) = {}
        BY <1>2, <1>3, <1>11, <2>3 DEF SelfService, Door!Granted
      <3>2. Outside(Deny(q)) = Door!Answer(a, "denied", NoKey)
        BY <1>2, <1>3, DenyFields DEF Outside, Door!Answer
      <3>3. Outside(Deny(q)) \in Door!Answers(a, {})
        BY <3>1, <3>2 DEF Door!Answers
      <3>4. QED
        BY <1>2, <1>7, <1>11, <2>1, <2>3, <3>3 DEF SelfService
    <2>4. QED
      BY <2>2, <2>3
  <1>12. CASE CrossView(r, q)
    <2>1. NoKey \in Door!Granted(a, {}) /\ ~Door!NeedsPortal(a)
      BY <1>2, <1>3, <1>4, <1>12
         DEF CrossView, Door!Granted, Door!NeedsPortal
    <2>2. QED
      BY <1>4, <1>7, <1>8, <1>12, <2>1 DEF CrossView
  <1>13. CASE Resolve(r, q)
    <2> DEFINE p == [q EXCEPT !.pc = "lookup"]
    <2>1. Door!NeedsPortal(a)
      BY <1>2, <1>3, <1>13 DEF Resolve, Door!NeedsPortal
    <2>2. /\ p.pc = "lookup" /\ p.key = NoKey /\ p.actor = actor
          /\ p.choice = choice /\ p.route = route
      BY <1>2 DEF Request
    <2>3. Outside(p) = a
      BY <2>2 DEF Outside, Door!Asked
    <2>4. Door!Turn(r, a)
      BY <1>13, <2>3, TurnOutside DEF Resolve, Put
    <2>5. QED
      BY <1>4, <1>6, <2>1, <2>4 DEF Door!Ask
  <1>14. QED
    BY <1>2, <1>9, <1>10, <1>11, <1>12, <1>13

(* A step inside the resolver that decides nothing is not seen outside.    *)
LEMMA InnerStep ==
    ASSUME TypeOK, NEW r \in Requests, NEW q,
           req' = [req EXCEPT ![r] = q],
           Outside(q) = Outside(req[r]),
           UNCHANGED <<portal, changedAt, clock>>
    PROVE  UNCHANGED Door!doorVars
  <1>1. [p \in Requests |-> Outside(req[p])]'
          = [p \in Requests |-> Outside(req[p])]
    BY ReplaceOutside
  <1>2. QED
    BY <1>1 DEF Door!doorVars

LEMMA ServeAtDoor ==
    ASSUME IInv, NEW r \in Requests, Serve(r)
    PROVE  Door!Settle(r) \/ Door!Fail(r) \/ UNCHANGED Door!doorVars
  <1>1. TypeOK /\ SlotInv(req[r]) /\ req[r] \in Request
    BY IInvBySlot DEF IInv, TypeOK
  <1>2. CASE LookupHit(r)
    BY <1>1, <1>2, HitIsPlausible, SettlesAtDoor DEF LookupHit
  <1>3. CASE Store(r)
    BY <1>1, <1>3, AnswerIsPlausible, SettlesAtDoor DEF Store
  <1>4. CASE LookupMiss(r)
    <2> DEFINE q == [req[r] EXCEPT !.pc = "calling"]
    <2>1. Outside(q) = Outside(req[r])
      BY <1>1, <1>4 DEF LookupMiss, Outside, Request
    <2>2. QED
      BY <1>1, <1>4, <2>1, InnerStep DEF LookupMiss
  <1>5. CASE PortalReads(r)
    <2>1. PICK blankRow \in SUBSET {NoKey} :
            req' = [req EXCEPT
                      ![r].pc = "answered",
                      ![r].readAt = clock,
                      ![r].view = portal[Subject(req[r])] \cup blankRow]
      BY <1>5 DEF PortalReads
    <2> DEFINE q == [req[r] EXCEPT !.pc = "answered", !.readAt = clock,
                       !.view = portal[Subject(req[r])] \cup blankRow]
    <2>2. Outside(q) = Outside(req[r])
      BY <1>1, <1>5 DEF PortalReads, Outside, Request
    <2>3. req' = [req EXCEPT ![r] = q]
      BY <2>1
    <2>4. QED
      BY <1>1, <1>5, <2>2, <2>3, InnerStep DEF PortalReads
  <1>6. CASE PortalFails(r)
    <2> DEFINE q == [req[r] EXCEPT !.pc = "unavailable", !.view = {},
                                   !.readAt = 0]
    <2>1. req[r].pc \in {"calling", "answered"} /\ req[r].key = NoKey
      BY <1>1, <1>6 DEF PortalFails, SlotInv
    <2>2. Outside(q) = Door!Answer(Outside(req[r]), "unavailable", NoKey)
      BY <1>1, <2>1 DEF Outside, Request, Door!Answer
    <2>3. Door!Turn(r, Outside(q))
      BY <1>1, <1>6, TurnOutside DEF PortalFails
    <2>4. Outside(req[r]).pc = "pending"
      BY <2>1, OutsideFields
    <2>5. QED
      BY <2>2, <2>3, <2>4 DEF Door!Fail
  <1>7. QED
    BY <1>2, <1>3, <1>4, <1>5, <1>6 DEF Serve

LEMMA NextAtDoor == IInv /\ [Next]_vars => [Door!Next]_(Door!doorVars)
  <1> SUFFICES ASSUME IInv, [Next]_vars
               PROVE  [Door!Next]_(Door!doorVars)
    OBVIOUS
  <1>1. CASE Tick
    <2>1. [p \in Requests |-> Outside(req[p])]'
            = [p \in Requests |-> Outside(req[p])]
      BY <1>1 DEF Tick, Outside
    <2>2. QED
      BY <1>1, <2>1 DEF Tick, Door!Tick, Door!Next
  <1>2. ASSUME NEW s \in Subjects, NEW k \in Tenants, PortalChanges(s, k)
        PROVE  Door!Next
    <2>1. [p \in Requests |-> Outside(req[p])]'
            = [p \in Requests |-> Outside(req[p])]
      BY <1>2 DEF PortalChanges, Outside
    <2>2. Door!PortalChanges(s, k)
      BY <1>2, <2>1 DEF PortalChanges, Door!PortalChanges
    <2>3. s \in Door!Subjects
      BY DEF IInv, TypeOK, Door!Subjects
    <2>4. QED
      BY <2>2, <2>3 DEF Door!Next
  <1>3. ASSUME NEW r \in Requests, Arrive(r) PROVE Door!Next
    BY <1>3, ArriveAtDoor DEF Door!Next
  <1>4. ASSUME NEW r \in Requests, Serve(r)
        PROVE  [Door!Next]_(Door!doorVars)
    BY <1>4, ServeAtDoor DEF Door!Next
  <1>5. CASE UNCHANGED vars
    <2>1. [p \in Requests |-> Outside(req[p])]'
            = [p \in Requests |-> Outside(req[p])]
      BY <1>5 DEF vars, Outside
    <2>2. QED
      BY <1>5, <2>1 DEF vars, Door!doorVars
  <1>6. QED
    BY <1>1, <1>2, <1>3, <1>4, <1>5 DEF Next

(* The gate with its cache, its unlocked portal calls and their races is   *)
(* the cache-free door with a bounded lag.                                 *)
THEOREM GateImplementsDoor == Spec => DoorSpec
  BY InitAtDoor, NextAtDoor, Invariance, PTL DEF Spec, DoorSpec, Door!Spec
=============================================================================
