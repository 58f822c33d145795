-------------------------- MODULE LifecycleProofs --------------------------
(***************************************************************************)
(* Proofs about Lifecycle, for any number of servers and embedders and any *)
(* choice of embedded services.                                            *)
(***************************************************************************)
EXTENDS Lifecycle, TLAPS

-----------------------------------------------------------------------------
(* What the proofs use of Order: its length, that no component is in it    *)
(* twice, and that a component comes after what it is handed.              *)
LEMMA OrderLength == Last = 11 /\ Order \in Seq(Components)
<1>1. Last = 11
  BY DEF Last, Order
<1>2. \A i \in 1..11 : Order[i] \in Components
  BY <1>1 DEF Components
<1>3. Order \in Seq({Order[i] : i \in 1..11})
  BY DEF Order
<1> QED
  BY <1>1, <1>3 DEF Components

LEMMA OrderDistinct ==
    ASSUME NEW i \in 1..11, NEW j \in 1..11, Order[i] = Order[j]
    PROVE  i = j
BY DEF Order

LEMMA UpstreamsComeFirst ==
    ASSUME NEW h \in Hosts, NEW i \in 1..11, NEW d \in Injected(h, Order[i])
    PROVE  \E j \in 1..(i-1) : Order[j] = d
<1>1. /\ Order[1] = "redis" /\ Order[2] = "db" /\ Order[3] = "gid"
      /\ Order[4] = "reference" /\ Order[5] = "message"
      /\ Order[6] = "storage" /\ Order[7] = "user" /\ Order[8] = "license"
      /\ Order[9] = "telemetry" /\ Order[10] = "portal"
      /\ Order[11] = "jobs"
  BY DEF Order
<1>2. CASE i \in {5, 6}
  <2>1. d \in {"db", "redis", "gid"}
    BY <1>1, <1>2 DEF Injected
  <2> QED
    BY <1>1, <1>2, <2>1
<1>3. CASE i = 7
  <2>1. d \in {"db", "redis", "gid", "message"}
    BY <1>1, <1>3 DEF Injected
  <2> QED
    BY <1>1, <1>3, <2>1
<1>4. CASE i = 8
  <2>1. d \in {"db", "redis"}
    BY <1>1, <1>4 DEF Injected
  <2> QED
    BY <1>1, <1>4, <2>1
<1>5. CASE i = 9
  <2>1. d \in {"db"}
    BY <1>1, <1>5 DEF Injected
  <2> QED
    BY <1>1, <1>5, <2>1
<1>6. CASE i \in {1, 2, 3, 4, 10, 11}
  <2>1. Injected(h, Order[i]) = {}
    BY <1>1, <1>6 DEF Injected
  <2> QED
    BY <2>1
<1> QED
  BY <1>2, <1>3, <1>4, <1>5, <1>6

LEMMA SlotNames == "testkit" \in Slots /\ "testkit" \notin Downstreams
<1>1. "testkit" \notin Components
  <2>1. \A i \in 1..11 : Order[i] # "testkit"
    BY DEF Order
  <2> QED
    BY <2>1, OrderLength DEF Components
<1> QED
  BY <1>1 DEF Slots, Downstreams

-----------------------------------------------------------------------------
(* The manager's list and the open components.                             *)

Listed == ListIsPrefix /\ OpenIsListed

(* The next component is one, and recording it keeps the list a prefix.    *)
LEMMA RecordNext ==
    ASSUME TypeOK, Listed, NEW h \in Hosts, ConnectNext(h)
    PROVE  /\ Upcoming(h) \in Components \ open[h]
           /\ mgr' \in [Hosts -> Seq(Components)]
           /\ open' \in [Hosts -> SUBSET Components]
           /\ Listed'
<1> DEFINE n == Len(mgr[h])
<1>1. mgr[h] \in Seq(Components) /\ n \in Nat /\ n < 11
  BY OrderLength DEF ConnectNext, TypeOK
<1>2. n + 1 \in 1..11 /\ Upcoming(h) = Order[n + 1]
  BY <1>1 DEF Upcoming
<1>3. Upcoming(h) \in Components
  BY <1>2, OrderLength DEF Components
<1>4. Upcoming(h) \notin open[h]
  <2>1. \A i \in 1..n : Order[i] # Order[n + 1]
    <3> SUFFICES ASSUME NEW i \in 1..n, Order[i] = Order[n + 1] PROVE FALSE
      OBVIOUS
    <3>1. i \in 1..11 /\ n + 1 \in 1..11 /\ i # n + 1
      BY <1>1
    <3> HIDE DEF n
    <3> QED
      BY <3>1, OrderDistinct
  <2> QED
    BY <1>2, <2>1 DEF Listed, OpenIsListed
<1>5. /\ mgr' = [mgr EXCEPT ![h] = Append(mgr[h], Upcoming(h))]
      /\ open' = [open EXCEPT ![h] = open[h] \cup {Upcoming(h)}]
  BY DEF ConnectNext
<1>6. Append(mgr[h], Upcoming(h)) \in Seq(Components)
  BY <1>1, <1>3
<1>7. mgr' \in [Hosts -> Seq(Components)]
  BY <1>5, <1>6 DEF TypeOK
<1>8. open' \in [Hosts -> SUBSET Components]
  BY <1>3, <1>5 DEF TypeOK
<1>9. ListIsPrefix'
  <2>1. ASSUME NEW k \in Hosts, k # h
        PROVE  mgr'[k] = mgr[k]
    BY <1>5, <2>1 DEF TypeOK
  <2>2. mgr'[h] = Append(mgr[h], Order[n + 1])
    BY <1>2, <1>5 DEF TypeOK
  <2>3. Len(mgr'[h]) = n + 1
    BY <1>1, <2>2
  <2>4. \A i \in 1..(n + 1) : mgr'[h][i] = Order[i]
    BY <1>1, <2>2 DEF Listed, ListIsPrefix
  <2> QED
    BY <1>1, <2>1, <2>3, <2>4, OrderLength DEF Listed, ListIsPrefix
<1>10. OpenIsListed'
  <2>1. ASSUME NEW k \in Hosts, k # h
        PROVE  mgr'[k] = mgr[k] /\ open'[k] = open[k]
    BY <1>5, <2>1 DEF TypeOK
  <2>2. Len(mgr'[h]) = n + 1
    BY <1>1, <1>5 DEF TypeOK
  <2>3. open'[h] = {Order[i] : i \in 1..n} \cup {Order[n + 1]}
    BY <1>2, <1>5 DEF TypeOK, Listed, OpenIsListed
  <2>4. open'[h] = {Order[i] : i \in 1..(n + 1)}
    BY <1>1, <2>3
  <2> QED
    BY <2>1, <2>2, <2>4 DEF Listed, OpenIsListed
<1> QED
  BY <1>3, <1>4, <1>7, <1>8, <1>9, <1>10 DEF Listed

(* Stopping the last component keeps the list a prefix.                    *)
LEMMA DropLast ==
    ASSUME TypeOK, Listed, NEW h \in Hosts, StopLast(h)
    PROVE  /\ mgr[h][Len(mgr[h])] \in open[h]
           /\ mgr' \in [Hosts -> Seq(Components)]
           /\ open' \in [Hosts -> SUBSET Components]
           /\ Listed'
<1>1. PICK list, n : list = mgr[h] /\ n = Len(list)
  OBVIOUS
<1>2. list \in Seq(Components) /\ n \in Nat /\ n # 0 /\ n <= 11
  <2>1. list \in Seq(Components) /\ list # << >>
    BY <1>1 DEF StopLast, TypeOK
  <2>2. n <= 11
    BY <1>1, OrderLength DEF Listed, ListIsPrefix
  <2> QED
    BY <1>1, <2>1, <2>2
<1>3. \A i \in 1..n : list[i] = Order[i]
  BY <1>1 DEF Listed, ListIsPrefix
<1>4. n \in 1..n /\ list[n] = Order[n]
  BY <1>2, <1>3
<1>5. open[h] = {Order[i] : i \in 1..n}
  BY <1>1 DEF Listed, OpenIsListed
<1>6. /\ mgr' = [mgr EXCEPT ![h] = SubSeq(list, 1, n - 1)]
      /\ open' = [open EXCEPT ![h] = open[h] \ {Order[n]}]
  BY <1>1, <1>4 DEF StopLast
<1>7. /\ SubSeq(list, 1, n - 1) \in Seq(Components)
      /\ Len(SubSeq(list, 1, n - 1)) = n - 1
      /\ \A i \in 1..(n - 1) : SubSeq(list, 1, n - 1)[i] = list[i]
  BY <1>1, <1>2
<1>8. /\ \A k \in Hosts \ {h} : mgr'[k] = mgr[k] /\ open'[k] = open[k]
      /\ mgr'[h] = SubSeq(list, 1, n - 1)
      /\ open'[h] = open[h] \ {Order[n]}
  BY <1>6 DEF TypeOK
<1>9. ListIsPrefix'
  <2>1. /\ Len(mgr'[h]) = n - 1 /\ n - 1 <= 11
        /\ \A i \in 1..(n - 1) : mgr'[h][i] = Order[i]
    BY <1>2, <1>3, <1>7, <1>8
  <2>2. \A k \in Hosts \ {h} : /\ Len(mgr'[k]) <= 11
                               /\ \A i \in 1..Len(mgr'[k]) : mgr'[k][i] = Order[i]
    BY <1>8, OrderLength DEF Listed, ListIsPrefix
  <2>3. \A i \in 1..Len(mgr'[h]) : mgr'[h][i] = Order[i]
    BY <2>1
  <2> QED
    BY <2>1, <2>2, <2>3, OrderLength DEF ListIsPrefix
<1>10. OpenIsListed'
  <2>1. \A i \in 1..(n - 1) : Order[i] # Order[n]
    <3> SUFFICES ASSUME NEW i \in 1..(n - 1), Order[i] = Order[n] PROVE FALSE
      OBVIOUS
    <3>1. i \in 1..11 /\ n \in 1..11 /\ i # n
      BY <1>2
    <3> QED
      BY <3>1, OrderDistinct
  <2>2. open'[h] = {Order[i] : i \in 1..(n - 1)}
    BY <1>2, <1>5, <1>8, <2>1
  <2> QED
    BY <1>7, <1>8, <2>2 DEF Listed, OpenIsListed
<1>11. mgr' \in [Hosts -> Seq(Components)]
  BY <1>6, <1>7 DEF TypeOK
<1>12. open' \in [Hosts -> SUBSET Components]
  BY <1>6 DEF TypeOK
<1> QED
  BY <1>1, <1>4, <1>5, <1>9, <1>10, <1>11, <1>12 DEF Listed

-----------------------------------------------------------------------------
(* The other steps leave list and connections alone.                       *)
Lists(h) == ConnectNext(h) \/ StopLast(h)

LEMMA OnlyTheseMoveLists ==
    ASSUME [Next]_vars
    PROVE  (\E h \in Hosts : Lists(h)) \/ UNCHANGED <<mgr, open>>
BY DEF Next, Build, Startup, Shutdown, Lists, vars, NewServer, ConnectModule,
       ConnectRemote, ConnectRefused, ConnectFails, Complete, ValidatorFails,
       Undone, Start, Started, StartFails, Bind, BindFails, CallBegins,
       CallEnds, Stop, Drained, Stopped

LEMMA NextListed ==
    ASSUME TypeOK, Listed, [Next]_vars
    PROVE  /\ mgr' \in [Hosts -> Seq(Components)]
           /\ open' \in [Hosts -> SUBSET Components]
           /\ Listed'
<1>1. CASE \E h \in Hosts : Lists(h)
  BY <1>1, RecordNext, DropLast DEF Lists
<1>2. CASE UNCHANGED <<mgr, open>>
  BY <1>2 DEF TypeOK, Listed, ListIsPrefix, OpenIsListed
<1> QED
  BY <1>1, <1>2, OnlyTheseMoveLists

-----------------------------------------------------------------------------
(* Every step keeps the places, flags and slots typed.                     *)
LEMMA NextTyped ==
    ASSUME TypeOK, Listed, [Next]_vars
    PROVE  TypeOK'
<1>1. /\ mgr' \in [Hosts -> Seq(Components)]
      /\ open' \in [Hosts -> SUBSET Components]
  BY NextListed
<1>2. pc' \in [Hosts -> Places]
  <2>1. ASSUME NEW h \in Hosts, NEW place \in Places, Goto(h, place)
        PROVE  pc' \in [Hosts -> Places]
    BY <2>1 DEF Goto, TypeOK
  <2>2. \/ \E h \in Hosts, place \in Places : Goto(h, place)
        \/ UNCHANGED pc
    BY DEF Next, Build, Startup, Shutdown, vars, NewServer, ConnectModule, New,
           ConnectRemote, ConnectRefused, ConnectNext, ConnectFails, Complete,
           ValidatorFails, Undone, Start, Started, StartFails, Bind, BindFails,
           CallBegins, CallEnds, Stop, Drained, StopLast, Stopped, Places
  <2> QED
    BY <2>1, <2>2 DEF TypeOK
<1>3. embeds' \in [Hosts -> SUBSET Downstreams]
  <2>1. ASSUME NEW h \in Hosts, New(h)
        PROVE  embeds' \in [Hosts -> SUBSET Downstreams]
    BY <2>1, LifecycleAssumption DEF New, TypeOK
  <2>2. (\E h \in Hosts : New(h)) \/ UNCHANGED embeds
    BY DEF Next, Build, Startup, Shutdown, vars, NewServer, ConnectModule,
           ConnectRemote, ConnectRefused, ConnectNext, ConnectFails, Complete,
           ValidatorFails, Undone, Start, Started, StartFails, Bind, BindFails,
           CallBegins, CallEnds, Stop, Drained, StopLast, Stopped
  <2> QED
    BY <2>1, <2>2 DEF TypeOK
<1>4. up' \in [Hosts -> BOOLEAN] /\ listening' \in [Hosts -> BOOLEAN]
  BY DEF TypeOK, Next, Build, Startup, Shutdown, vars, NewServer,
         ConnectModule, ConnectRemote, ConnectRefused, ConnectNext,
         ConnectFails, Complete, ValidatorFails, Undone, Start, Started,
         StartFails, Bind, BindFails, CallBegins, CallEnds, Stop, Drained,
         StopLast, Stopped
<1>5. calls' \in [Hosts -> Nat]
  <2>1. ASSUME NEW h \in Hosts, CallBegins(h) \/ CallEnds(h)
        PROVE  calls' \in [Hosts -> Nat]
    <3>1. calls[h] \in Nat
      BY DEF TypeOK
    <3>2. CallBegins(h) => calls[h] + 1 \in Nat
      BY <3>1
    <3>3. CallEnds(h) => calls[h] - 1 \in Nat
      BY <3>1 DEF CallEnds
    <3> QED
      BY <2>1, <3>2, <3>3 DEF CallBegins, CallEnds, TypeOK
  <2>2. (\E h \in Hosts : CallBegins(h) \/ CallEnds(h)) \/ UNCHANGED calls
    BY DEF Next, Build, Startup, Shutdown, vars, NewServer, ConnectModule,
           ConnectRemote, ConnectRefused, ConnectNext, ConnectFails, Complete,
           ValidatorFails, Undone, Start, Started, StartFails, Bind, BindFails,
           Stop, Drained, StopLast, Stopped
  <2> QED
    BY <2>1, <2>2 DEF TypeOK
<1>6. slot' \in [Slots -> Hosts \cup {Nobody}]
  <2>1. ASSUME NEW h \in Hosts, NEW s,
               Claim(s, h) \/ Release(s)
        PROVE  slot' \in [Slots -> Hosts \cup {Nobody}]
    BY <2>1 DEF Claim, Release, TypeOK
  <2>2. \/ \E h \in Hosts : \E s \in Slots \cup Components : Claim(s, h) \/ Release(s)
        \/ UNCHANGED slot
    <3>1. ASSUME NEW h \in Hosts, ConnectNext(h)
          PROVE  \/ \E s \in Slots \cup Components : Claim(s, h)
                 \/ UNCHANGED slot
      BY <3>1, RecordNext DEF ConnectNext
    <3>2. ASSUME NEW h \in Hosts, StopLast(h)
          PROVE  \/ \E s \in Slots \cup Components : Release(s)
                 \/ UNCHANGED slot
      BY <3>2, DropLast DEF StopLast, TypeOK
    <3> QED
      BY <3>1, <3>2, SlotNames
      DEF Next, Build, Startup, Shutdown, vars, NewServer, ConnectModule,
          ConnectRemote, ConnectRefused, ConnectFails, Complete,
          ValidatorFails, Undone, Start, Started, StartFails, Bind, BindFails,
          CallBegins, CallEnds, Stop, Drained, Stopped
  <2> QED
    BY <2>1, <2>2 DEF TypeOK
<1> QED
  BY <1>1, <1>2, <1>3, <1>4, <1>5, <1>6 DEF TypeOK

-----------------------------------------------------------------------------
(* PlaceTellsState, for one host.                                          *)
Fits(h) ==
    /\ At(h, {"idle", "dialed", "refused", "stopped"}) => mgr[h] = << >>
    /\ At(h, {"built", "starting", "binding", "running", "half",
              "draining", "lost"}) => Len(mgr[h]) = Last
    /\ At(h, {"binding", "running"}) => up[h]
    /\ listening[h] => At(h, {"running"})
    /\ calls[h] > 0 => up[h] /\ At(h, {"running", "draining"})
    /\ h \in Servers => ~At(h, {"dialed"})

(* What one host may do.                                                   *)
Step(h) ==
    \/ NewServer(h) \/ ConnectModule(h) \/ ConnectRemote(h)
    \/ ConnectRefused(h)
    \/ Build(h)
    \/ Start(h) \/ Startup(h)
    \/ CallBegins(h) \/ CallEnds(h)
    \/ Stop(h) \/ Shutdown(h)

LEMMA StepsOfHosts ==
    ASSUME [Next]_vars
    PROVE  (\E h \in Hosts : Step(h)) \/ UNCHANGED vars
BY DEF Next, Step

(* A step of one host leaves the others where they are.                    *)
LEMMA OthersStay ==
    ASSUME TypeOK, NEW h \in Hosts, Step(h), NEW k \in Hosts, k # h
    PROVE  /\ pc'[k] = pc[k] /\ mgr'[k] = mgr[k] /\ open'[k] = open[k]
           /\ up'[k] = up[k] /\ listening'[k] = listening[k]
           /\ calls'[k] = calls[k] /\ embeds'[k] = embeds[k]
<1>1. pc'[k] = pc[k]
  BY DEF TypeOK, Step, Build, Startup, Shutdown, NewServer, ConnectModule, New,
         ConnectRemote, ConnectRefused, ConnectNext, ConnectFails, Complete,
         ValidatorFails, Undone, Start, Started, StartFails, Bind, BindFails,
         CallBegins, CallEnds, Stop, Drained, StopLast, Stopped, Goto
<1>2. mgr'[k] = mgr[k] /\ open'[k] = open[k]
  BY DEF TypeOK, Step, Build, Startup, Shutdown, NewServer, ConnectModule,
         ConnectRemote, ConnectRefused, ConnectNext, ConnectFails, Complete,
         ValidatorFails, Undone, Start, Started, StartFails, Bind, BindFails,
         CallBegins, CallEnds, Stop, Drained, StopLast, Stopped
<1>3. up'[k] = up[k] /\ listening'[k] = listening[k] /\ calls'[k] = calls[k]
  BY DEF TypeOK, Step, Build, Startup, Shutdown, NewServer, ConnectModule,
         ConnectRemote, ConnectRefused, ConnectNext, ConnectFails, Complete,
         ValidatorFails, Undone, Start, Started, StartFails, Bind, BindFails,
         CallBegins, CallEnds, Stop, Drained, StopLast, Stopped
<1>4. embeds'[k] = embeds[k]
  BY DEF TypeOK, Step, Build, Startup, Shutdown, NewServer, ConnectModule, New,
         ConnectRemote, ConnectRefused, ConnectNext, ConnectFails, Complete,
         ValidatorFails, Undone, Start, Started, StartFails, Bind, BindFails,
         CallBegins, CallEnds, Stop, Drained, StopLast, Stopped
<1> QED
  BY <1>1, <1>2, <1>3, <1>4

(* The step of the host itself takes it to a place its state fits.         *)
LEMMA StepFits ==
    ASSUME TypeOK, Listed, NEW h \in Hosts, Fits(h), Step(h)
    PROVE  Fits(h)'
<1> USE DEF Fits, At, Goto
<1>1. CASE NewServer(h)
  BY <1>1 DEF NewServer, New, TypeOK, Vacant
<1>2. CASE ConnectModule(h)
  BY <1>2 DEF ConnectModule, New, TypeOK, Vacant
<1>3. CASE ConnectRemote(h)
  BY <1>3, LifecycleAssumption DEF ConnectRemote, TypeOK, Vacant
<1>4. CASE ConnectRefused(h)
  BY <1>4 DEF ConnectRefused, TypeOK, Vacant
<1>5. CASE Build(h)
  <2>1. CASE ConnectNext(h)
    BY <2>1 DEF ConnectNext, TypeOK
  <2>2. CASE ConnectFails(h)
    BY <2>2 DEF ConnectFails, TypeOK
  <2>3. CASE Complete(h)
    BY <2>3 DEF Complete, TypeOK
  <2>4. CASE ValidatorFails(h)
    BY <2>4 DEF ValidatorFails, TypeOK
  <2>5. CASE Undone(h)
    BY <2>5 DEF Undone, TypeOK
  <2> QED
    BY <1>5, <2>1, <2>2, <2>3, <2>4, <2>5 DEF Build
<1>6. CASE Start(h)
  BY <1>6 DEF Start, TypeOK
<1>7. CASE Startup(h)
  <2>1. CASE Started(h)
    BY <2>1 DEF Started, TypeOK
  <2>2. CASE StartFails(h)
    BY <2>2 DEF StartFails, TypeOK
  <2>3. CASE Bind(h)
    BY <2>3 DEF Bind, TypeOK
  <2>4. CASE BindFails(h)
    BY <2>4 DEF BindFails, TypeOK
  <2> QED
    BY <1>7, <2>1, <2>2, <2>3, <2>4 DEF Startup
<1>8. CASE CallBegins(h)
  BY <1>8 DEF CallBegins, TypeOK
<1>9. CASE CallEnds(h)
  BY <1>9 DEF CallEnds, TypeOK
<1>10. CASE Stop(h)
  BY <1>10 DEF Stop, TypeOK
<1>11. CASE Shutdown(h)
  <2>1. CASE Drained(h)
    BY <2>1 DEF Drained, TypeOK
  <2>2. CASE StopLast(h)
    BY <2>2 DEF StopLast, TypeOK
  <2>3. CASE Stopped(h)
    BY <2>3 DEF Stopped, TypeOK
  <2> QED
    BY <1>11, <2>1, <2>2, <2>3 DEF Shutdown
<1> QED
  BY <1>1, <1>2, <1>3, <1>4, <1>5, <1>6, <1>7, <1>8, <1>9, <1>10, <1>11
  DEF Step

LEMMA NextPlaces ==
    ASSUME TypeOK, Listed, PlaceTellsState, [Next]_vars
    PROVE  PlaceTellsState'
<1>1. \A k \in Hosts : Fits(k)
  BY DEF PlaceTellsState, Fits
<1>2. \A k \in Hosts : Fits(k)'
  <2>1. CASE UNCHANGED vars
    BY <1>1, <2>1 DEF vars, Fits, At
  <2>2. ASSUME NEW h \in Hosts, Step(h), NEW k \in Hosts
        PROVE  Fits(k)'
    <3>1. CASE k = h
      BY <1>1, <2>2, <3>1, StepFits
    <3>2. CASE k # h
      BY <1>1, <2>2, <3>2, OthersStay DEF Fits, At
    <3> QED
      BY <3>1, <3>2
  <2> QED
    BY <2>1, <2>2, StepsOfHosts
<1> QED
  BY <1>2 DEF PlaceTellsState, Fits

-----------------------------------------------------------------------------
(* The slots.                                                              *)

Embeds(h, d) == d \in open[h] /\ d \in embeds[h]

HoldsTestkit(h) == h \in Embedders /\ ~Vacant(h) /\ pc[h] # "dialed"

LEMMA SlotsUnfold ==
    SlotsMatchModules <=>
        /\ \A h \in Hosts, d \in Downstreams : slot[d] = h <=> Embeds(h, d)
        /\ \A h \in Hosts : slot["testkit"] = h <=> HoldsTestkit(h)
BY DEF SlotsMatchModules, Embeds, HoldsTestkit

LEMMA VacantIsEmpty ==
    ASSUME TypeOK, Listed, NEW h \in Hosts, Fits(h), Vacant(h)
    PROVE  mgr[h] = << >> /\ open[h] = {}
<1>1. mgr[h] = << >>
  BY DEF Vacant, Fits, At
<1>2. 1..Len(mgr[h]) = {}
  BY <1>1
<1> QED
  BY <1>1, <1>2 DEF Listed, OpenIsListed

(* Which slots a step can touch.                                           *)
LEMMA StepSlots ==
    ASSUME TypeOK, Listed, NEW h \in Hosts, Step(h)
    PROVE  \/ ConnectModule(h) \/ ConnectNext(h) \/ StopLast(h)
           \/ (Undone(h) \/ Stopped(h)) /\ h \in Embedders
           \/ UNCHANGED slot
BY DEF Step, Build, Startup, Shutdown, NewServer, ConnectRemote,
       ConnectRefused, ConnectFails, Complete, ValidatorFails, Undone, Start,
       Started, StartFails, Bind, BindFails, CallBegins, CallEnds, Stop,
       Drained, Stopped

(* The slots of the downstream services.                                   *)
LEMMA StepEmbeds ==
    ASSUME TypeOK, Listed, NEW h \in Hosts, Fits(h), Step(h),
           \A k \in Hosts, d \in Downstreams : slot[d] = k <=> Embeds(k, d),
           NEW k \in Hosts, NEW d \in Downstreams
    PROVE  slot'[d] = k <=> Embeds(k, d)'
<1>1. d \in Slots /\ d # "testkit" /\ d \in Components
  BY SlotNames DEF Slots, Downstreams
<1>2. slot[d] = k <=> Embeds(k, d)
  OBVIOUS
<1>3. k # h => (Embeds(k, d)' <=> Embeds(k, d))
  BY OthersStay DEF Embeds
<1>4. h # Nobody /\ k # Nobody
  BY LifecycleAssumption
<1>5. CASE ConnectNext(h)
  <2> DEFINE c == Upcoming(h)
  <2>1. c \notin open[h] /\ c \in Components
    BY <1>5, RecordNext
  <2>2. embeds'[h] = embeds[h] /\ open'[h] = open[h] \cup {c}
    BY <1>5 DEF ConnectNext, TypeOK
  <2> HIDE DEF c
  <2>3. CASE c \in embeds[h]
    <3>1. /\ c \in Slots /\ slot[c] = Nobody
          /\ slot' = [slot EXCEPT ![c] = h]
      BY <1>5, <2>3 DEF ConnectNext, Claim, TypeOK, Slots, c
    <3>2. slot'[d] = IF d = c THEN h ELSE slot[d]
      BY <1>1, <3>1 DEF TypeOK
    <3> QED
      BY <1>2, <1>3, <1>4, <2>2, <2>3, <3>1, <3>2 DEF Embeds
  <2>4. CASE c \notin embeds[h]
    <3>1. slot' = slot
      BY <1>5, <2>4 DEF ConnectNext, c
    <3> QED
      BY <1>2, <1>3, <2>2, <2>4, <3>1 DEF Embeds
  <2> QED
    BY <2>3, <2>4
<1>6. CASE StopLast(h)
  <2> DEFINE c == mgr[h][Len(mgr[h])]
  <2>1. c \in open[h]
    BY <1>6, DropLast
  <2>2. embeds'[h] = embeds[h] /\ open'[h] = open[h] \ {c}
    BY <1>6 DEF StopLast, TypeOK
  <2> HIDE DEF c
  <2>3. CASE c \in embeds[h]
    <3>1. /\ c \in Downstreams /\ c \in Slots
          /\ slot' = [slot EXCEPT ![c] = Nobody]
      BY <1>6, <2>3 DEF StopLast, Release, TypeOK, Slots, c
    <3>2. slot'[d] = IF d = c THEN Nobody ELSE slot[d]
      BY <1>1, <3>1 DEF TypeOK
    <3>3. slot[c] = h
      BY <2>1, <2>3, <3>1 DEF Embeds
    <3> QED
      BY <1>2, <1>3, <1>4, <2>2, <2>3, <3>2, <3>3 DEF Embeds
  <2>4. CASE c \notin embeds[h]
    <3>1. slot' = slot
      BY <1>6, <2>4 DEF StopLast, c
    <3> QED
      BY <1>2, <1>3, <2>2, <2>4, <3>1 DEF Embeds
  <2> QED
    BY <2>3, <2>4
<1>7. CASE ~ConnectNext(h) /\ ~StopLast(h)
  <2>1. slot'[d] = slot[d]
    BY <1>1, <1>7, StepSlots
    DEF ConnectModule, Undone, Stopped, Claim, Release, TypeOK
  <2>2. open'[h] = open[h]
    BY <1>7 DEF Step, Build, Startup, Shutdown, NewServer, ConnectModule,
         ConnectRemote, ConnectRefused, ConnectFails, Complete,
         ValidatorFails, Undone, Start, Started, StartFails, Bind, BindFails,
         CallBegins, CallEnds, Stop, Drained, Stopped
  <2>3. (Vacant(h) /\ open[h] = {}) \/ embeds'[h] = embeds[h]
    <3>1. Vacant(h) \/ embeds'[h] = embeds[h]
      BY <1>7 DEF Step, Build, Startup, Shutdown, NewServer, ConnectModule,
           ConnectRemote, ConnectRefused, ConnectFails, Complete,
           ValidatorFails, Undone, Start, Started, StartFails, Bind,
           BindFails, CallBegins, CallEnds, Stop, Drained, Stopped
    <3> QED
      BY <3>1, VacantIsEmpty
  <2> QED
    BY <1>2, <1>3, <2>1, <2>2, <2>3 DEF Embeds
<1> QED
  BY <1>5, <1>6, <1>7

(* Connect's own slot.                                                     *)
LEMMA StepTestkit ==
    ASSUME TypeOK, Listed, NEW h \in Hosts, Fits(h), Step(h),
           \A k \in Hosts : slot["testkit"] = k <=> HoldsTestkit(k),
           NEW k \in Hosts
    PROVE  slot'["testkit"] = k <=> HoldsTestkit(k)'
<1>1. slot["testkit"] = k <=> HoldsTestkit(k)
  OBVIOUS
<1>2. slot["testkit"] = h <=> HoldsTestkit(h)
  OBVIOUS
<1>3. k # h => (HoldsTestkit(k)' <=> HoldsTestkit(k))
  BY OthersStay DEF HoldsTestkit, Vacant, At
<1>4. h # Nobody /\ k # Nobody
  BY LifecycleAssumption
<1>5. CASE ConnectModule(h)
  <2>1. slot["testkit"] = Nobody /\ slot'["testkit"] = h
    BY <1>5, SlotNames DEF ConnectModule, Claim, TypeOK
  <2>2. HoldsTestkit(h)'
    BY <1>5 DEF ConnectModule, New, Goto, HoldsTestkit, Vacant, At, TypeOK
  <2> QED
    BY <1>1, <1>3, <1>4, <2>1, <2>2
<1>6. CASE (Undone(h) \/ Stopped(h)) /\ h \in Embedders
  <2>1. HoldsTestkit(h)
    BY <1>6 DEF Undone, Stopped, HoldsTestkit, Vacant, At
  <2>2. slot'["testkit"] = Nobody
    BY <1>6, SlotNames DEF Undone, Stopped, Release, TypeOK
  <2>3. ~HoldsTestkit(h)'
    BY <1>6 DEF Undone, Stopped, Goto, HoldsTestkit, Vacant, At, TypeOK
  <2> QED
    BY <1>1, <1>2, <1>3, <1>4, <2>1, <2>2, <2>3
<1>7. CASE ~ConnectModule(h) /\ ~((Undone(h) \/ Stopped(h)) /\ h \in Embedders)
  <2>1. slot'["testkit"] = slot["testkit"]
    <3>1. CASE ConnectNext(h)
      <4>1. Upcoming(h) \in embeds[h] => Upcoming(h) # "testkit"
        BY SlotNames DEF TypeOK
      <4> QED
        BY <3>1, <4>1, SlotNames DEF ConnectNext, Claim, TypeOK
    <3>2. CASE StopLast(h)
      <4>1. mgr[h][Len(mgr[h])] \in embeds[h]
                => mgr[h][Len(mgr[h])] # "testkit"
        BY SlotNames DEF TypeOK
      <4> QED
        BY <3>2, <4>1, SlotNames DEF StopLast, Release, TypeOK
    <3> QED
      BY <1>7, <3>1, <3>2, StepSlots
  <2>2. HoldsTestkit(h)' <=> HoldsTestkit(h)
    BY <1>7, LifecycleAssumption
    DEF HoldsTestkit, Vacant, At, Goto, TypeOK, Step, Build, Startup,
        Shutdown, NewServer, New, ConnectRemote, ConnectRefused, ConnectNext,
        ConnectFails, Complete, ValidatorFails, Undone, Start, Started,
        StartFails, Bind, BindFails, CallBegins, CallEnds, Stop, Drained,
        StopLast, Stopped
  <2> QED
    BY <1>1, <1>2, <1>3, <2>1, <2>2
<1> QED
  BY <1>5, <1>6, <1>7

LEMMA NextSlots ==
    ASSUME TypeOK, Listed, PlaceTellsState, SlotsMatchModules, [Next]_vars
    PROVE  SlotsMatchModules'
<1>1. CASE UNCHANGED vars
  BY <1>1 DEF vars, SlotsMatchModules, Vacant, At
<1>2. ASSUME NEW h \in Hosts, Step(h)
      PROVE  SlotsMatchModules'
  <2>1. Fits(h)
    BY DEF PlaceTellsState, Fits
  <2>2. /\ \A k \in Hosts, d \in Downstreams : slot[d] = k <=> Embeds(k, d)
        /\ \A k \in Hosts : slot["testkit"] = k <=> HoldsTestkit(k)
    BY SlotsUnfold
  <2>3. \A k \in Hosts, d \in Downstreams : slot'[d] = k <=> Embeds(k, d)'
    BY <1>2, <2>1, <2>2, StepEmbeds
  <2>4. \A k \in Hosts : slot'["testkit"] = k <=> HoldsTestkit(k)'
    BY <1>2, <2>1, <2>2, StepTestkit
  <2> QED
    BY <2>3, <2>4 DEF SlotsMatchModules, Embeds, HoldsTestkit
<1> QED
  BY <1>1, <1>2, StepsOfHosts

-----------------------------------------------------------------------------
(* The theorems.                                                           *)

LEMMA InitIInv == Init => IInv
<1> SUFFICES ASSUME Init PROVE IInv
  OBVIOUS
<1>1. TypeOK
  BY DEF Init, TypeOK, Places
<1>2. ListIsPrefix /\ OpenIsListed
  BY OrderLength DEF Init, ListIsPrefix, OpenIsListed
<1>3. PlaceTellsState
  BY DEF Init, PlaceTellsState, At
<1>4. SlotsMatchModules
  BY LifecycleAssumption, SlotNames
  DEF Init, SlotsMatchModules, Vacant, At, Slots
<1> QED
  BY <1>1, <1>2, <1>3, <1>4 DEF IInv

LEMMA NextIInv == IInv /\ [Next]_vars => IInv'
BY NextTyped, NextListed, NextPlaces, NextSlots DEF IInv, Listed

(* The manager's list is the connected part of New's order, the open       *)
(* components are the listed ones, a host's place tells how far it is, and *)
(* the slots agree with all of it, whichever steps fail in whichever       *)
(* instances (init.go New and rollback, connect.go Connect).               *)
THEOREM LifecycleInvariant == Spec => []IInv
<1>1. Init => IInv
  BY InitIInv
<1>2. IInv /\ [Next]_vars => IInv'
  BY NextIInv
<1> QED
  BY <1>1, <1>2, PTL DEF Spec

(* Every downstream service is embedded at most once per process and its   *)
(* slot is held exactly while it is (connect.go Connect, ModuleClaim).     *)
THEOREM SlotsAgree == Spec => []SlotsMatchModules
<1>1. IInv => SlotsMatchModules
  BY DEF IInv
<1> QED
  BY <1>1, LifecycleInvariant, PTL

(* Neither construction, nor rollback, nor stop ever closes a component    *)
(* under one that was handed it (init.go New, the order of the connects).  *)
THEOREM ClosedAfterItsUsers == Spec => []UpstreamsOutliveUsers
<1>1. IInv => UpstreamsOutliveUsers
  <2> SUFFICES ASSUME IInv, NEW h \in Hosts, NEW c \in open[h],
                      NEW d \in Injected(h, c)
               PROVE  d \in open[h]
    BY DEF UpstreamsOutliveUsers
  <2>1. PICK n : n = Len(mgr[h])
    OBVIOUS
  <2>2. n \in Nat /\ n <= 11 /\ open[h] = {Order[i] : i \in 1..n}
    BY <2>1, OrderLength DEF IInv, TypeOK, ListIsPrefix, OpenIsListed
  <2>3. PICK i \in 1..n : c = Order[i]
    BY <2>2
  <2>4. PICK j \in 1..(i - 1) : Order[j] = d
    <3>1. i \in 1..11
      BY <2>2
    <3> QED
      BY <2>3, <3>1, UpstreamsComeFirst
  <2>5. j \in 1..n
    BY <2>2
  <2> QED
    BY <2>2, <2>4, <2>5
<1> QED
  BY <1>1, LifecycleInvariant, PTL

(* A failed construction and a stop leave no connection open and no slot   *)
(* taken (init.go rollback, connect.go's Release and Wrap).                *)
THEOREM NothingIsLeft == Spec => []NothingLeftBehind
<1>1. IInv => NothingLeftBehind
  <2> SUFFICES ASSUME IInv, NEW h \in Hosts, Vacant(h)
               PROVE  /\ open[h] = {} /\ mgr[h] = << >>
                      /\ \A s \in Slots : slot[s] # h
    BY DEF NothingLeftBehind
  <2>1. mgr[h] = << >> /\ open[h] = {}
    BY VacantIsEmpty DEF IInv, Listed, PlaceTellsState, Fits
  <2>2. \A s \in Downstreams : slot[s] # h
    BY <2>1 DEF IInv, SlotsMatchModules
  <2>3. slot["testkit"] # h
    BY DEF IInv, SlotsMatchModules
  <2> QED
    BY <2>1, <2>2, <2>3 DEF Slots
<1> QED
  BY <1>1, LifecycleInvariant, PTL

(* Whoever can call the server finds every component started and open,     *)
(* until the last call is answered (server.go Start and Stop).             *)
THEOREM ServerIsWhole == Spec => []CallsFindBackends
<1>1. IInv => CallsFindBackends
  <2> SUFFICES ASSUME IInv, NEW h \in Hosts, listening[h] \/ calls[h] > 0
               PROVE  up[h] /\ open[h] = Components
    BY DEF CallsFindBackends
  <2>1. up[h] /\ Len(mgr[h]) = Last
    BY DEF IInv, PlaceTellsState, At
  <2> QED
    BY <2>1 DEF IInv, OpenIsListed, Components
<1> QED
  BY <1>1, LifecycleInvariant, PTL
=============================================================================
