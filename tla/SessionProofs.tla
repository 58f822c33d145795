--------------------------- MODULE SessionProofs ---------------------------
(***************************************************************************)
(* TLAPS proofs about ConsoleSession.  Types hold for any number of tabs.  *)
(* What the console promises about session and choice holds in a browser   *)
(* with one tab, for any users, tenants, sessions and requests that are    *)
(* open at once; with two tabs it does not (run TabsChoice).               *)
(***************************************************************************)
EXTENDS ConsoleSession, TLAPS

-----------------------------------------------------------------------------
(* A tab's record and the requests in it.                                  *)
Put(p, c, q) == [p EXCEPT !.calls[c] = q]

Asking(kind, st) == [kind |-> kind, token |-> st.token, choice |-> st.choice,
                     reply |-> "open", keys |-> {}]

Told(q, reply, token, keys) == [kind |-> q.kind, token |-> token, choice |-> q.choice,
                                reply |-> reply, keys |-> keys]

(* An answered call carries a token that was issued, and the registry is   *)
(* only asked for where there is one.                                      *)
GoodCall(q) ==
    /\ q.kind # "none" /\ q.reply = "ok" => q.token \in Tokens
    /\ q.kind = "registry" => Registry \in Subjects

GoodTab == {p \in Tab : \A c \in Slots : GoodCall(p.calls[c])}

TypeInv ==
    /\ store \in Store
    /\ owner \in [Tokens -> Users \cup {NoActor}]
    /\ live \in SUBSET Tokens
    /\ portal \in [Subjects -> SUBSET Tenants]
    /\ gate \in [Subjects -> SUBSET Tenants]
    /\ tab \in [Tabs -> GoodTab]

(* Putting a request into a slot changes that slot only.                   *)
LEMMA PutIs ==
    ASSUME NEW p \in Tab, NEW c \in Slots, NEW q \in Call
    PROVE  /\ Put(p, c, q) \in Tab
           /\ Put(p, c, q).page = p.page /\ Put(p, c, q).user = p.user
           /\ Put(p, c, q).offered = p.offered /\ Put(p, c, q).asked = p.asked
           /\ Put(p, c, q).view = p.view /\ Put(p, c, q).leaving = p.leaving
           /\ Put(p, c, q).calls[c] = q
           /\ \A d \in Slots \ {c} : Put(p, c, q).calls[d] = p.calls[d]
  BY DEF Put, Tab

(* A good request keeps a tab good.                                        *)
LEMMA PutGood ==
    ASSUME NEW p \in GoodTab, NEW c \in Slots, NEW q \in Call, GoodCall(q)
    PROVE  Put(p, c, q) \in GoodTab
  BY PutIs DEF GoodTab

(* A request that is sent.                                                 *)
LEMMA SentIs ==
    ASSUME NEW p, NEW c \in Slots, NEW st \in Store, NEW kind \in Kinds
    PROVE  /\ Sent(p, c, kind, st) = Put(p, c, Asking(kind, st))
           /\ Asking(kind, st) \in Call
           /\ (kind = "registry" => Registry \in Subjects) => GoodCall(Asking(kind, st))
  BY DEF Sent, Put, Asking, Call, Store, Replies, GoodCall

(* A request that is done with.                                            *)
LEMMA CloseIs ==
    ASSUME NEW p, NEW c \in Slots
    PROVE  Close(p, c) = Put(p, c, NoCall) /\ NoCall \in Call /\ GoodCall(NoCall)
  BY DEF Close, Put, NoCall, Call, Kinds, Replies, Choices, GoodCall

(* Pages that have just been opened.                                       *)
LEMMA FreshTabs ==
    /\ Loading \in GoodTab /\ Opening \in GoodTab
    /\ Loading.page = "loading" /\ Opening.page = "opening"
    /\ ~Loading.leaving /\ ~Opening.leaving
    /\ \A c \in Slots : Loading.calls[c] = NoCall /\ Opening.calls[c] = NoCall
<1>1. NoCall \in Call /\ GoodCall(NoCall) /\ NoKey \in Choices
  BY DEF NoCall, Call, Kinds, Replies, Choices, GoodCall
<1>2. /\ Loading \in Tab /\ Loading.page = "loading" /\ ~Loading.leaving
      /\ \A c \in Slots : Loading.calls[c] = NoCall
  BY <1>1 DEF Loading, Tab, Pages
<1>3. /\ Opening \in Tab /\ Opening.page = "opening" /\ Opening.calls = Loading.calls
      /\ Opening.leaving = Loading.leaving
  BY <1>1, <1>2 DEF Loading, Opening, Tab, Pages
<1> QED
  BY <1>1, <1>2, <1>3 DEF GoodTab

(* Where a bootstrap or a route change leads.                              *)
LEMMA EnteredIs ==
    ASSUME NEW p \in GoodTab, NEW st \in Store
    PROVE  /\ Entered(p, st) \in GoodTab /\ Entered(p, st).calls = p.calls
           /\ Entered(p, st).leaving = p.leaving
           /\ Entered(p, st).page = "app" =>
                /\ st.token # NoToken /\ Entered(p, st).view = st.choice
                /\ Entered(p, st).user = p.user /\ Entered(p, st).offered = p.offered
           /\ Entered(p, st).page \in {"link", "login", "app"}
           /\ st.token # NoToken /\ p.page = "app" => Entered(p, st).page = "app"
<1>1. p \in Tab /\ NoKey \in Choices /\ st.choice \in Choices
  BY DEF GoodTab, Choices, Store
<1>2. CASE p.page \in {"opening", "linkboot"}
  BY <1>1, <1>2 DEF Entered, GoodTab, Tab, Pages
<1>3. CASE p.page \notin {"opening", "linkboot"} /\ st.token = NoToken
  BY <1>1, <1>3 DEF Entered, GoodTab, Tab, Pages
<1>4. CASE p.page \notin {"opening", "linkboot"} /\ st.token # NoToken
  BY <1>1, <1>4 DEF Entered, GoodTab, Tab, Pages
<1> QED
  BY <1>2, <1>3, <1>4

(* A page that is to be left is the page it was.                           *)
LEMMA DepartingIs ==
    ASSUME NEW p \in GoodTab
    PROVE  /\ Departing(p) \in GoodTab /\ Departing(p).leaving
           /\ Departing(p).page = p.page /\ Departing(p).user = p.user
           /\ Departing(p).offered = p.offered /\ Departing(p).view = p.view
           /\ Departing(p).calls = p.calls
  BY DEF Departing, GoodTab, Tab

(* A page whose layout has gone waits for no registry.                     *)
LEMMA UnmountedIs ==
    ASSUME NEW p \in GoodTab
    PROVE  /\ Unmounted(p) \in GoodTab
           /\ Unmounted(p).page = p.page /\ Unmounted(p).user = p.user
           /\ Unmounted(p).offered = p.offered /\ Unmounted(p).leaving = p.leaving
           /\ \A c \in Slots :
                 /\ p.calls[c].kind # "registry" => Unmounted(p).calls[c] = p.calls[c]
                 /\ p.calls[c].kind = "registry" => Unmounted(p).calls[c].kind = "page"
<1> DEFINE Quiet(q) == IF q.kind = "registry" THEN [q EXCEPT !.kind = "page"] ELSE q
<1>1. p \in Tab /\ p.calls \in [Slots -> Call]
  BY DEF GoodTab, Tab
<1>2. ASSUME NEW c \in Slots
      PROVE  /\ Quiet(p.calls[c]) \in Call /\ GoodCall(Quiet(p.calls[c]))
             /\ p.calls[c].kind = "registry" => Quiet(p.calls[c]).kind = "page"
  BY <1>1 DEF GoodTab, Call, Kinds, GoodCall
<1>3. Unmounted(p) = [p EXCEPT !.calls = [c \in Slots |-> Quiet(p.calls[c])]]
  BY <1>1 DEF Unmounted, Tab
<1> HIDE DEF Quiet
<1>4. /\ Unmounted(p) \in Tab /\ Unmounted(p).calls = [c \in Slots |-> Quiet(p.calls[c])]
      /\ Unmounted(p).page = p.page /\ Unmounted(p).user = p.user
      /\ Unmounted(p).offered = p.offered /\ Unmounted(p).leaving = p.leaving
  BY <1>1, <1>2, <1>3 DEF Tab
<1>5. \A c \in Slots : p.calls[c].kind # "registry" => Quiet(p.calls[c]) = p.calls[c]
  BY DEF Quiet
<1> QED
  BY <1>2, <1>4, <1>5 DEF GoodTab

(* The start of a bootstrap.                                               *)
LEMMA BootstrappedIs ==
    ASSUME NEW p \in GoodTab, NEW c \in Slots, NEW st \in Store, NEW page \in Pages
    PROVE  Bootstrapped(p, c, st, page) \in GoodTab
<1> DEFINE q == [p EXCEPT !.user = st.user, !.offered = {}, !.asked = FALSE]
<1>1. q \in GoodTab
  BY DEF GoodTab, Tab, Store
<1>2. CASE st.token # NoToken /\ st.user \in Admins
  <2> DEFINE r == [q EXCEPT !.page = page]
  <2>1. r \in GoodTab
    BY <1>1 DEF GoodTab, Tab
  <2>2. "whoami" \in Kinds /\ "whoami" # "registry"
    BY DEF Kinds
  <2>3. Sent(r, c, "whoami", st) \in GoodTab
    BY <2>1, <2>2, SentIs, PutGood
  <2> QED
    BY <1>2, <2>3 DEF Bootstrapped
<1>3. CASE ~(st.token # NoToken /\ st.user \in Admins)
  BY <1>1, <1>3, EnteredIs DEF Bootstrapped
<1> QED
  BY <1>2, <1>3

(* One tab changes, the others do not.                                     *)
LEMMA SetTabIs ==
    ASSUME tab \in [Tabs -> GoodTab], NEW t \in Tabs, NEW x \in GoodTab, SetTab(t, x)
    PROVE  /\ tab' \in [Tabs -> GoodTab] /\ tab'[t] = x
           /\ \A u \in Tabs \ {t} : tab'[u] = tab[u]
  BY DEF SetTab

(* An answer fills in a request; its kind and its choice stay.             *)
LEMMA AnswerIs ==
    ASSUME tab \in [Tabs -> GoodTab], NEW t \in Tabs, NEW c \in Slots,
           NEW reply \in Replies, NEW token \in Tokens \cup {NoToken},
           NEW keys \in SUBSET Tenants, Answer(t, c, reply, token, keys),
           reply = "ok" => token \in Tokens
    PROVE  LET q == Told(tab[t].calls[c], reply, token, keys) IN
           /\ SetTab(t, Put(tab[t], c, q))
           /\ q \in Call /\ GoodCall(q)
<1> DEFINE p == tab[t]
           q == Told(p.calls[c], reply, token, keys)
<1>1. p \in GoodTab /\ p \in Tab /\ p.calls \in [Slots -> Call] /\ p.calls[c] \in Call
  BY DEF GoodTab, Tab
<1>2. q \in Call
  BY <1>1 DEF Told, Call
<1>3. GoodCall(q)
  BY <1>1 DEF Told, GoodCall, GoodTab
<1>4. SetTab(t, Put(p, c, q))
  BY DEF SetTab, Put, Answer, Told
<1> QED
  BY <1>2, <1>3, <1>4

-----------------------------------------------------------------------------
(* Types, for any number of tabs.                                          *)

(* What the calls of a tab look like.                                      *)
LEMMA CallsIn ==
    ASSUME TypeInv, NEW t \in Tabs, NEW c \in Slots
    PROVE  /\ tab[t] \in GoodTab /\ tab[t] \in Tab
           /\ tab[t].calls[c] \in Call /\ GoodCall(tab[t].calls[c])
           /\ tab[t].calls[c].token \in Tokens \cup {NoToken}
           /\ tab[t].calls[c].keys \in SUBSET Tenants
  BY DEF TypeInv, GoodTab, Tab, Call

(* The server's answers keep the types.                                    *)
LEMMA TypeServe ==
    ASSUME TypeInv, NEW t \in Tabs, NEW c \in Slots, Serve(t, c)
    PROVE  TypeInv'
<1> DEFINE q == tab[t].calls[c]
<1>1. ASSUME NEW reply \in Replies, NEW token \in Tokens \cup {NoToken},
             NEW keys \in SUBSET Tenants, Answer(t, c, reply, token, keys),
             reply = "ok" => token \in Tokens
      PROVE  tab' \in [Tabs -> GoodTab]
  <2>1. LET a == Told(q, reply, token, keys) IN
        SetTab(t, Put(tab[t], c, a)) /\ a \in Call /\ GoodCall(a)
    BY <1>1, AnswerIs DEF TypeInv
  <2> QED
    BY <2>1, CallsIn, PutGood, SetTabIs DEF TypeInv
<1>2. /\ Verdict(q) \in Replies
      /\ Verdict(q) = "ok" => q.token \in Tokens
      /\ "ok" \in Replies /\ "401" \in Replies /\ "failed" \in Replies
      /\ "401" # "ok" /\ "failed" # "ok"
  BY DEF Verdict, Replies, TypeInv
<1>3. q.token \in Tokens \cup {NoToken}
  BY CallsIn
<1>4. CASE ServeLogin(t, c)
  <2>1. ASSUME NEW u \in Users, NEW n \in Tokens, owner' = [owner EXCEPT ![n] = u],
               live' = live \cup {n}, Answer(t, c, "ok", n, {})
        PROVE  TypeInv'
    <3>1. tab' \in [Tabs -> GoodTab]
      BY <1>1, <1>2, <2>1
    <3> QED
      BY <1>4, <2>1, <3>1 DEF TypeInv, ServeLogin
  <2>2. ASSUME Answer(t, c, "401", q.token, {}), UNCHANGED <<owner, live>>
        PROVE  TypeInv'
    <3>1. tab' \in [Tabs -> GoodTab]
      BY <1>1, <1>2, <1>3, <2>2
    <3> QED
      BY <1>4, <2>2, <3>1 DEF TypeInv, ServeLogin
  <2> QED
    BY <1>4, <2>1, <2>2 DEF ServeLogin
<1>5. CASE ServeLogout(t, c)
  <2>1. tab' \in [Tabs -> GoodTab]
    BY <1>1, <1>2, <1>3, <1>5 DEF ServeLogout
  <2>2. live' \in SUBSET Tokens
    BY <1>5 DEF ServeLogout, TypeInv
  <2> QED
    BY <1>5, <2>1, <2>2 DEF TypeInv, ServeLogout
<1>6. CASE ServeQuery(t, c)
  <2> DEFINE keys == IF Verdict(q) # "ok" \/ q.kind = "page" THEN {}
                     ELSE IF q.kind = "registry" THEN portal[Registry]
                     ELSE IF owner[q.token] \in Admins THEN portal[owner[q.token]] ELSE {}
  <2>1. q.kind = "registry" => Registry \in Subjects
    BY CallsIn DEF GoodCall
  <2>2. \A u \in Admins : u \in Subjects
    BY DEF Subjects
  <2>3. keys \in SUBSET Tenants
    BY <2>1, <2>2 DEF TypeInv
  <2>4. Answer(t, c, Verdict(q), q.token, keys)
    BY <1>6 DEF ServeQuery
  <2>5. tab' \in [Tabs -> GoodTab]
    <3> HIDE DEF keys
    <3> QED
      BY <1>1, <1>2, <1>3, <2>3, <2>4
  <2> QED
    BY <1>6, <2>5 DEF TypeInv, ServeQuery
<1>7. CASE ServeFails(t, c)
  <2>1. tab' \in [Tabs -> GoodTab]
    BY <1>1, <1>2, <1>3, <1>7 DEF ServeFails
  <2> QED
    BY <1>7, <2>1 DEF TypeInv, ServeFails
<1> QED
  BY <1>4, <1>5, <1>6, <1>7 DEF Serve

(* Pages that a tab's step may leave behind.                               *)
LEMMA TabSteps ==
    ASSUME TypeInv, NEW t \in Tabs, NEW c \in Slots
    PROVE  /\ \A st \in Store : Entered(tab[t], st) \in GoodTab
           /\ Close(tab[t], c) \in GoodTab
           /\ \A st \in Store : Entered(Close(tab[t], c), st) \in GoodTab
           /\ \A keys \in SUBSET Tenants :
                 [Close(tab[t], c) EXCEPT !.offered = keys] \in GoodTab
           /\ \A view \in Choices : [Close(tab[t], c) EXCEPT !.view = view] \in GoodTab
           /\ \A st \in Store, kind \in Kinds \ {"registry"} :
                 Sent(tab[t], c, kind, st) \in GoodTab
           /\ Departing(tab[t]) \in GoodTab /\ Departing(Close(tab[t], c)) \in GoodTab
           /\ \A st \in Store : Entered(Departing(Close(tab[t], c)), st) \in GoodTab
<1>1. tab[t] \in GoodTab
  BY CallsIn
<1>2. Close(tab[t], c) \in GoodTab
  BY <1>1, CloseIs, PutGood
<1>3. \A keys \in SUBSET Tenants : [Close(tab[t], c) EXCEPT !.offered = keys] \in GoodTab
  BY <1>2 DEF GoodTab, Tab
<1>4. \A view \in Choices : [Close(tab[t], c) EXCEPT !.view = view] \in GoodTab
  BY <1>2 DEF GoodTab, Tab
<1>5. \A st \in Store, kind \in Kinds \ {"registry"} : Sent(tab[t], c, kind, st) \in GoodTab
  BY <1>1, SentIs, PutGood
<1>6. Departing(tab[t]) \in GoodTab /\ Departing(Close(tab[t], c)) \in GoodTab
  BY <1>1, <1>2, DepartingIs
<1> QED
  BY <1>1, <1>2, <1>3, <1>4, <1>5, <1>6, EnteredIs

(* Stored sessions and choices.                                            *)
LEMMA StoreTypes ==
    ASSUME TypeInv
    PROVE  /\ SignedOut \in Store /\ NoKey \in Choices
           /\ store \in Store /\ store.choice \in Choices
           /\ \A n \in Tokens : [SignedOut EXCEPT !.token = n, !.user = owner[n]] \in Store
           /\ [store EXCEPT !.choice = NoKey, !.choiceFor = NoActor] \in Store
           /\ \A keys \in SUBSET Tenants, u \in Users \cup {NoActor} :
                 Ensured(store, keys, u) \subseteq Store
           /\ \A p \in Tab, k \in Choices : Chosen(p, k) \in Store
<1>1. store \in Store /\ owner \in [Tokens -> Users \cup {NoActor}]
  BY DEF TypeInv
<1>2. SignedOut \in Store /\ NoKey \in Choices /\ store.choice \in Choices
  BY <1>1 DEF SignedOut, Store, Choices
<1>3. \A n \in Tokens : [SignedOut EXCEPT !.token = n, !.user = owner[n]] \in Store
  BY <1>1, <1>2 DEF SignedOut, Store
<1>4. [store EXCEPT !.choice = NoKey, !.choiceFor = NoActor] \in Store
  BY <1>1, <1>2 DEF Store
<1>5. \A keys \in SUBSET Tenants, u \in Users \cup {NoActor} :
         Ensured(store, keys, u) \subseteq Store
  <2> SUFFICES ASSUME NEW keys \in SUBSET Tenants, NEW u \in Users \cup {NoActor},
                      NEW x \in Ensured(store, keys, u)
               PROVE  x \in Store
    OBVIOUS
  <2>1. [store EXCEPT !.choiceFor = u] \in Store
    BY <1>1 DEF Store
  <2>2. \A k \in Choices : [store EXCEPT !.choice = k, !.choiceFor = u] \in Store
    BY <1>1 DEF Store
  <2> QED
    BY <2>1, <2>2 DEF Ensured, Choices
<1>6. \A p \in Tab, k \in Choices : Chosen(p, k) \in Store
  BY <1>1, <1>2 DEF Chosen, Store, Tab
<1> QED
  BY <1>1, <1>2, <1>3, <1>4, <1>5, <1>6

(* What the tab does with an answer keeps the types.                       *)
LEMMA TypeContinue ==
    ASSUME TypeInv, NEW t \in Tabs, NEW c \in Slots, Continue(t, c)
    PROVE  TypeInv'
<1> DEFINE q == tab[t].calls[c]
<1>1. ASSUME NEW x \in GoodTab, SetTab(t, x), store' \in Store,
             UNCHANGED <<owner, live, portal, gate>>
      PROVE  TypeInv'
  BY <1>1, SetTabIs DEF TypeInv
<1>2. store \in Store
  BY DEF TypeInv
<1>3. q \in Call /\ GoodCall(q) /\ q.keys \in SUBSET Tenants
  BY CallsIn
<1>4. CASE LoginSucceeds(t, c)
  <2>1. q.token \in Tokens
    BY <1>3, <1>4 DEF LoginSucceeds, Replied, GoodCall
  <2>2. store' \in Store
    BY <1>4, <2>1, StoreTypes DEF LoginSucceeds
  <2>3. Bootstrapped(Close(tab[t], c), c, store', "login") \in GoodTab
    BY <2>2, TabSteps, BootstrappedIs DEF Pages
  <2> QED
    BY <1>1, <1>4, <2>2, <2>3 DEF LoginSucceeds
<1>5. CASE LoginFails(t, c)
  BY <1>1, <1>2, <1>5, TabSteps DEF LoginFails
<1>6. CASE BootSucceeds(t, c)
  <2> DEFINE x == [Close(tab[t], c) EXCEPT !.offered = q.keys]
  <2>1. q.token \in Tokens
    BY <1>3, <1>6 DEF BootSucceeds, Replied, GoodCall
  <2>2. store' \in Store
    BY <1>3, <1>6, <2>1, StoreTypes DEF BootSucceeds, TypeInv
  <2>3. x \in GoodTab
    BY <1>3, TabSteps
  <2>4. Entered(x, store') \in GoodTab
    <3> HIDE DEF x
    <3> QED
      BY <2>2, <2>3, EnteredIs
  <2> QED
    BY <1>1, <1>6, <2>2, <2>4 DEF BootSucceeds
<1>7. CASE BootRetries(t, c)
  <2>1. store' \in Store
    BY <1>7, StoreTypes DEF BootRetries
  <2>2. Sent(tab[t], c, "retry", store') \in GoodTab
    BY <2>1, TabSteps DEF Kinds
  <2> QED
    BY <1>1, <1>7, <2>1, <2>2 DEF BootRetries
<1>8. CASE BootDegrades(t, c)
  BY <1>1, <1>2, <1>8, TabSteps DEF BootDegrades
<1>9. CASE PageAnswered(t, c)
  <2>1. PICK view \in {tab[t].view} \cup
                     IF tab[t].page = "app" THEN {store.choice} ELSE {} :
               SetTab(t, [Close(tab[t], c) EXCEPT !.view = view])
    BY <1>9 DEF PageAnswered
  <2>2. view \in Choices
    BY <2>1, CallsIn, StoreTypes DEF Tab
  <2> QED
    BY <1>1, <1>2, <1>9, <2>1, <2>2, TabSteps DEF PageAnswered
<1>10. CASE RegistryAnswered(t, c)
  <2>1. CASE tab[t].page = "app" /\ q.reply = "ok"
    <3>1. store' \in Store
      BY <1>10, <2>1, StoreTypes DEF RegistryAnswered
    <3>2. [Close(tab[t], c) EXCEPT !.offered = q.keys] \in GoodTab
      BY <1>3, TabSteps
    <3> QED
      BY <1>1, <1>10, <2>1, <3>1, <3>2 DEF RegistryAnswered
  <2>2. CASE ~(tab[t].page = "app" /\ q.reply = "ok")
    BY <1>1, <1>2, <1>10, <2>2, TabSteps DEF RegistryAnswered
  <2> QED
    BY <2>1, <2>2
<1>11. CASE LogoutAnswered(t, c)
  BY <1>1, <1>11, TabSteps, StoreTypes DEF LogoutAnswered
<1>12. CASE Unauthorized(t, c)
  BY <1>1, <1>12, StoreTypes, TabSteps DEF Unauthorized
<1> QED
  BY <1>4, <1>5, <1>6, <1>7, <1>8, <1>9, <1>10, <1>11, <1>12 DEF Continue

(* So does what the person at the browser does.                            *)
LEMMA TypePerson ==
    ASSUME TypeInv, NEW t \in Tabs,
           \/ \E c \in Slots : Mount(t, c) \/ Person(t, c)
           \/ Navigate(t) \/ SwitchTenant(t) \/ Unload(t) \/ Reload(t) \/ OpenLink(t)
    PROVE  TypeInv'
<1>1. ASSUME NEW x \in GoodTab, SetTab(t, x), store' \in Store,
             UNCHANGED <<owner, live, portal, gate>>
      PROVE  TypeInv'
  BY <1>1, SetTabIs DEF TypeInv
<1>2. store \in Store /\ tab[t] \in GoodTab /\ tab[t] \in Tab
  BY DEF TypeInv, GoodTab
<1>3. ASSUME NEW c \in Slots, Mount(t, c) PROVE TypeInv'
  <2> DEFINE p == Rendered(tab[t], store)
             page == IF p.page = "opening" THEN "linkboot" ELSE "boot"
  <2>1. p \in GoodTab
    BY <1>2 DEF Rendered, GoodTab, Tab, Pages
  <2>2. page \in Pages
    BY DEF Pages
  <2>3. SetTab(t, Bootstrapped(p, c, store, page))
    BY <1>3 DEF Mount
  <2>4. Bootstrapped(p, c, store, page) \in GoodTab
    <3> HIDE DEF p, page
    <3> QED
      BY <1>2, <2>1, <2>2, BootstrappedIs
  <2> QED
    BY <1>1, <1>2, <1>3, <2>3, <2>4 DEF Mount
<1>4. ASSUME NEW c \in Slots, Person(t, c) PROVE TypeInv'
  <2>1. CASE SubmitLogin(t, c)
    BY <1>1, <1>2, <2>1, TabSteps DEF SubmitLogin, Kinds
  <2>2. CASE PageCalls(t, c)
    BY <1>1, <1>2, <2>2, TabSteps DEF PageCalls, Kinds
  <2>3. CASE RegistryCalls(t, c)
    <3> DEFINE x == Sent(tab[t], c, "registry", store)
    <3>1. Registry \in Subjects
      BY <2>3 DEF RegistryCalls, Subjects
    <3>2. x \in GoodTab
      BY <1>2, <3>1, SentIs, PutGood DEF Kinds
    <3>3. [x EXCEPT !.asked = TRUE] \in GoodTab
      <4> HIDE DEF x
      <4> QED
        BY <3>2 DEF GoodTab, Tab
    <3> QED
      BY <1>1, <1>2, <2>3, <3>3 DEF RegistryCalls
  <2>4. CASE Logout(t, c)
    BY <1>1, <1>2, <2>4, TabSteps DEF Logout, Kinds
  <2> QED
    BY <1>4, <2>1, <2>2, <2>3, <2>4 DEF Person
<1>5. CASE Navigate(t)
  BY <1>1, <1>2, <1>5, EnteredIs, UnmountedIs DEF Navigate
<1>6. CASE SwitchTenant(t)
  <2>1. PICK k \in Selectable(tab[t]) : store' = Chosen(tab[t], k)
    BY <1>6 DEF SwitchTenant
  <2>2. k \in Choices
    BY <1>2 DEF Selectable, Choices, Tab
  <2>3. store' \in Store
    BY <1>2, <2>1, <2>2, StoreTypes
  <2> QED
    BY <1>1, <1>2, <1>6, <2>3, DepartingIs DEF SwitchTenant
<1>7. CASE Unload(t)
  BY <1>1, <1>2, <1>7, FreshTabs DEF Unload
<1>8. CASE Reload(t)
  BY <1>1, <1>2, <1>8, FreshTabs DEF Reload
<1>9. CASE OpenLink(t)
  BY <1>1, <1>2, <1>9, FreshTabs DEF OpenLink
<1> QED
  BY <1>3, <1>4, <1>5, <1>6, <1>7, <1>8, <1>9

(* Types are inductive: no step of a tab, of the server or of the portal   *)
(* breaks them.                                                            *)
LEMMA TypeInvariant == Spec => []TypeInv
<1>1. Init => TypeInv
  BY FreshTabs DEF Init, TypeInv, SignedOut, Store, Choices
<1>2. TypeInv /\ [Next]_vars => TypeInv'
  <2> SUFFICES ASSUME TypeInv, [Next]_vars PROVE TypeInv'
    OBVIOUS
  <2>1. ASSUME NEW t \in Tabs, NEW c \in Slots, Serve(t, c) \/ Continue(t, c)
        PROVE  TypeInv'
    BY <2>1, TypeServe, TypeContinue
  <2>2. ASSUME NEW n \in Tokens, SessionEnds(n) PROVE TypeInv'
    BY <2>2 DEF SessionEnds, TypeInv
  <2>3. ASSUME NEW s \in Subjects, NEW k \in Tenants, PortalChanges(s, k)
        PROVE  TypeInv'
    BY <2>3 DEF PortalChanges, TypeInv
  <2>4. ASSUME NEW s \in Subjects, GateCatchesUp(s) PROVE TypeInv'
    BY <2>4 DEF GateCatchesUp, TypeInv
  <2>5. CASE UNCHANGED vars
    BY <2>5 DEF vars, TypeInv
  <2> QED
    BY <2>1, <2>2, <2>3, <2>4, <2>5, TypePerson DEF Next
<1> QED
  BY <1>1, <1>2, PTL DEF Spec

(* Whatever the tabs do and the server answers, in any order, storage,     *)
(* sessions and tabs keep their types.                                     *)
THEOREM TypeCorrect == Spec => []TypeOK
<1>1. TypeInv => TypeOK
  BY DEF TypeInv, TypeOK, GoodTab
<1> QED
  BY <1>1, TypeInvariant, PTL

-----------------------------------------------------------------------------
(* A browser with one tab.                                                 *)
OneTab == \A t, u \in Tabs : t = u

SessionKinds == {"login", "whoami", "retry"}
PageKinds    == {"page", "registry", "logout"}

(* A request fits the page that sent it and the session as it is stored.   *)
(* The calls of a page that is being left may outlive both.                *)
Fits(q, p, st) ==
    /\ q.kind = "login" => p.page = "login"
    /\ q.kind \in {"whoami", "retry"} =>
          /\ p.page \in {"login", "boot", "linkboot"}
          /\ q.token # NoToken
          /\ st.token # NoToken => q.token = st.token
    /\ q.kind = "whoami" =>
          st.choice = IF st.token = NoToken THEN NoKey ELSE q.choice
    /\ q.kind = "retry" => q.choice = NoKey
    /\ q.kind = "registry" => p.page = "app" /\ p.user \in Staff
    /\ q.kind \in PageKinds /\ ~p.leaving => p.page = "app" /\ q.token = st.token

(* Login and bootstrap are one conversation.                               *)
Single(p) ==
    \A c, d \in Slots :
        p.calls[c].kind \in SessionKinds /\ p.calls[d].kind \in SessionKinds => c = d

(* What a page shows is what is stored.                                    *)
Shown(p, st) ==
    /\ p.page \notin {"app", "link"} => p.offered = {}
    /\ p.page = "app" /\ ~p.leaving =>
          st.token # NoToken /\ (p.user \in Admins => p.view = st.choice)
    /\ p.page = "app" /\ st.token # NoToken =>
          (p.user \in Admins \cup Staff /\ p.offered # {} =>
              st.choice \in p.offered \/ (p.user \in Staff /\ st.choice = NoKey))

Proper(p, st) ==
    (\A c \in Slots : Fits(p.calls[c], p, st)) /\ Single(p) /\ Shown(p, st)

OneTabInv == TypeInv /\ \A t \in Tabs : Proper(tab[t], store)

(* Nothing is under way that a new session would have to wait for; only a  *)
(* page that is being left may have calls of its pages still open.         *)
Silent(p) ==
    \A c \in Slots : /\ p.calls[c].kind \notin SessionKinds \cup {"registry"}
                     /\ p.calls[c].kind \in PageKinds => p.leaving

(* A page without such requests is proper if it shows what is stored.      *)
LEMMA SilentProper ==
    ASSUME NEW p, NEW st, Silent(p), Shown(p, st)
    PROVE  Proper(p, st)
  BY DEF Silent, Proper, Fits, Single, SessionKinds, PageKinds

(* While a login or a bootstrap is under way nothing else is.              *)
LEMMA ClosedIsSilent ==
    ASSUME NEW p \in Tab, NEW st, Proper(p, st), NEW c \in Slots,
           p.calls[c].kind \in SessionKinds
    PROVE  /\ Silent(Close(p, c))
           /\ \A d \in Slots \ {c} : /\ p.calls[d].kind \notin SessionKinds \cup {"registry"}
                                     /\ p.calls[d].kind \in PageKinds => p.leaving
<1>1. p.page # "app"
  BY DEF Proper, Fits, SessionKinds
<1>2. \A d \in Slots \ {c} : /\ p.calls[d].kind \notin SessionKinds \cup {"registry"}
                             /\ p.calls[d].kind \in PageKinds => p.leaving
  <2> TAKE d \in Slots \ {c}
  <2>1. p.calls[d].kind # "registry" /\ (p.calls[d].kind \in PageKinds => p.leaving)
    BY <1>1 DEF Proper, Fits
  <2>2. p.calls[d].kind \notin SessionKinds
    BY DEF Proper, Single
  <2> QED
    BY <2>1, <2>2
<1>3. Close(p, c).leaving = p.leaving /\ NoCall.kind = "none"
  BY CloseIs, PutIs DEF NoCall
<1> QED
  BY <1>2, <1>3, CloseIs, PutIs DEF Silent, SessionKinds, PageKinds

(* A new or an answered request that fits leaves the page proper.          *)
LEMMA PutProper ==
    ASSUME NEW p \in Tab, NEW st, Proper(p, st), NEW c \in Slots, NEW q \in Call,
           Fits(q, p, st),
           q.kind \in SessionKinds =>
              \A d \in Slots \ {c} : p.calls[d].kind \notin SessionKinds
    PROVE  Proper(Put(p, c, q), st)
<1> DEFINE x == Put(p, c, q)
<1>1. /\ x.page = p.page /\ x.user = p.user /\ x.offered = p.offered /\ x.view = p.view
      /\ x.leaving = p.leaving
      /\ x.calls[c] = q /\ \A d \in Slots \ {c} : x.calls[d] = p.calls[d]
  BY PutIs
<1> HIDE DEF x
<1>2. \A d \in Slots : Fits(x.calls[d], x, st)
  BY <1>1 DEF Proper, Fits
<1>3. Single(x)
  BY <1>1 DEF Proper, Single
<1>4. Shown(x, st)
  BY <1>1 DEF Proper, Shown
<1> QED
  BY <1>2, <1>3, <1>4 DEF Proper, x

(* Ending a request leaves the page proper.                                *)
LEMMA CloseProper ==
    ASSUME NEW p \in Tab, NEW st, Proper(p, st), NEW c \in Slots
    PROVE  Proper(Close(p, c), st)
  BY CloseIs, PutProper DEF NoCall, Fits, SessionKinds, PageKinds

(* A bootstrap that ends leaves a proper page, if the choice was settled.  *)
LEMMA EnteredProper ==
    ASSUME NEW p \in GoodTab, NEW st \in Store, Silent(p),
           p.user \in Admins \cup Staff /\ p.offered # {} =>
              \/ st.token = NoToken
              \/ st.choice \in p.offered \/ (p.user \in Staff /\ st.choice = NoKey)
    PROVE  Proper(Entered(p, st), st)
<1>1. Silent(Entered(p, st))
  BY EnteredIs DEF Silent
<1>2. Shown(Entered(p, st), st)
  BY DEF Shown, Entered, GoodTab, Tab
<1> QED
  BY <1>1, <1>2, SilentProper

(* So does one that begins.                                                *)
LEMMA BootstrappedProper ==
    ASSUME NEW p \in GoodTab, NEW c \in Slots, NEW st \in Store, Silent(p),
           NEW page \in {"login", "boot", "linkboot"}
    PROVE  Proper(Bootstrapped(p, c, st, page), st)
<1> DEFINE q == [p EXCEPT !.user = st.user, !.offered = {}, !.asked = FALSE]
<1>1. q \in GoodTab /\ q.offered = {} /\ q.calls = p.calls /\ q.leaving = p.leaving
  BY DEF GoodTab, Tab, Store
<1>2. CASE st.token # NoToken /\ st.user \in Admins
  <2> DEFINE r == [q EXCEPT !.page = page]
  <2>1. r \in Tab /\ r.page = page /\ r.offered = {} /\ Silent(r)
    BY <1>1 DEF GoodTab, Tab, Pages, Silent
  <2>2. Shown(r, st)
    BY <2>1 DEF Shown
  <2>3. Proper(r, st)
    BY <2>1, <2>2, SilentProper
  <2>4. Fits(Asking("whoami", st), r, st) /\ Asking("whoami", st) \in Call
    BY <1>2, <2>1, SentIs DEF Fits, Asking, Kinds, PageKinds
  <2>5. Proper(Sent(r, c, "whoami", st), st)
    <3>1. \A d \in Slots : r.calls[d].kind \notin SessionKinds
      BY <2>1 DEF Silent, SessionKinds
    <3>2. Sent(r, c, "whoami", st) = Put(r, c, Asking("whoami", st))
      BY SentIs DEF Kinds
    <3> HIDE DEF r
    <3> QED
      BY <2>1, <2>3, <2>4, <3>1, <3>2, PutProper
  <2> QED
    BY <1>2, <2>5 DEF Bootstrapped
<1>3. CASE ~(st.token # NoToken /\ st.user \in Admins)
  <2>1. Proper(Entered(q, st), st)
    <3>1. Silent(q)
      BY <1>1 DEF Silent
    <3> HIDE DEF q
    <3> QED
      BY <1>1, <3>1, EnteredProper
  <2> QED
    BY <1>3, <2>1 DEF Bootstrapped
<1> QED
  BY <1>2, <1>3

(* With one tab, its page is all there is to look at.                      *)
LEMMA OnlyTab ==
    ASSUME OneTab, TypeInv, NEW t \in Tabs, NEW x, SetTab(t, x), Proper(x, store')
    PROVE  (\A u \in Tabs : Proper(tab[u], store))'
<1>1. tab'[t] = x
  BY DEF SetTab, TypeInv
<1>2. \A u \in Tabs : u = t
  BY DEF OneTab
<1> QED
  BY <1>1, <1>2

(* The server's answers leave the tab proper.                              *)
LEMMA ProperServe ==
    ASSUME OneTab, OneTabInv, NEW t \in Tabs, NEW c \in Slots, Serve(t, c)
    PROVE  (\A u \in Tabs : Proper(tab[u], store))'
<1> DEFINE p == tab[t]
           q == p.calls[c]
<1>1. /\ TypeInv /\ p \in Tab /\ q \in Call /\ Proper(p, store)
      /\ q.token \in Tokens \cup {NoToken}
  BY CallsIn DEF OneTabInv
<1>2. store' = store
  BY DEF Serve, ServeLogin, ServeLogout, ServeQuery, ServeFails
<1>3. ASSUME NEW reply \in Replies, NEW token \in Tokens \cup {NoToken},
             NEW keys \in SUBSET Tenants, Answer(t, c, reply, token, keys),
             q.kind = "login" \/ token = q.token
      PROVE  (\A u \in Tabs : Proper(tab[u], store))'
  <2> DEFINE a == Told(q, reply, token, keys)
  <2>1. a \in Call /\ a.kind = q.kind /\ a.choice = q.choice /\ a.token = token
    BY <1>1 DEF Told, Call
  <2>2. SetTab(t, Put(p, c, a))
    BY <1>3 DEF SetTab, Put, Answer, Told
  <2> HIDE DEF a
  <2>3. Fits(a, p, store)
    BY <1>1, <1>3, <2>1 DEF Proper, Fits, PageKinds
  <2>4. a.kind \in SessionKinds =>
           \A d \in Slots \ {c} : p.calls[d].kind \notin SessionKinds
    BY <1>1, <2>1 DEF Proper, Single
  <2>5. Proper(Put(p, c, a), store)
    BY <1>1, <2>1, <2>3, <2>4, PutProper
  <2> QED
    BY <1>1, <1>2, <2>2, <2>5, OnlyTab
<1>4. \E reply \in Replies, token \in Tokens \cup {NoToken}, keys \in SUBSET Tenants :
         Answer(t, c, reply, token, keys) /\ (q.kind = "login" \/ token = q.token)
  <2>1. Verdict(q) \in Replies /\ {"ok", "401", "failed"} \subseteq Replies
    BY DEF Verdict, Replies
  <2>2. CASE ServeLogin(t, c)
    BY <1>1, <2>1, <2>2 DEF ServeLogin, Open
  <2>3. CASE ServeLogout(t, c)
    BY <1>1, <2>1, <2>3 DEF ServeLogout
  <2>4. CASE ServeQuery(t, c)
    <3> DEFINE keys == IF Verdict(q) # "ok" \/ q.kind = "page" THEN {}
                       ELSE IF q.kind = "registry" THEN portal[Registry]
                       ELSE IF owner[q.token] \in Admins THEN portal[owner[q.token]] ELSE {}
    <3>1. q.kind = "registry" => Registry \in Subjects
      BY <1>1, CallsIn DEF GoodCall
    <3>2. keys \in SUBSET Tenants
      BY <1>1, <3>1 DEF TypeInv, Subjects
    <3>3. Answer(t, c, Verdict(q), q.token, keys)
      BY <2>4 DEF ServeQuery
    <3> HIDE DEF keys
    <3> QED
      BY <1>1, <2>1, <3>2, <3>3
  <2>5. CASE ServeFails(t, c)
    BY <1>1, <2>1, <2>5 DEF ServeFails
  <2> QED
    BY <2>2, <2>3, <2>4, <2>5 DEF Serve
<1> QED
  BY <1>3, <1>4

(* When the stored session is cleared, a page that is left for it, and the *)
(* login page, go on as they are.                                          *)
LEMMA SignedOutProper ==
    ASSUME NEW p \in GoodTab, NEW st, Proper(p, st)
    PROVE  /\ Proper(Departing(p), SignedOut)
           /\ p.page = "login" => Proper(p, SignedOut)
<1>1. SignedOut.token = NoToken /\ SignedOut.choice = NoKey
  BY DEF SignedOut
<1>2. Proper(Departing(p), SignedOut)
  <2> DEFINE x == Departing(p)
  <2>1. /\ x.leaving /\ x.page = p.page /\ x.user = p.user /\ x.offered = p.offered
        /\ x.calls = p.calls
    BY DepartingIs
  <2> HIDE DEF x
  <2>2. \A d \in Slots : Fits(x.calls[d], x, SignedOut)
    BY <1>1, <2>1 DEF Proper, Fits
  <2>3. Single(x)
    BY <2>1 DEF Proper, Single
  <2>4. Shown(x, SignedOut)
    BY <1>1, <2>1 DEF Proper, Shown
  <2> QED
    BY <2>2, <2>3, <2>4 DEF Proper, x
<1>3. ASSUME p.page = "login" PROVE Proper(p, SignedOut)
  <2>1. \A d \in Slots : Fits(p.calls[d], p, SignedOut)
    BY <1>1, <1>3 DEF Proper, Fits
  <2>2. Shown(p, SignedOut)
    BY <1>1, <1>3 DEF Proper, Shown
  <2> QED
    BY <2>1, <2>2 DEF Proper
<1> QED
  BY <1>2, <1>3

(* So does what the tab does with an answer: here it writes the store.     *)
LEMMA ProperContinue ==
    ASSUME OneTab, OneTabInv, NEW t \in Tabs, NEW c \in Slots, Continue(t, c)
    PROVE  (\A u \in Tabs : Proper(tab[u], store))'
<1> DEFINE p == tab[t]
           q == p.calls[c]
           x0 == Close(p, c)
<1>1. /\ TypeInv /\ TypeInv' /\ p \in GoodTab /\ p \in Tab /\ q \in Call
      /\ Proper(p, store) /\ store \in Store /\ store' \in Store
      /\ q.keys \in SUBSET Tenants
  BY CallsIn, TypeContinue DEF OneTabInv, TypeInv
<1>2. ASSUME NEW x, SetTab(t, x), Proper(x, store')
      PROVE  (\A u \in Tabs : Proper(tab[u], store))'
  BY <1>1, <1>2, OnlyTab
<1>3. /\ x0 \in GoodTab /\ Proper(x0, store) /\ x0.page = p.page /\ x0.user = p.user
      /\ x0.offered = p.offered /\ x0.view = p.view /\ x0.leaving = p.leaving
      /\ x0.calls[c] = NoCall /\ \A d \in Slots \ {c} : x0.calls[d] = p.calls[d]
  BY <1>1, TabSteps, CloseProper, CloseIs, PutIs
<1>4. q.kind \in SessionKinds =>
         /\ Silent(x0)
         /\ \A d \in Slots \ {c} : /\ p.calls[d].kind \notin SessionKinds \cup {"registry"}
                                   /\ p.calls[d].kind \in PageKinds => p.leaving
  BY <1>1, ClosedIsSilent
<1> HIDE DEF x0
<1>5. x0 \in Tab
  BY <1>3 DEF GoodTab
<1>6. CASE LoginSucceeds(t, c)
  <2>1. Silent(x0)
    BY <1>4, <1>6 DEF LoginSucceeds, Replied, SessionKinds
  <2>2. Proper(Bootstrapped(x0, c, store', "login"), store')
    BY <1>1, <1>3, <2>1, BootstrappedProper
  <2> QED
    BY <1>2, <1>6, <2>2 DEF LoginSucceeds, x0
<1>7. CASE LoginFails(t, c)
  BY <1>2, <1>3, <1>7 DEF LoginFails, x0
<1>8. CASE BootSucceeds(t, c)
  <2> DEFINE x == [x0 EXCEPT !.offered = q.keys]
  <2>1. Silent(x0)
    BY <1>4, <1>8 DEF BootSucceeds, Replied, SessionKinds
  <2>2. x \in GoodTab /\ Silent(x) /\ x.offered = q.keys
    BY <1>1, <1>3, <2>1 DEF GoodTab, Tab, Silent
  <2>3. q.keys # {} => store'.choice \in q.keys
    <3>1. store' \in Ensured(store, q.keys, owner[q.token])
      BY <1>8 DEF BootSucceeds
    <3> QED
      BY <1>1, <3>1 DEF Ensured, Store
  <2>4. Proper(Entered(x, store'), store')
    <3> HIDE DEF x
    <3> QED
      BY <1>1, <2>2, <2>3, EnteredProper
  <2> QED
    BY <1>2, <1>8, <2>4 DEF BootSucceeds, x0
<1>9. CASE BootRetries(t, c)
  <2>1. q.kind = "whoami" /\ store' = [store EXCEPT !.choice = NoKey, !.choiceFor = NoActor]
    BY <1>9 DEF BootRetries, Replied
  <2>2. /\ store'.token = store.token /\ store'.choice = NoKey /\ store.token # NoToken
        /\ p.page \in {"login", "boot", "linkboot"}
        /\ p.offered = {}
    BY <1>1, <1>9, <2>1 DEF BootRetries, Store, Proper, Fits, Shown
  <2>3. Proper(x0, store')
    <3>1. Silent(x0)
      BY <1>4, <2>1 DEF SessionKinds
    <3>2. Shown(x0, store')
      BY <1>3, <2>2 DEF Shown
    <3> QED
      BY <3>1, <3>2, SilentProper
  <2> DEFINE a == Asking("retry", store')
  <2>4. a \in Call /\ a.kind = "retry" /\ a.token = store'.token /\ a.choice = store'.choice
    BY <1>1, SentIs DEF Asking, Kinds
  <2>5. Sent(p, c, "retry", store') = Put(p, c, a)
    BY <1>1, SentIs DEF Kinds
  <2> HIDE DEF a
  <2> DEFINE x == Put(p, c, a)
  <2>6. /\ x.page = p.page /\ x.offered = p.offered /\ x.calls[c] = a
        /\ x.leaving = p.leaving
        /\ \A d \in Slots \ {c} : /\ x.calls[d].kind \notin SessionKinds \cup {"registry"}
                                  /\ x.calls[d].kind \in PageKinds => x.leaving
    BY <1>1, <1>4, <2>1, <2>4, PutIs DEF SessionKinds
  <2> HIDE DEF x
  <2>7. Fits(a, x, store')
    BY <2>2, <2>4, <2>6 DEF Fits, PageKinds
  <2>8. \A d \in Slots : Fits(x.calls[d], x, store')
    BY <2>6, <2>7 DEF Fits, SessionKinds
  <2>9. Proper(x, store')
    BY <2>2, <2>6, <2>8 DEF Proper, Single, Shown, SessionKinds
  <2> QED
    BY <1>2, <1>9, <2>5, <2>9 DEF BootRetries, x
<1>10. CASE BootDegrades(t, c)
  <2>1. q.kind \in {"whoami", "retry"} /\ store' = store
    BY <1>10 DEF BootDegrades, Replied
  <2>2. Silent(x0) /\ x0.offered = {}
    BY <1>1, <1>3, <1>4, <2>1 DEF SessionKinds, Proper, Fits, Shown
  <2>3. Proper(Entered(x0, store), store)
    BY <1>1, <1>3, <2>2, EnteredProper
  <2> QED
    BY <1>2, <1>10, <2>1, <2>3 DEF BootDegrades, x0
<1>11. CASE PageAnswered(t, c)
  <2>1. PICK view \in {p.view} \cup IF p.page = "app" THEN {store.choice} ELSE {} :
               SetTab(t, [x0 EXCEPT !.view = view])
    BY <1>11 DEF PageAnswered, x0
  <2> DEFINE x == [x0 EXCEPT !.view = view]
  <2>2. /\ x.page = x0.page /\ x.user = x0.user /\ x.offered = x0.offered
        /\ x.calls = x0.calls /\ x.view = view /\ x.leaving = x0.leaving
        /\ view # p.view => p.page = "app" /\ view = store.choice
    BY <1>3, <2>1 DEF GoodTab, Tab
  <2> HIDE DEF x
  <2>3. Proper(x, store)
    BY <1>3, <2>1, <2>2 DEF Proper, Fits, Single, Shown
  <2> QED
    BY <1>2, <1>11, <2>1, <2>3 DEF PageAnswered, x
<1>12. CASE RegistryAnswered(t, c)
  <2>1. q.kind = "registry" /\ p.page = "app" /\ p.user \in Staff /\ p.user \notin Admins
    BY <1>1, <1>12, SessionsAssumption DEF RegistryAnswered, Replied, Proper, Fits, PageKinds
  <2>2. CASE q.reply = "ok"
    <3> DEFINE x == [x0 EXCEPT !.offered = q.keys]
    <3>1. /\ x.page = x0.page /\ x.user = x0.user /\ x.offered = q.keys
          /\ x.calls = x0.calls /\ x.leaving = x0.leaving
      BY <1>3 DEF GoodTab, Tab
    <3>2. /\ SetTab(t, x)
          /\ store' = IF store.choice \in q.keys THEN store
                      ELSE [store EXCEPT !.choice = NoKey, !.choiceFor = NoActor]
      BY <1>12, <2>1, <2>2 DEF RegistryAnswered, x0
    <3> HIDE DEF x
    <3>3. /\ store'.token = store.token
          /\ store'.choice \in q.keys \/ store'.choice = NoKey
      BY <1>1, <3>2 DEF Store
    <3>4. \A d \in Slots : x0.calls[d].kind \notin SessionKinds
      BY <1>3, <2>1 DEF Proper, Fits, SessionKinds
    <3>5. Proper(x, store')
      <4>1. \A d \in Slots : Fits(x.calls[d], x, store')
        BY <1>3, <3>1, <3>3, <3>4 DEF Proper, Fits, SessionKinds
      <4>2. Single(x)
        BY <3>1, <3>4 DEF Single
      <4>3. Shown(x, store')
        BY <1>3, <2>1, <3>1, <3>3 DEF Proper, Shown
      <4> QED
        BY <4>1, <4>2, <4>3 DEF Proper
    <3> QED
      BY <1>2, <3>2, <3>5
  <2>3. CASE q.reply # "ok"
    BY <1>2, <1>3, <1>12, <2>3 DEF RegistryAnswered, x0
  <2> QED
    BY <2>2, <2>3
<1>13. CASE LogoutAnswered(t, c)
  BY <1>2, <1>3, <1>5, <1>13, SignedOutProper DEF LogoutAnswered, x0
<1>14. CASE Unauthorized(t, c)
  <2> DEFINE y == IF p.page # "login" \/ q.kind = "logout" THEN Departing(x0) ELSE x0
  <2>1. /\ SetTab(t, IF q.kind \in {"whoami", "retry"} THEN Entered(y, SignedOut) ELSE y)
        /\ store' = SignedOut /\ SignedOut \in Store /\ SignedOut.token = NoToken
    BY <1>14, StoreTypes, <1>1 DEF Unauthorized, x0, SignedOut
  <2>2. y \in GoodTab /\ (Silent(x0) => Silent(y))
    BY <1>3, DepartingIs DEF Silent
  <2>3. Proper(y, SignedOut)
    BY <1>3, <1>5, SignedOutProper
  <2> HIDE DEF y
  <2>4. CASE q.kind \in {"whoami", "retry"}
    BY <1>2, <1>4, <2>1, <2>2, <2>4, EnteredProper DEF SessionKinds
  <2>5. CASE q.kind \notin {"whoami", "retry"}
    BY <1>2, <2>1, <2>3, <2>5
  <2> QED
    BY <2>4, <2>5
<1> QED
  BY <1>6, <1>7, <1>8, <1>9, <1>10, <1>11, <1>12, <1>13, <1>14 DEF Continue

(* And so does what the person at the browser does.                        *)
LEMMA ProperPerson ==
    ASSUME OneTab, OneTabInv, NEW t \in Tabs,
           \/ \E c \in Slots : Mount(t, c) \/ Person(t, c)
           \/ Navigate(t) \/ SwitchTenant(t) \/ Unload(t) \/ Reload(t) \/ OpenLink(t)
    PROVE  (\A u \in Tabs : Proper(tab[u], store))'
<1> DEFINE p == tab[t]
<1>1. /\ TypeInv /\ p \in GoodTab /\ p \in Tab /\ Proper(p, store) /\ store \in Store
  BY DEF OneTabInv, TypeInv, GoodTab
<1>2. ASSUME NEW x, SetTab(t, x), Proper(x, store')
      PROVE  (\A u \in Tabs : Proper(tab[u], store))'
  BY <1>1, <1>2, OnlyTab
<1>3. \A s : Proper(Loading, s) /\ Proper(Opening, s)
  <2>1. Silent(Loading) /\ Silent(Opening)
    BY FreshTabs DEF Silent, NoCall, SessionKinds, PageKinds
  <2>2. Loading.offered = {} /\ Opening.offered = {}
    BY DEF Loading, Opening
  <2>3. \A s : Shown(Loading, s) /\ Shown(Opening, s)
    BY <2>2, FreshTabs DEF Shown
  <2> QED
    BY <2>1, <2>3, SilentProper
<1>4. ASSUME NEW c \in Slots, Mount(t, c) PROVE (\A u \in Tabs : Proper(tab[u], store))'
  <2> DEFINE r == Rendered(p, store)
             page == IF r.page = "opening" THEN "linkboot" ELSE "boot"
  <2>1. Silent(p)
    BY <1>1, <1>4 DEF Mount, Proper, Fits, Silent, SessionKinds
  <2>2. r \in GoodTab /\ Silent(r)
    BY <1>1, <2>1 DEF Rendered, GoodTab, Tab, Pages, Silent
  <2>3. SetTab(t, Bootstrapped(r, c, store, page)) /\ store' = store
    BY <1>4 DEF Mount
  <2>4. page \in {"login", "boot", "linkboot"}
    OBVIOUS
  <2> HIDE DEF r, page
  <2> QED
    BY <1>1, <1>2, <2>2, <2>3, <2>4, BootstrappedProper
<1>5. ASSUME NEW c \in Slots, NEW kind \in Kinds, store' = store,
             Fits(Asking(kind, store), p, store),
             kind \in SessionKinds => \A d \in Slots : p.calls[d].kind \notin SessionKinds
      PROVE  Proper(Sent(p, c, kind, store), store') /\ Sent(p, c, kind, store) \in Tab
  <2>1. /\ Sent(p, c, kind, store) = Put(p, c, Asking(kind, store))
        /\ Asking(kind, store) \in Call /\ Asking(kind, store).kind = kind
    BY <1>1, SentIs DEF Asking
  <2> QED
    BY <1>1, <1>5, <2>1, PutProper, PutIs
<1>6. ASSUME NEW c \in Slots, Person(t, c) PROVE (\A u \in Tabs : Proper(tab[u], store))'
  <2>1. CASE SubmitLogin(t, c)
    <3>1. Fits(Asking("login", store), p, store) /\ store' = store /\ "login" \in Kinds
      BY <2>1 DEF SubmitLogin, Fits, Asking, PageKinds, Kinds
    <3>2. \A d \in Slots : p.calls[d].kind \notin SessionKinds
      BY <2>1 DEF SubmitLogin, SessionKinds
    <3> QED
      BY <1>2, <1>5, <2>1, <3>1, <3>2 DEF SubmitLogin
  <2>2. CASE PageCalls(t, c)
    <3>1. Fits(Asking("page", store), p, store) /\ store' = store /\ "page" \in Kinds
      BY <2>2 DEF PageCalls, InApp, Fits, Asking, Kinds, PageKinds
    <3> QED
      BY <1>2, <1>5, <2>2, <3>1 DEF PageCalls, SessionKinds
  <2>3. CASE RegistryCalls(t, c)
    <3> DEFINE x == Sent(p, c, "registry", store)
    <3>1. Fits(Asking("registry", store), p, store) /\ store' = store /\ "registry" \in Kinds
      BY <2>3 DEF RegistryCalls, InApp, Fits, Asking, Kinds, PageKinds
    <3>2. Proper(x, store') /\ x \in Tab
      BY <1>5, <3>1 DEF SessionKinds
    <3>3. SetTab(t, [x EXCEPT !.asked = TRUE])
      BY <2>3 DEF RegistryCalls
    <3> HIDE DEF x
    <3> DEFINE y == [x EXCEPT !.asked = TRUE]
    <3>4. /\ y.page = x.page /\ y.user = x.user /\ y.offered = x.offered
          /\ y.view = x.view /\ y.calls = x.calls /\ y.leaving = x.leaving
      BY <3>2 DEF Tab
    <3> HIDE DEF y
    <3>5. Proper(y, store')
      BY <3>2, <3>4 DEF Proper, Fits, Single, Shown
    <3> QED
      BY <1>2, <3>3, <3>5 DEF y
  <2>4. CASE Logout(t, c)
    <3>1. Fits(Asking("logout", store), p, store) /\ store' = store /\ "logout" \in Kinds
      BY <2>4 DEF Logout, InApp, Fits, Asking, Kinds, PageKinds
    <3> QED
      BY <1>2, <1>5, <2>4, <3>1 DEF Logout, SessionKinds
  <2> QED
    BY <1>6, <2>1, <2>2, <2>3, <2>4 DEF Person
<1>7. CASE Navigate(t)
  <2>1. CASE store.token = NoToken
    <3> DEFINE x == Unmounted(p)
    <3>1. SetTab(t, Entered(x, store)) /\ store' = store /\ p.page = "app"
      BY <1>7, <2>1 DEF Navigate
    <3>2. p.leaving /\ \A d \in Slots : p.calls[d].kind \notin SessionKinds
      BY <1>1, <2>1, <3>1 DEF Proper, Shown, Fits, SessionKinds
    <3>3. x \in GoodTab /\ Silent(x)
      BY <1>1, <3>2, UnmountedIs DEF Silent, SessionKinds
    <3> HIDE DEF x
    <3> QED
      BY <1>1, <1>2, <2>1, <3>1, <3>3, EnteredProper
  <2>2. CASE store.token # NoToken
    <3> DEFINE y == [p EXCEPT !.page = "app", !.view = store.choice]
    <3>1. SetTab(t, y) /\ p.page = "app" /\ store' = store
      BY <1>7, <2>2 DEF Navigate, Entered
    <3>2. /\ y.page = p.page /\ y.user = p.user /\ y.offered = p.offered
          /\ y.view = store.choice /\ y.calls = p.calls /\ y.leaving = p.leaving
      BY <1>1, <3>1 DEF Tab
    <3> HIDE DEF y
    <3>3. Proper(y, store)
      BY <1>1, <2>2, <3>1, <3>2 DEF Proper, Fits, Single, Shown
    <3> QED
      BY <1>2, <3>1, <3>3
  <2> QED
    BY <2>1, <2>2
<1>8. CASE SwitchTenant(t)
  <2> DEFINE x == Departing(p)
  <2>1. PICK k \in Selectable(p) : store' = Chosen(p, k)
    BY <1>8 DEF SwitchTenant
  <2>2. /\ store'.token = store.token /\ store'.choice = k
        /\ k \in p.offered \/ (p.user \in Staff /\ k = NoKey)
    BY <1>1, <2>1 DEF Chosen, Selectable, Store
  <2>3. /\ SetTab(t, x) /\ p.page = "app"
        /\ x.leaving /\ x.page = p.page /\ x.user = p.user /\ x.offered = p.offered
        /\ x.calls = p.calls
    BY <1>1, <1>8, DepartingIs DEF SwitchTenant
  <2> HIDE DEF x
  <2>4. \A d \in Slots : Fits(x.calls[d], x, store')
    BY <1>1, <2>2, <2>3 DEF Proper, Fits
  <2>5. Single(x) /\ Shown(x, store')
    BY <1>1, <2>2, <2>3 DEF Proper, Single, Shown
  <2> QED
    BY <1>2, <2>3, <2>4, <2>5 DEF Proper
<1>9. CASE Unload(t)
  BY <1>2, <1>3, <1>9 DEF Unload
<1>10. CASE Reload(t)
  BY <1>2, <1>3, <1>10 DEF Reload
<1>11. CASE OpenLink(t)
  BY <1>2, <1>3, <1>11 DEF OpenLink
<1> QED
  BY <1>4, <1>6, <1>7, <1>8, <1>9, <1>10, <1>11

(* With one tab, page, requests and storage stay in step for ever.         *)
LEMMA OneTabInvariant ==
    ASSUME OneTab
    PROVE  Spec => []OneTabInv
<1>1. Init => OneTabInv
  <2>1. ASSUME Init PROVE TypeInv
    BY <2>1, FreshTabs DEF Init, TypeInv, SignedOut, Store, Choices
  <2>2. Proper(Loading, SignedOut)
    BY FreshTabs, SilentProper DEF Silent, Shown, Loading, NoCall, SessionKinds, PageKinds
  <2> QED
    BY <2>1, <2>2 DEF Init, OneTabInv
<1>2. OneTabInv /\ [Next]_vars /\ TypeInv' => OneTabInv'
  <2> SUFFICES ASSUME OneTabInv, [Next]_vars, TypeInv'
               PROVE  (\A u \in Tabs : Proper(tab[u], store))'
    BY DEF OneTabInv
  <2>1. ASSUME NEW t \in Tabs, NEW c \in Slots, Serve(t, c) \/ Continue(t, c)
        PROVE  (\A u \in Tabs : Proper(tab[u], store))'
    BY <2>1, ProperServe, ProperContinue
  <2>2. CASE UNCHANGED <<store, tab>>
    BY <2>2 DEF OneTabInv
  <2>3. ASSUME NEW n \in Tokens, SessionEnds(n) PROVE UNCHANGED <<store, tab>>
    BY <2>3 DEF SessionEnds
  <2>4. ASSUME NEW s \in Subjects, NEW k \in Tenants, PortalChanges(s, k)
        PROVE  UNCHANGED <<store, tab>>
    BY <2>4 DEF PortalChanges
  <2>5. ASSUME NEW s \in Subjects, GateCatchesUp(s) PROVE UNCHANGED <<store, tab>>
    BY <2>5 DEF GateCatchesUp
  <2>6. CASE UNCHANGED vars
    BY <2>2, <2>6 DEF vars
  <2> QED
    BY <2>1, <2>2, <2>3, <2>4, <2>5, <2>6, ProperPerson DEF Next
<1> QED
  BY <1>1, <1>2, TypeInvariant, PTL DEF Spec

-----------------------------------------------------------------------------
(* The choice in localStorage is one the tenant switcher offers            *)
(* (tenantChoice.ts:50-65, TenantSwitcher.tsx:48-57), whatever the portal  *)
(* changes while the page is open.                                         *)
THEOREM ChoiceStaysOffered ==
    ASSUME OneTab
    PROVE  Spec => []ChoiceIsOffered
<1>1. OneTabInv => ChoiceIsOffered
  BY DEF OneTabInv, Proper, Shown, ChoiceIsOffered
<1> QED
  BY <1>1, OneTabInvariant, PTL

(* The bootstrap settles for no bindings only when the refused request     *)
(* carried no choice (app.tsx:46-49, 74-95): a stale choice strands nobody.*)
THEOREM RefusalsAreRetried ==
    ASSUME OneTab
    PROVE  Spec => RefusalIsRetried
<1> DEFINE Retried ==
        \A t \in Tabs, c \in Slots :
          /\ BootDegrades(t, c)
          /\ Replied(t, c, Kinds, {"403"})
          /\ tab[t].calls[c].token = store.token
          => tab[t].calls[c].choice = NoKey
<1>1. OneTabInv => Retried
  <2> SUFFICES ASSUME OneTabInv, NEW t \in Tabs, NEW c \in Slots,
                      BootDegrades(t, c), tab[t].calls[c].reply = "403",
                      tab[t].calls[c].token = store.token
               PROVE  tab[t].calls[c].choice = NoKey
    BY DEF Replied
  <2>1. Fits(tab[t].calls[c], tab[t], store)
    BY DEF OneTabInv, Proper
  <2>2. \/ tab[t].calls[c].kind = "retry"
        \/ tab[t].calls[c].kind = "whoami" /\ store.choice = NoKey
    BY DEF BootDegrades, Replied
  <2> QED
    BY <2>1, <2>2 DEF Fits
<1>2. OneTabInv /\ [Next]_vars => [Retried]_vars
  BY <1>1
<1>3. RefusalIsRetried <=> [][Retried]_vars
  BY PTL DEF RefusalIsRetried
<1> QED
  BY <1>2, <1>3, OneTabInvariant, PTL DEF Spec

(* A 401 clears the session that got it and no other (request.ts:46-60),   *)
(* on a page that is not being left.                                       *)
THEOREM GoodSessionsSurvive ==
    ASSUME OneTab
    PROVE  Spec => LiveSessionSurvives401
<1> DEFINE Survives ==
        \A t \in Tabs, c \in Slots :
          /\ Unauthorized(t, c) /\ Replied(t, c, Kinds \ {"login"}, {"401"})
          /\ ~tab[t].leaving
          => \/ store.token \notin live
             \/ store.token = tab[t].calls[c].token
<1>1. OneTabInv => Survives
  <2> SUFFICES ASSUME OneTabInv, NEW t \in Tabs, NEW c \in Slots, Unauthorized(t, c),
                      tab[t].calls[c].kind # "login", ~tab[t].leaving
               PROVE  \/ store.token \notin live
                      \/ store.token = tab[t].calls[c].token
    BY DEF Replied
  <2>1. Fits(tab[t].calls[c], tab[t], store)
    BY DEF OneTabInv, Proper
  <2>2. tab[t].calls[c].kind \in {"whoami", "retry"} \cup PageKinds
    BY DEF Unauthorized, Replied, Kinds, PageKinds
  <2>3. NoToken \notin live
    BY DEF OneTabInv, TypeInv, Tokens, NoToken
  <2> QED
    BY <2>1, <2>2, <2>3 DEF Fits
<1>2. OneTabInv /\ [Next]_vars => [Survives]_vars
  BY <1>1
<1>3. LiveSessionSurvives401 <=> [][Survives]_vars
  BY PTL DEF LiveSessionSurvives401
<1> QED
  BY <1>2, <1>3, OneTabInvariant, PTL DEF Spec

(* An administrator's page that stays asks under the choice it was         *)
(* rendered for (tenantScope.tsx:22-23); one that is being left for a new  *)
(* choice need not (TenantSwitcher.tsx:67-78).                             *)
THEOREM StayingPagesMatch ==
    ASSUME OneTab
    PROVE  Spec => StayingPageMatchesChoice
<1> DEFINE Matches ==
        \A t \in Tabs, c \in Slots :
          PageCalls(t, c) /\ tab[t].user \in Admins /\ ~tab[t].leaving =>
              tab[t].view = store.choice
<1>1. OneTabInv => Matches
  BY DEF OneTabInv, Proper, Shown, PageCalls, InApp
<1>2. OneTabInv /\ [Next]_vars => [Matches]_vars
  BY <1>1
<1>3. StayingPageMatchesChoice <=> [][Matches]_vars
  BY PTL DEF StayingPageMatchesChoice
<1> QED
  BY <1>2, <1>3, OneTabInvariant, PTL DEF Spec
=============================================================================
