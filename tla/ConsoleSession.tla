--------------------------- MODULE ConsoleSession ---------------------------
(***************************************************************************)
(* The web console's session and tenant choice, across browser tabs.       *)
(*                                                                         *)
(* All tabs of one browser share localStorage: the bearer token, the       *)
(* cached user and the tenant choice.  Each tab runs its own single        *)
(* threaded page, which yields at every await: at sign-in, at the WhoAmI   *)
(* bootstrap, at a page's requests and at sign-out.  A step below is one   *)
(* JavaScript task, from one await to the next.  The request interceptor   *)
(* reads localStorage when a request is sent; the code that handles the    *)
(* answer reads it again, and may find another session there.              *)
(*                                                                         *)
(* The server is the door of TenantDoor.  Its view of the portal may lag   *)
(* (module TenantGate says by how much; here the lag has no clock).        *)
(***************************************************************************)
EXTENDS Integers, FiniteSets

CONSTANTS
    Admins, Staff, EndUsers, NoActor, Tenants, ConsoleKey, NoKey, Registry,
    Tabs,         \* browser tabs on the console
    Slots,        \* bound: how many requests a tab has open at a time
    FileLinks,    \* whether anybody opens a file link in a tab
    MaxSessions   \* bound: how many sessions are ever created

ASSUME SessionsAssumption ==
    /\ MaxSessions \in Nat
    /\ FileLinks \in BOOLEAN
    /\ NoActor \notin Admins \cup Staff \cup EndUsers
    /\ Admins \cap Staff = {}
    /\ NoKey \notin Tenants
    /\ Registry \notin Admins

VARIABLES
    store,    \* localStorage
    owner,    \* owner[n]: whose session token n is; NoActor: not issued yet
    live,     \* the tokens the user service accepts
    portal,   \* portal[s]: the tenant keys the portal holds for subject s
    gate,     \* gate[s]: the same as the tenant gate's cache has it
    tab       \* tab[t]: the page in tab t, and its open requests

vars == <<store, owner, live, portal, gate, tab>>

Users    == Admins \cup Staff \cup EndUsers
Subjects == Admins \cup (IF Staff = {} THEN {} ELSE {Registry})
Choices  == Tenants \cup {NoKey}
NoToken  == 0
Tokens   == 1..MaxSessions

Kinds   == {"none", "login", "whoami", "retry", "page", "registry", "logout"}
Replies == {"open", "ok", "401", "403", "failed"}
Pages   == {"loading", "login", "boot", "app", "opening", "linkboot", "link"}

(* choiceFor is a history variable: for whom the choice was made.          *)
Store == [token : Tokens \cup {NoToken}, user : Users \cup {NoActor},
          choice : Choices, choiceFor : Users \cup {NoActor}]

(* A request: the headers it carries, its answer, and what that says.      *)
Call == [kind : Kinds, token : Tokens \cup {NoToken}, choice : Choices,
         reply : Replies, keys : SUBSET Tenants]

Tab == [page    : Pages,
        user    : Users \cup {NoActor},  \* initialState.currentUser
        offered : SUBSET Tenants,        \* what the tenant switcher lists
        asked   : BOOLEAN,               \* the switcher's effect has run
        view    : Choices,               \* the choice as last rendered
        leaving : BOOLEAN,               \* a full navigation has been started
        calls   : [Slots -> Call]]

(* A type invariant of the browser's storage, the server and the tabs.     *)
TypeOK ==
    /\ store \in Store
    /\ owner \in [Tokens -> Users \cup {NoActor}]
    /\ live \in SUBSET Tokens
    /\ portal \in [Subjects -> SUBSET Tenants]
    /\ gate \in [Subjects -> SUBSET Tenants]
    /\ tab \in [Tabs -> Tab]

SignedOut == [token |-> NoToken, user |-> NoActor, choice |-> NoKey,
              choiceFor |-> NoActor]

NoCall == [kind |-> "none", token |-> NoToken, choice |-> NoKey,
           reply |-> "ok", keys |-> {}]

(* A full page load: nothing of the page before it is left, and the        *)
(* answers to its requests go nowhere.                                     *)
Loading == [page |-> "loading", user |-> NoActor, offered |-> {},
            asked |-> FALSE, view |-> NoKey, leaving |-> FALSE,
            calls |-> [c \in Slots |-> NoCall]]

(* The same at the address of a file link, /link/:token.                   *)
Opening == [Loading EXCEPT !.page = "opening"]

Init ==
    /\ store = SignedOut
    /\ owner = [n \in Tokens |-> NoActor]
    /\ live = {}
    /\ portal \in [Subjects -> SUBSET Tenants]
    /\ gate = portal
    /\ tab = [t \in Tabs |-> Loading]

-----------------------------------------------------------------------------
(* The server.                                                             *)

Door == INSTANCE TenantDoor
            WITH Staleness <- 0, Requests <- Tabs,
                 changedAt <- 0, clock <- 0, door <- 0

(* What the session middleware and the gate answer.                        *)
Verdict(q) ==
    LET u == owner[q.token]
        s == IF u \in Admins THEN u ELSE Registry
        asked == [actor |-> u, choice |-> q.choice,
                  route |-> IF q.kind \in {"whoami", "retry"} THEN "whoami"
                                                             ELSE "scoped"]
        view == IF s \in Subjects THEN gate[s] ELSE {} IN
    IF q.token \notin live THEN "401"
    ELSE IF Door!Granted(asked, view) = {} THEN "403" ELSE "ok"

Open(t, c, kinds) ==
    tab[t].calls[c].kind \in kinds /\ tab[t].calls[c].reply = "open"

Answer(t, c, reply, token, keys) ==
    tab' = [tab EXCEPT ![t].calls[c] =
               [kind |-> @.kind, token |-> token, choice |-> @.choice,
                reply |-> reply, keys |-> keys]]

(* The login call names a user; the server issues the next token, or       *)
(* refuses the password.                                                   *)
ServeLogin(t, c) ==
    /\ Open(t, c, {"login"})
    /\ \/ \E u \in Users, n \in Tokens :
             /\ owner[n] = NoActor
             /\ \A m \in 1..(n - 1) : owner[m] # NoActor
             /\ owner' = [owner EXCEPT ![n] = u]
             /\ live' = live \cup {n}
             /\ Answer(t, c, "ok", n, {})
       \/ /\ Answer(t, c, "401", tab[t].calls[c].token, {})
          /\ UNCHANGED <<owner, live>>
    /\ UNCHANGED <<store, portal, gate>>

(* Logout is no public path: it crosses the gate like any other call, and  *)
(* revokes the session only if it gets through.                            *)
ServeLogout(t, c) ==
    /\ Open(t, c, {"logout"})
    /\ LET q == tab[t].calls[c] IN
       /\ Answer(t, c, Verdict(q), q.token, {})
       /\ live' = IF Verdict(q) = "ok" THEN live \ {q.token} ELSE live
    /\ UNCHANGED <<store, owner, portal, gate>>

ServeQuery(t, c) ==
    /\ Open(t, c, {"whoami", "retry", "page", "registry"})
    /\ LET q == tab[t].calls[c] IN
       Answer(t, c, Verdict(q), q.token,
              IF Verdict(q) # "ok" \/ q.kind = "page" THEN {}
              ELSE IF q.kind = "registry" THEN portal[Registry]
              ELSE IF owner[q.token] \in Admins THEN portal[owner[q.token]] ELSE {})
    /\ UNCHANGED <<store, owner, live, portal, gate>>

(* Any call may fail on its way: no answer, or a 5xx.                      *)
ServeFails(t, c) ==
    /\ Open(t, c, Kinds \ {"none"})
    /\ Answer(t, c, "failed", tab[t].calls[c].token, {})
    /\ UNCHANGED <<store, owner, live, portal, gate>>

(* A session expires, or is revoked from another device.                   *)
SessionEnds(n) ==
    /\ n \in live
    /\ live' = live \ {n}
    /\ UNCHANGED <<store, owner, portal, gate, tab>>

PortalChanges(s, k) ==
    /\ portal' = [portal EXCEPT ![s] =
                     IF k \in @ THEN @ \ {k} ELSE @ \cup {k}]
    /\ UNCHANGED <<store, owner, live, gate, tab>>

(* The gate's cache entry expires and is fetched again.                    *)
GateCatchesUp(s) ==
    /\ gate[s] # portal[s]
    /\ gate' = [gate EXCEPT ![s] = portal[s]]
    /\ UNCHANGED <<store, owner, live, portal, tab>>

-----------------------------------------------------------------------------
(* The tab.                                                                *)

SetTab(t, p) == tab' = [tab EXCEPT ![t] = p]

(* requestInterceptors: the headers are localStorage at this moment.       *)
Sent(p, c, kind, st) ==
    [p EXCEPT !.calls[c] = [kind |-> kind, token |-> st.token,
                            choice |-> st.choice, reply |-> "open",
                            keys |-> {}]]

Close(p, c) == [p EXCEPT !.calls[c] = NoCall]

Idle(t, c) == tab[t].calls[c] = NoCall

Replied(t, c, kinds, replies) ==
    tab[t].calls[c].kind \in kinds /\ tab[t].calls[c].reply \in replies

(* render(), before anything else: an address outside /user/ is left for   *)
(* the login page unless there is a session.                               *)
Rendered(p, st) == IF st.token = NoToken THEN [p EXCEPT !.page = "loading"] ELSE p

(* The end of a bootstrap.  The layout's onPageChange lets only a session  *)
(* through; the page of a file link has no layout.  (The call it makes is  *)
(* public and touches no session, so it is left out.)                      *)
Entered(p, st) ==
    IF p.page \in {"opening", "linkboot"}
    THEN [p EXCEPT !.page = "link"]
    ELSE IF st.token = NoToken
    THEN [p EXCEPT !.page = "login", !.user = NoActor, !.offered = {},
                   !.asked = FALSE, !.view = NoKey]
    ELSE [p EXCEPT !.page = "app", !.view = st.choice]

(* getInitialState up to its first await: only an administrator's asks.    *)
Bootstrapped(p, c, st, page) ==
    LET q == [p EXCEPT !.user = st.user, !.offered = {}, !.asked = FALSE] IN
    IF st.token # NoToken /\ st.user \in Admins
    THEN Sent([q EXCEPT !.page = page], c, "whoami", st)
    ELSE Entered(q, st)

(* The load of the application.  The login page sends a visitor who has a  *)
(* session home.                                                           *)
Mount(t, c) ==
    /\ tab[t].page \in {"loading", "opening"}
    /\ LET p == Rendered(tab[t], store) IN
       SetTab(t, Bootstrapped(p, c, store, IF p.page = "opening"
                                           THEN "linkboot" ELSE "boot"))
    /\ UNCHANGED <<store, owner, live, portal, gate>>

SubmitLogin(t, c) ==
    /\ tab[t].page = "login" /\ Idle(t, c)
    /\ \A d \in Slots : tab[t].calls[d].kind \notin {"login", "whoami", "retry"}
    /\ SetTab(t, Sent(tab[t], c, "login", store))
    /\ UNCHANGED <<store, owner, live, portal, gate>>

(* The continuation of the login and the register form: the choice is      *)
(* dropped, the session kept, and refresh() runs the bootstrap in place.   *)
LoginSucceeds(t, c) ==
    /\ Replied(t, c, {"login"}, {"ok"})
    /\ LET n == tab[t].calls[c].token IN
       /\ store' = [SignedOut EXCEPT !.token = n, !.user = owner[n]]
       /\ SetTab(t, Bootstrapped(Close(tab[t], c), c, store', "login"))
    /\ UNCHANGED <<owner, live, portal, gate>>

LoginFails(t, c) ==
    /\ Replied(t, c, {"login"}, {"failed"})
    /\ SetTab(t, Close(tab[t], c))
    /\ UNCHANGED <<store, owner, live, portal, gate>>

(* Slip: writeTenantChoice(keys[0]) without the default "".                *)
EnsuredUndefined(st, keys, u) ==
    IF st.choice \in keys THEN {[st EXCEPT !.choiceFor = u]}
    ELSE IF keys = {} THEN {[st EXCEPT !.choice = NoActor, !.choiceFor = u]}
    ELSE {[st EXCEPT !.choice = k, !.choiceFor = u] : k \in keys}

(* Slip: any stored choice is trusted.                                     *)
EnsuredStored(st, keys, u) ==
    IF st.choice # NoKey THEN {[st EXCEPT !.choiceFor = u]}
    ELSE IF keys = {} THEN {[st EXCEPT !.choice = NoKey, !.choiceFor = u]}
    ELSE {[st EXCEPT !.choice = k, !.choiceFor = u] : k \in keys}

(* ensureTenantChoice: the stored choice if it is among the bindings, else *)
(* the first binding, or none; what it picks is written back.              *)
Ensured(st, keys, u) ==
    IF st.choice \in keys THEN {[st EXCEPT !.choiceFor = u]}
    ELSE IF keys = {} THEN {[st EXCEPT !.choice = NoKey, !.choiceFor = u]}
    ELSE {[st EXCEPT !.choice = k, !.choiceFor = u] : k \in keys}

BootSucceeds(t, c) ==
    /\ Replied(t, c, {"whoami", "retry"}, {"ok"})
    /\ LET q == tab[t].calls[c] IN
       /\ store' \in Ensured(store, q.keys, owner[q.token])
       /\ SetTab(t, Entered([Close(tab[t], c) EXCEPT !.offered = q.keys], store'))
    /\ UNCHANGED <<owner, live, portal, gate>>

(* Slip: the choice is not dropped before the second WhoAmI.               *)
BootRetriesAgain(t, c) ==
    /\ Replied(t, c, {"whoami"}, {"403"})
    /\ store.choice # NoKey
    /\ SetTab(t, Sent(tab[t], c, "whoami", store))
    /\ UNCHANGED <<store, owner, live, portal, gate>>

(* A 403 while a choice is stored: drop it and ask again, once.            *)
BootRetries(t, c) ==
    /\ Replied(t, c, {"whoami"}, {"403"})
    /\ store.choice # NoKey
    /\ store' = [store EXCEPT !.choice = NoKey, !.choiceFor = NoActor]
    /\ SetTab(t, Sent(tab[t], c, "retry", store'))
    /\ UNCHANGED <<owner, live, portal, gate>>

(* Slip: every refusal degrades at once.                                   *)
BootDegradesAtOnce(t, c) ==
    /\ Replied(t, c, {"whoami", "retry"}, {"403", "failed"})
    /\ SetTab(t, Entered(Close(tab[t], c), store))
    /\ UNCHANGED <<store, owner, live, portal, gate>>

(* Any other failure degrades to an empty binding set.                     *)
BootDegrades(t, c) ==
    /\ \/ Replied(t, c, {"whoami", "retry"}, {"failed"})
       \/ Replied(t, c, {"retry"}, {"403"})
       \/ Replied(t, c, {"whoami"}, {"403"}) /\ store.choice = NoKey
    /\ SetTab(t, Entered(Close(tab[t], c), store))
    /\ UNCHANGED <<store, owner, live, portal, gate>>

(* A full navigation is asked for; the page lives on until it commits.     *)
Departing(p) == [p EXCEPT !.leaving = TRUE]

(* errorHandler: whichever call got the 401, the stored session goes, and  *)
(* every page but the login page asks for a full navigation to it, and so  *)
(* does endSession.  The error is thrown on: a bootstrap degrades.         *)
Unauthorized(t, c) ==
    /\ Replied(t, c, Kinds \ {"none"}, {"401"})
    /\ store' = SignedOut
    /\ LET kind == tab[t].calls[c].kind
           p == IF tab[t].page # "login" \/ kind = "logout"
                THEN Departing(Close(tab[t], c)) ELSE Close(tab[t], c) IN
       SetTab(t, IF kind \in {"whoami", "retry"} THEN Entered(p, SignedOut) ELSE p)
    /\ UNCHANGED <<owner, live, portal, gate>>

InApp(t, c) == tab[t].page = "app" /\ Idle(t, c)

(* The switcher's effect is cleaned up: the answer it awaits is dropped.   *)
Unmounted(p) ==
    [p EXCEPT !.calls = [c \in Slots |-> IF @[c].kind = "registry"
                                         THEN [@[c] EXCEPT !.kind = "page"]
                                         ELSE @[c]]]

(* A route change: onPageChange's gate, and a newly rendered page.         *)
Navigate(t) ==
    /\ tab[t].page = "app"
    /\ SetTab(t, Entered(IF store.token = NoToken THEN Unmounted(tab[t])
                                                  ELSE tab[t], store))
    /\ UNCHANGED <<store, owner, live, portal, gate>>

(* A page asks for, or changes, something of the tenant it shows.          *)
PageCalls(t, c) ==
    /\ InApp(t, c)
    /\ SetTab(t, Sent(tab[t], c, "page", store))
    /\ UNCHANGED <<store, owner, live, portal, gate>>

(* An answer is rendered if its page is still there.                       *)
PageAnswered(t, c) ==
    /\ Replied(t, c, {"page"}, {"ok", "403", "failed"})
    /\ \E view \in {tab[t].view} \cup
                   IF tab[t].page = "app" THEN {store.choice} ELSE {} :
          SetTab(t, [Close(tab[t], c) EXCEPT !.view = view])
    /\ UNCHANGED <<store, owner, live, portal, gate>>

(* TenantSwitcher's effect: once per layout, for platform staff.           *)
RegistryCalls(t, c) ==
    /\ InApp(t, c) /\ tab[t].user \in Staff /\ ~tab[t].asked
    /\ SetTab(t, [Sent(tab[t], c, "registry", store) EXCEPT !.asked = TRUE])
    /\ UNCHANGED <<store, owner, live, portal, gate>>

(* Slip: the list is shown, the stored choice is left alone.               *)
RegistryAnsweredKept(t, c) ==
    /\ Replied(t, c, {"registry"}, {"ok", "403", "failed"})
    /\ SetTab(t, IF tab[t].page = "app" /\ tab[t].calls[c].reply = "ok"
                 THEN [Close(tab[t], c) EXCEPT !.offered = tab[t].calls[c].keys]
                 ELSE Close(tab[t], c))
    /\ UNCHANGED <<store, owner, live, portal, gate>>

(* Its answer.  A stored choice that the registry does not list is dropped *)
(* in place: the switcher is rendered again, the page is not.  A failure,  *)
(* a 403 among them, is swallowed; so is an answer that comes too late.    *)
RegistryAnswered(t, c) ==
    /\ Replied(t, c, {"registry"}, {"ok", "403", "failed"})
    /\ IF tab[t].page = "app" /\ tab[t].calls[c].reply = "ok"
       THEN LET keys == tab[t].calls[c].keys IN
            /\ store' = IF store.choice \in keys THEN store
                        ELSE [store EXCEPT !.choice = NoKey,
                                           !.choiceFor = NoActor]
            /\ SetTab(t, [Close(tab[t], c) EXCEPT !.offered = keys])
       ELSE SetTab(t, Close(tab[t], c)) /\ UNCHANGED store
    /\ UNCHANGED <<owner, live, portal, gate>>

(* What the switcher offers: staff may go back to the cross view; an       *)
(* administrator with one binding sees no switcher.                        *)
Selectable(p) ==
    IF p.user \in Staff THEN p.offered \cup {NoKey}
    ELSE IF p.user \in Admins /\ Cardinality(p.offered) > 1 THEN p.offered
    ELSE {}

Chosen(p, k) ==
    [store EXCEPT !.choice = k,
                  !.choiceFor = IF k = NoKey THEN NoActor ELSE p.user]

(* Slip: the choice is written, no reload is asked for.                    *)
SwitchTenantInPlace(t) ==
    /\ tab[t].page = "app"
    /\ \E k \in Selectable(tab[t]) : store' = Chosen(tab[t], k)
    /\ UNCHANGED <<owner, live, portal, gate, tab>>

(* applyChoice: write the choice and ask for a reload.                     *)
SwitchTenant(t) ==
    /\ tab[t].page = "app"
    /\ \E k \in Selectable(tab[t]) : store' = Chosen(tab[t], k)
    /\ SetTab(t, Departing(tab[t]))
    /\ UNCHANGED <<owner, live, portal, gate>>

(* The navigation commits.  Until then the old page's clicks, timers and   *)
(* continuations ran on.                                                   *)
Unload(t) ==
    /\ tab[t].leaving
    /\ SetTab(t, Loading)
    /\ UNCHANGED <<store, owner, live, portal, gate>>

Reload(t) ==
    /\ tab[t].page \notin {"loading", "opening"}
    /\ SetTab(t, IF tab[t].page \in {"link", "linkboot"} THEN Opening
                                                        ELSE Loading)
    /\ UNCHANGED <<store, owner, live, portal, gate>>

(* Somebody follows the link of a mail in this tab.                        *)
OpenLink(t) ==
    /\ FileLinks /\ tab[t].page # "opening"
    /\ SetTab(t, Opening)
    /\ UNCHANGED <<store, owner, live, portal, gate>>

(* endSession: revoke first ...                                            *)
Logout(t, c) ==
    /\ InApp(t, c)
    /\ SetTab(t, Sent(tab[t], c, "logout", store))
    /\ UNCHANGED <<store, owner, live, portal, gate>>

(* Slip: history.push to the login page, not a full navigation.            *)
LogoutAnsweredPush(t, c) ==
    /\ Replied(t, c, {"logout"}, {"ok", "403", "failed"})
    /\ store' = SignedOut
    /\ SetTab(t, Entered(Close(tab[t], c), store'))
    /\ UNCHANGED <<owner, live, portal, gate>>

(* ... then clear, whatever the answer, and go to the login page.          *)
LogoutAnswered(t, c) ==
    /\ Replied(t, c, {"logout"}, {"ok", "403", "failed"})
    /\ store' = SignedOut
    /\ SetTab(t, Departing(Close(tab[t], c)))
    /\ UNCHANGED <<owner, live, portal, gate>>

-----------------------------------------------------------------------------
Serve(t, c) ==
    ServeLogin(t, c) \/ ServeLogout(t, c) \/ ServeQuery(t, c) \/ ServeFails(t, c)

Continue(t, c) ==
    \/ LoginSucceeds(t, c) \/ LoginFails(t, c)
    \/ BootSucceeds(t, c) \/ BootRetries(t, c) \/ BootDegrades(t, c)
    \/ PageAnswered(t, c) \/ RegistryAnswered(t, c) \/ LogoutAnswered(t, c)
    \/ Unauthorized(t, c)

(* What the person at the browser does, and what the page does on its own. *)
Person(t, c) ==
    \/ SubmitLogin(t, c) \/ PageCalls(t, c) \/ RegistryCalls(t, c)
    \/ Logout(t, c)

Next ==
    \/ \E t \in Tabs :
          \/ \E c \in Slots :
                Mount(t, c) \/ Serve(t, c) \/ Continue(t, c) \/ Person(t, c)
          \/ Navigate(t) \/ SwitchTenant(t) \/ Unload(t) \/ Reload(t) \/ OpenLink(t)
    \/ \E n \in Tokens : SessionEnds(n)
    \/ \E s \in Subjects, k \in Tenants : PortalChanges(s, k)
    \/ \E s \in Subjects : GateCatchesUp(s)

Spec == Init /\ [][Next]_vars

(* Every call ends, and the browser runs what is ready to run.             *)
FairSpec ==
    /\ Spec
    /\ \A t \in Tabs, c \in Slots : WF_vars(Serve(t, c)) /\ WF_vars(Continue(t, c))

-----------------------------------------------------------------------------
(* Properties.                                                             *)

(* The choice in localStorage is one its tab's switcher offers             *)
(* (tenantChoice.ts:50-65, TenantSwitcher.tsx:48-57): as long as there is  *)
(* a session and the tab shows a list at all, the stored choice is on it,  *)
(* whatever the portal did since; only staff may have none.                *)
ChoiceIsOffered ==
    \A t \in Tabs :
        LET p == tab[t] IN
        /\ store.token # NoToken
        /\ p.page = "app" /\ p.user \in Admins \cup Staff /\ p.offered # {}
        => \/ store.choice \in p.offered
           \/ p.user \in Staff /\ store.choice = NoKey

(* A stale choice never strands an administrator (app.tsx:46-49, 74-95):   *)
(* the bootstrap does not settle for the empty binding set because of a    *)
(* 403 for a choice; that is asked again without.  (A tab whose session is *)
(* not the stored one any more is not meant.)                              *)
RefusalIsRetried ==
    [][\A t \in Tabs, c \in Slots :
          /\ BootDegrades(t, c)
          /\ Replied(t, c, Kinds, {"403"})
          /\ tab[t].calls[c].token = store.token
          => tab[t].calls[c].choice = NoKey]_vars

(* A 401 clears the session that got it (request.ts:46-60): on a page that *)
(* is not being left, the handler never throws away a session that is      *)
(* still good, whichever call of whichever earlier session the 401         *)
(* answers.  (A refused password, no 401 for a session, is not meant.)     *)
LiveSessionSurvives401 ==
    [][\A t \in Tabs, c \in Slots :
          /\ Unauthorized(t, c) /\ Replied(t, c, Kinds \ {"login"}, {"401"})
          /\ ~tab[t].leaving
          => \/ store.token \notin live
             \/ store.token = tab[t].calls[c].token]_vars

(* Choice and page go together (tenantScope.tsx:22-23): a page that stays  *)
(* sends an administrator's requests under the choice it was rendered for. *)
StayingPageMatchesChoice ==
    [][\A t \in Tabs, c \in Slots :
          PageCalls(t, c) /\ tab[t].user \in Admins /\ ~tab[t].leaving =>
              tab[t].view = store.choice]_vars

(* The choice belongs to the session (tenantChoice.ts:17-18): what a       *)
(* session's requests carry was chosen, or derived, for its user.          *)
ChoiceBelongsToUser ==
    store.token # NoToken /\ store.choice # NoKey =>
        store.choiceFor = owner[store.token]

(* A drill-down into a tenant that is gone falls back to the cross view    *)
(* (TenantSwitcher.tsx:50-56): a choice that the registry does not list    *)
(* any more does not outlive the switcher's look at the registry, not when *)
(* that look is itself refused for it.                                     *)
DeadDrillDownFallsBack ==
    [][\A t \in Tabs, c \in Slots :
          /\ RegistryAnswered(t, c) /\ Replied(t, c, Kinds, {"403"})
          /\ tab[t].calls[c].choice \in Tenants \ portal[Registry]
          => store'.choice # tab[t].calls[c].choice]_vars

(* Signing out revokes (session.ts:5-9, 17-20): when the logout call was   *)
(* answered, the session it carried is not valid any more.                 *)
SignOutRevokes ==
    [][\A t \in Tabs, c \in Slots :
          LogoutAnswered(t, c) /\ Replied(t, c, Kinds, {"ok", "403"}) =>
              tab[t].calls[c].token \notin live]_vars

(* The bootstrap ends: a blank page is not shown for ever, unless it is    *)
(* reloaded.                                                               *)
BootEnds ==
    \A t \in Tabs : tab[t].page \in {"boot", "linkboot"} ~>
                       tab[t].page \notin {"boot", "linkboot"}
=============================================================================
