------------------------------ MODULE RouteTable ------------------------------
(***************************************************************************)
(* Where a signed-in user of the console may go: the route table           *)
(* (config.ts), the access rules (access.ts), the landing pages            *)
(* (landing.ts) and the fall-back of a platform user who drilled into a    *)
(* tenant (app.tsx onPageChange), four lists that have to agree.           *)
(*                                                                         *)
(* The access rules are evaluated when the tab loads; the fall-back reads  *)
(* the tenant choice from localStorage at every change of the address,   *)
(* and another tab may have changed it since.                              *)
(***************************************************************************)
EXTENDS Naturals, Sequences, SequencesExt

VARIABLES who,       \* the type of the user who is signed in
          drilled,   \* is a tenant choice stored?
          granted,   \* the same, as the tab's access rules saw it
          place,     \* the tab's address
          content,   \* what the tab shows there
          via        \* how it came there

routeVars == <<who, drilled, granted, place, content, via>>

Nobody   == "nobody"
Platform == "PLATFORM"
Tenant   == "TENANT_ADMIN"
EndUser  == "END_USER"
Types    == {Platform, Tenant, EndUser}

(***************************************************************************)
(* The route table.  A leaf is its path and the access it has, its own or  *)
(* inherited from the nearest group above it; a redirect leads on.         *)
(***************************************************************************)
Leaf(path, access)          == [path |-> path, access |-> access]
Under(base, names, access)  == {Leaf(base \o <<n>>, access) : n \in names}

PublicLeaves == Under(<<"user">>, {"login", "register"}, "open") \cup Under(<<"link">>, {":token"}, "open")
HomeLeaves   == {Leaf(<<"dashboard">>, "canPlatform"), Leaf(<<"tenant", "list">>, "canPlatform")}
CredentialsLeaf == Leaf(<<"tenant", "credentials">>, "canTenantAdmin")
UserLeaves ==
    {Leaf(<<n>>, "canUser") : n \in {"profile", "identity", "sessions"}}
    \cup Under(<<"users">>, {"list", "login-logs"}, "canPlatform")
    \cup Under(<<"rbac">>, {"roles", "groups", "permissions", "permission-groups", "user-roles"}, "canPlatform")
StorageLeaves ==
    {Leaf(<<"files", "my">>, "canUser"), Leaf(<<"tenant", "files">>, "canTenantAdmin"),
     Leaf(<<"admin", "audit-logs">>, "canPlatform")}
    \cup Under(<<"storage">>, {"quota", "audit"}, "canUser")
    \cup Under(<<"admin", "storage">>,
               {"files", "quota", "stats", "providers", "buckets", "settings"}, "canPlatform")
\* Slip: the mail page is given to tenant administrators, whose group it is in.
MessageLeavesOpen ==
    Under(<<"message", "admin">>, {"accounts", "signatures", "templates", "policies"}, "canTenantAdmin")
    \cup Under(<<"message", "send">>, {"email", "sms"}, "canTenantAdmin")
    \cup Under(<<"message">>, {"emails", "sms"}, "canPlatform")
MessageLeaves ==
    Under(<<"message", "admin">>, {"accounts", "signatures", "templates", "policies"}, "canTenantAdmin")
    \cup Under(<<"message", "send">>, {"email", "sms"}, "canPlatform")
    \cup Under(<<"message">>, {"emails", "sms"}, "canPlatform")
GidLicenseLeaves ==
    {Leaf(<<"gid">>, "canPlatform")} \cup Under(<<"license">>, {"keys", "console"}, "canPlatform")
TelemetryLeaves ==
    {Leaf(<<"telemetry", "stats">>, "canPlatform"), Leaf(<<"telemetry", "tokens">>, "canTenantAdmin")}
ReferenceLeaves ==
    Under(<<"reference">>, {"directory", "regions", "examples", "phone"}, "canPlatform")
SystemLeaf == Leaf(<<"system">>, "canPlatform")

\* What the menu is built from, and all there is.
MenuLeaves == HomeLeaves \cup {CredentialsLeaf, SystemLeaf} \cup UserLeaves \cup StorageLeaves
              \cup MessageLeaves \cup GidLicenseLeaves \cup TelemetryLeaves \cup ReferenceLeaves
Leaves     == MenuLeaves \cup PublicLeaves

Redirects ==
    {[from |-> <<>>,                   to |-> <<"profile">>],
     [from |-> <<"tenant">>,           to |-> <<"tenant", "list">>],
     [from |-> <<"users">>,            to |-> <<"users", "list">>],
     [from |-> <<"rbac">>,             to |-> <<"rbac", "roles">>],
     [from |-> <<"files">>,            to |-> <<"files", "my">>],
     [from |-> <<"storage">>,          to |-> <<"storage", "quota">>],
     [from |-> <<"admin", "storage">>, to |-> <<"admin", "storage", "files">>],
     [from |-> <<"message">>,          to |-> <<"message", "admin", "accounts">>],
     [from |-> <<"message", "admin">>, to |-> <<"message", "admin", "accounts">>],
     [from |-> <<"license">>,          to |-> <<"license", "keys">>],
     [from |-> <<"telemetry">>,        to |-> <<"telemetry", "tokens">>],
     [from |-> <<"reference">>,        to |-> <<"reference", "directory">>]}

Redirected(p) == IF \E r \in Redirects : r.from = p
                 THEN (CHOOSE r \in Redirects : r.from = p).to ELSE p

Places == {l.path : l \in Leaves} \cup {r.from : r \in Redirects} \cup {<<"tenant", "capabilities">>}

(***************************************************************************)
(* access.ts, landing.ts, and onPageChange of app.tsx.                     *)
(***************************************************************************)
MaySee(access, w, d) ==
    CASE access = "open"           -> TRUE
      [] access = "canUser"        -> w # Nobody
      [] access = "canPlatform"    -> w = Platform /\ ~d
      [] access = "canTenantAdmin" -> w \in {Platform, Tenant}

PostLoginTarget(w) ==
    CASE w = Platform -> <<"dashboard">>
      [] w = Tenant   -> CredentialsLeaf.path
      [] OTHER        -> <<"profile">>

TenantVisible ==
    {<<"tenant", "credentials">>, <<"tenant", "files">>, <<"files">>, <<"storage">>, <<"profile">>,
     <<"identity">>, <<"sessions">>, <<"message", "admin">>, <<"telemetry">>}

\* Where the tab ends up when p is opened: redirects first, then the fall-back.
Settled(p) ==
    LET q == Redirected(p)
    IN  IF /\ who' = Platform /\ drilled'
           /\ q # <<"user", "login">>
           /\ \A v \in TenantVisible : ~IsPrefix(v, q)
        THEN <<"tenant", "capabilities">> ELSE q

ContentOf(p) ==
    IF \A l \in Leaves : l.path # p THEN "404"
    ELSE IF \E l \in Leaves : l.path = p /\ MaySee(l.access, who', granted') THEN "page"
    ELSE "403"

Arrive(p, how) ==
    /\ place' = Settled(p)
    /\ content' = ContentOf(Settled(p))
    /\ via' = how

(***************************************************************************)
(* What the user does.                                                     *)
(***************************************************************************)
\* The choice is dropped, the user loaded anew, the landing page of the type opened.
SignIn(w) ==
    /\ who = Nobody
    /\ who' = w /\ drilled' = FALSE /\ granted' = FALSE
    /\ Arrive(PostLoginTarget(w), "landing")

SignOut ==
    /\ who # Nobody
    /\ who' = Nobody /\ drilled' = FALSE /\ granted' = FALSE
    /\ Arrive(<<"user", "login">>, "signed out")

\* The 404 page and the public pages have no menu.
HasMenu == who # Nobody /\ content # "404" /\ \A l \in PublicLeaves : l.path # place

ClickMenu(l) ==
    /\ HasMenu
    /\ MaySee(l.access, who, granted)
    /\ UNCHANGED <<who, drilled, granted>>
    /\ Arrive(l.path, IF granted = drilled THEN "menu" ELSE "stale menu")

\* The button of the 404 page.
GoHome ==
    /\ who # Nobody /\ content = "404"
    /\ UNCHANGED <<who, drilled, granted>>
    /\ Arrive(<<>>, "home")

\* A bookmark, a typed address, a reload: the tab loads.
OpenAddress(p) ==
    /\ who # Nobody
    /\ UNCHANGED <<who, drilled>> /\ granted' = drilled
    /\ Arrive(p, "address")

\* The tenant switcher of this tab, which only a platform user's table of pages follows:
\* it stores the choice and loads the home of the area chosen.
SwitchTenant ==
    /\ who = Platform /\ HasMenu
    /\ UNCHANGED who /\ drilled' \in BOOLEAN /\ granted' = drilled'
    /\ Arrive(IF drilled' THEN CredentialsLeaf.path ELSE <<"dashboard">>, "switch")

\* Another tab's switcher does; this tab is not told.
SwitchedElsewhere ==
    /\ who = Platform
    /\ drilled' = ~drilled
    /\ UNCHANGED <<who, granted, place, content, via>>

RouteInit ==
    /\ who = Nobody /\ drilled = FALSE /\ granted = FALSE
    /\ place = <<"user", "login">> /\ content = "page" /\ via = "signed out"

RouteNext ==
    \/ \E w \in Types : SignIn(w)
    \/ SignOut \/ GoHome \/ SwitchTenant \/ SwitchedElsewhere
    \/ \E l \in MenuLeaves : ClickMenu(l)
    \/ \E p \in Places : OpenAddress(p)

RouteSpec == RouteInit /\ [][RouteNext]_routeVars

(***************************************************************************)
(* Properties.                                                             *)
(***************************************************************************)
\* What each variable may hold.
RouteTypeOK ==
    /\ who \in Types \cup {Nobody}
    /\ drilled \in BOOLEAN /\ granted \in BOOLEAN
    /\ place \in Places
    /\ content \in {"page", "403", "404"}
    /\ via \in {"landing", "menu", "stale menu", "address", "switch", "home", "signed out"}

\* Whatever the menu offers a user it leads to, and so do signing in, the tenant switcher
\* and the way home from "404": no entry and no landing page ends at "403", at "404" or
\* at the drilled user's fall-back, as long as no other tab changed the choice ("keep
\* this list in step with the route table", app.tsx:167).
MenuLeads == via \in {"landing", "menu", "switch", "home"} => content = "page"
=============================================================================
