---------------------------- MODULE TenantRegistry ----------------------------
(***************************************************************************)
(* The platform's tenant list (Tenant/List.tsx): the table, the drawer     *)
(* that switches a tenant's capabilities, the one that binds its           *)
(* administrators, and the dialogue that deletes it.  The page keeps three *)
(* copies of a tenant, the row, the drawer and the dialogue's target, and  *)
(* brings them up to date by hand, from answers that come in any order.    *)
(***************************************************************************)
EXTENDS Integers, FiniteSets

CONSTANTS OldTenants,   \* the tenants there are when the page opens
          NewTenants,   \* the tenants that may be created
          Services,     \* the capabilities
          Admins,       \* the accounts that may administer
          WriteSlots,   \* bound: RPCs of the page that are out at once
          LoadSlots,    \* bound: loads of the table that run at once
          MaxWrites     \* bound: RPCs that write, in all

VARIABLES registry,   \* what the portal holds, a record per living tenant
          rows,       \* the table
          loads,      \* the loads that run
          capDrawer, adminDrawer,   \* the drawers, copies of a row
          deleting,   \* the delete dialogue: its target and what was typed
          writes,     \* the RPCs that are out
          writeCount, \* bound counter
          tangled     \* did a load meet a write, or two writes of one switch meet?

registryVars == <<registry, rows, loads, capDrawer, adminDrawer, deleting, writes, writeCount, tangled>>

AllTenants == OldTenants \cup NewTenants
NoTenant   == "-"

ASSUME RegistryAssumption ==
    /\ MaxWrites \in Nat /\ LoadSlots # {}
    /\ OldTenants \cap NewTenants = {} /\ NoTenant \notin AllTenants

Row        == [disabled : BOOLEAN, caps : SUBSET Services, admins : SUBSET Admins]
NoWrite    == [op |-> "none", tenant |-> NoTenant, arg |-> "-", on |-> FALSE, stage |-> "out", got |-> {}]
NoLoad     == [stage |-> "idle", seen |-> <<>>]
Closed(d)  == d.tenant = NoTenant
NoDrawer   == [tenant |-> NoTenant, row |-> [disabled |-> FALSE, caps |-> {}, admins |-> {}]]
NoDialog   == [tenant |-> NoTenant, echo |-> NoTenant, typed |-> FALSE]
Drawn(t)   == [tenant |-> t, row |-> rows[t]]
Living     == DOMAIN registry
Loading    == \E l \in LoadSlots : loads[l] # NoLoad
Writing    == {w \in WriteSlots : writes[w] # NoWrite}

(***************************************************************************)
(* load(): the tenants, then the members of each of them; a tenant whose   *)
(* members do not come is shown without any.                               *)
(***************************************************************************)
StartLoad ==
    \E l \in LoadSlots :
        /\ loads[l] = NoLoad
        /\ loads' = [loads EXCEPT ![l] = [stage |-> "list", seen |-> <<>>]]

ReadTenants(l) ==
    /\ loads[l].stage = "list"
    /\ loads' = [loads EXCEPT ![l] =
                   [stage |-> "members", seen |-> [t \in Living |-> [registry[t] EXCEPT !.admins = {}]]]]
    /\ UNCHANGED <<registry, rows, capDrawer, adminDrawer, deleting, writes, writeCount, tangled>>

ReadMembers(l) ==
    /\ loads[l].stage = "members"
    /\ \E missing \in SUBSET DOMAIN loads[l].seen :
          /\ loads' = [loads EXCEPT ![l] =
               [stage |-> "shown",
                seen |-> [t \in DOMAIN loads[l].seen |->
                            [loads[l].seen[t] EXCEPT
                               !.admins = IF t \in Living \ missing THEN registry[t].admins ELSE {}]]]]
          /\ tangled' = (tangled \/ missing # {} \/ DOMAIN loads[l].seen # Living)
    /\ UNCHANGED <<registry, rows, capDrawer, adminDrawer, deleting, writes, writeCount>>

ShowRows(l) ==
    /\ loads[l].stage = "shown"
    /\ rows' = loads[l].seen
    /\ loads' = [loads EXCEPT ![l] = NoLoad]
    /\ UNCHANGED <<registry, capDrawer, adminDrawer, deleting, writes, writeCount, tangled>>

LoadFails(l) ==
    /\ loads[l].stage = "list"
    /\ loads' = [loads EXCEPT ![l] = NoLoad]
    /\ tangled' = TRUE
    /\ UNCHANGED <<registry, rows, capDrawer, adminDrawer, deleting, writes, writeCount>>

(***************************************************************************)
(* The page's RPCs.                                                        *)
(***************************************************************************)
Call(op, t, arg, on) ==
    /\ \E w \in WriteSlots :
          /\ writes[w] = NoWrite
          /\ writes' = [writes EXCEPT ![w] =
                          [op |-> op, tenant |-> t, arg |-> arg, on |-> on, stage |-> "out", got |-> {}]]
    /\ tangled' = (tangled \/ Loading
                     \/ \E w \in Writing : writes[w].tenant = t /\ writes[w].arg = arg)

Change(op, t, arg, on) ==
    /\ writeCount < MaxWrites
    /\ writeCount' = writeCount + 1
    /\ Call(op, t, arg, on)

\* The switches of the drawer; disabled when the drawer's copy says the tenant is.
ToggleCapability(svc) ==
    /\ ~Closed(capDrawer) /\ ~capDrawer.row.disabled
    /\ Change("cap", capDrawer.tenant, svc, svc \notin capDrawer.row.caps)
    /\ UNCHANGED <<registry, rows, loads, capDrawer, adminDrawer, deleting>>

\* The row's enable/disable link, from what the row shows.
ToggleTenant(t) ==
    /\ t \in DOMAIN rows /\ Closed(capDrawer) /\ Closed(adminDrawer) /\ Closed(deleting)
    /\ Change("disable", t, "-", ~rows[t].disabled)
    /\ UNCHANGED <<registry, rows, loads, capDrawer, adminDrawer, deleting>>

\* Bind an account, or unbind one the drawer lists.
ChangeAdmin(a) ==
    /\ ~Closed(adminDrawer)
    /\ \E on \in BOOLEAN :
          /\ ~on => a \in adminDrawer.row.admins
          /\ Change("bind", adminDrawer.tenant, a, on)
    /\ UNCHANGED <<registry, rows, loads, capDrawer, adminDrawer, deleting>>

CreateTenant(t) ==
    /\ t \in NewTenants \ Living
    /\ Closed(capDrawer) /\ Closed(adminDrawer) /\ Closed(deleting)
    /\ \A w \in Writing : writes[w].tenant # t
    /\ Change("create", t, "-", TRUE)
    /\ UNCHANGED <<registry, rows, loads, capDrawer, adminDrawer, deleting>>

OpenDrawer(t) ==
    /\ t \in DOMAIN rows /\ Closed(capDrawer) /\ Closed(adminDrawer) /\ Closed(deleting)
    /\ \/ capDrawer' = Drawn(t) /\ UNCHANGED adminDrawer
       \/ adminDrawer' = Drawn(t) /\ UNCHANGED capDrawer
    /\ UNCHANGED <<registry, rows, loads, deleting, writes, writeCount, tangled>>

CloseDrawer ==
    /\ ~Closed(capDrawer) \/ ~Closed(adminDrawer)
    /\ capDrawer' = NoDrawer /\ adminDrawer' = NoDrawer
    /\ UNCHANGED <<registry, rows, loads, deleting, writes, writeCount, tangled>>

\* Slip: what was typed in the dialogue before is left in the field.
OpenDeleteKept(t) ==
    /\ t \in DOMAIN rows /\ rows[t].disabled
    /\ Closed(capDrawer) /\ Closed(adminDrawer) /\ Closed(deleting)
    /\ deleting' = [tenant |-> t, echo |-> deleting.echo, typed |-> FALSE]
    /\ UNCHANGED <<registry, rows, loads, capDrawer, adminDrawer, writes, writeCount, tangled>>

\* The delete dialogue: only for a row that shows disabled; the field starts empty.
OpenDelete(t) ==
    /\ t \in DOMAIN rows /\ rows[t].disabled
    /\ Closed(capDrawer) /\ Closed(adminDrawer) /\ Closed(deleting)
    /\ deleting' = [tenant |-> t, echo |-> NoTenant, typed |-> FALSE]
    /\ UNCHANGED <<registry, rows, loads, capDrawer, adminDrawer, writes, writeCount, tangled>>

TypeKey(t) ==
    /\ ~Closed(deleting) /\ deleting.echo # t
    /\ deleting' = [deleting EXCEPT !.echo = t, !.typed = (t = deleting.tenant)]
    /\ UNCHANGED <<registry, rows, loads, capDrawer, adminDrawer, writes, writeCount, tangled>>

CancelDelete ==
    /\ ~Closed(deleting)
    /\ deleting' = [deleting EXCEPT !.tenant = NoTenant, !.typed = FALSE]
    /\ UNCHANGED <<registry, rows, loads, capDrawer, adminDrawer, writes, writeCount, tangled>>

ConfirmDelete ==
    /\ ~Closed(deleting) /\ deleting.echo = deleting.tenant
    /\ Change("delete", deleting.tenant, "-", deleting.typed)
    /\ UNCHANGED <<registry, rows, loads, capDrawer, adminDrawer, deleting>>

(***************************************************************************)
(* The portal.  It knows no deleted tenant, and deletes a disabled one.    *)
(***************************************************************************)
Toggled(S, x, on) == IF on THEN S \cup {x} ELSE S \ {x}

Applied(q) ==
    LET t == q.tenant IN
    CASE q.op = "cap"     -> [registry EXCEPT ![t].caps = Toggled(@, q.arg, q.on)]
      [] q.op = "disable" -> [registry EXCEPT ![t].disabled = q.on]
      [] q.op = "bind"    -> [registry EXCEPT ![t].admins = Toggled(@, q.arg, q.on)]
      [] q.op = "delete"  -> [u \in Living \ {t} |-> registry[u]]
      [] q.op = "create"  -> [u \in Living \cup {t} |->
                                IF u = t THEN [disabled |-> FALSE, caps |-> Services, admins |-> {}]
                                ELSE registry[u]]
      [] OTHER            -> registry

Accepts(q) == IF q.op = "create" THEN q.tenant \notin Living
              ELSE q.tenant \in Living /\ (q.op = "delete" => registry[q.tenant].disabled)

Apply(w) ==
    /\ w \in Writing /\ writes[w].stage = "out" /\ Accepts(writes[w])
    /\ registry' = Applied(writes[w])
    /\ writes' = [writes EXCEPT ![w].stage = "done",
                                ![w].got = IF writes[w].op = "members"
                                           THEN registry[writes[w].tenant].admins ELSE {}]
    /\ tangled' = (tangled \/ Loading)
    /\ UNCHANGED <<rows, loads, capDrawer, adminDrawer, deleting, writeCount>>

(***************************************************************************)
(* The answers.                                                            *)
(***************************************************************************)
Answer(w, op) ==
    /\ writes[w].op = op /\ writes[w].stage = "done"
    /\ writes' = [writes EXCEPT ![w] = NoWrite]

\* Slip: the switch that was answered is set in whichever drawer is open by now.
CapAnsweredAnywhere(w) ==
    LET q == writes[w] IN
    /\ Answer(w, "cap")
    /\ rows' = [t \in DOMAIN rows |-> IF t = q.tenant
                  THEN [rows[t] EXCEPT !.caps = Toggled(@, q.arg, q.on)] ELSE rows[t]]
    /\ capDrawer' = IF Closed(capDrawer) THEN capDrawer
                    ELSE [capDrawer EXCEPT !.row.caps = Toggled(@, q.arg, q.on)]
    /\ UNCHANGED <<registry, loads, adminDrawer, deleting, writeCount, tangled>>

\* A switch: the row and, if it is still this tenant's, the drawer.
CapAnswered(w) ==
    LET q == writes[w] IN
    /\ Answer(w, "cap")
    /\ rows' = [t \in DOMAIN rows |-> IF t = q.tenant
                  THEN [rows[t] EXCEPT !.caps = Toggled(@, q.arg, q.on)] ELSE rows[t]]
    /\ capDrawer' = IF capDrawer.tenant # q.tenant THEN capDrawer
                    ELSE [capDrawer EXCEPT !.row.caps = Toggled(@, q.arg, q.on)]
    /\ UNCHANGED <<registry, loads, adminDrawer, deleting, writeCount, tangled>>

\* Enable, disable and create reload the table.
ReloadAnswered(w) ==
    /\ Answer(w, "disable") \/ Answer(w, "create")
    /\ StartLoad
    /\ tangled' = (tangled \/ Loading \/ Writing # {w})
    /\ UNCHANGED <<registry, rows, capDrawer, adminDrawer, deleting, writeCount>>

\* Delete closes the dialogue, whichever it is by now, empties it and reloads.
DeleteAnswered(w) ==
    /\ Answer(w, "delete")
    /\ deleting' = NoDialog
    /\ StartLoad
    /\ tangled' = (tangled \/ Loading \/ Writing # {w})
    /\ UNCHANGED <<registry, rows, capDrawer, adminDrawer, writeCount>>

\* Bind and unbind ask for the members of the drawer's tenant (of the click).
BindAnswered(w) ==
    /\ writes[w].op = "bind" /\ writes[w].stage = "done"
    /\ writes' = [writes EXCEPT ![w] = [NoWrite EXCEPT !.op = "members", !.tenant = writes[w].tenant]]
    /\ tangled' = (tangled \/ \E v \in Writing \ {w} :
                     writes[v].tenant = writes[w].tenant /\ writes[v].op \in {"bind", "members"})
    /\ UNCHANGED <<registry, rows, loads, capDrawer, adminDrawer, deleting, writeCount>>

MembersAnswered(w) ==
    LET q == writes[w] IN
    /\ Answer(w, "members")
    /\ rows' = [t \in DOMAIN rows |-> IF t = q.tenant THEN [rows[t] EXCEPT !.admins = q.got] ELSE rows[t]]
    /\ adminDrawer' = IF adminDrawer.tenant # q.tenant THEN adminDrawer
                      ELSE [adminDrawer EXCEPT !.row.admins = q.got]
    /\ UNCHANGED <<registry, loads, capDrawer, deleting, writeCount, tangled>>

\* Refused, or the answer was lost after the portal had done it.
WriteFails(w) ==
    /\ w \in Writing
    /\ writes' = [writes EXCEPT ![w] = NoWrite]
    /\ tangled' = (tangled \/ writes[w].stage = "done" \/ writes[w].op = "members")
    /\ UNCHANGED <<registry, rows, loads, capDrawer, adminDrawer, deleting, writeCount>>

RegistryInit ==
    /\ registry = [t \in OldTenants |-> [disabled |-> FALSE, caps |-> Services, admins |-> {}]]
    /\ rows = <<>>
    /\ loads = [l \in LoadSlots |-> IF l = CHOOSE k \in LoadSlots : TRUE
                                    THEN [stage |-> "list", seen |-> <<>>] ELSE NoLoad]
    /\ capDrawer = NoDrawer /\ adminDrawer = NoDrawer /\ deleting = NoDialog
    /\ writes = [w \in WriteSlots |-> NoWrite]
    /\ writeCount = 0
    /\ tangled = FALSE

RegistryNext ==
    \/ \E l \in LoadSlots : ReadTenants(l) \/ ReadMembers(l) \/ ShowRows(l) \/ LoadFails(l)
    \/ \E s \in Services : ToggleCapability(s)
    \/ \E a \in Admins : ChangeAdmin(a)
    \/ \E t \in AllTenants : ToggleTenant(t) \/ CreateTenant(t) \/ OpenDrawer(t) \/ OpenDelete(t) \/ TypeKey(t)
    \/ CloseDrawer \/ CancelDelete \/ ConfirmDelete
    \/ \E w \in WriteSlots : \/ Apply(w) \/ WriteFails(w) \/ CapAnswered(w) \/ ReloadAnswered(w)
                             \/ DeleteAnswered(w) \/ BindAnswered(w) \/ MembersAnswered(w)

RegistrySpec == RegistryInit /\ [][RegistryNext]_registryVars

(***************************************************************************)
(* Properties.                                                             *)
(***************************************************************************)
Table(f)  == DOMAIN f \subseteq AllTenants /\ \A t \in DOMAIN f : f[t] \in Row
Drawer(d) == d.tenant \in AllTenants \cup {NoTenant} /\ d.row \in Row

\* What each variable may hold.
RegistryTypeOK ==
    /\ Table(registry) /\ Table(rows)
    /\ \A l \in LoadSlots : loads[l].stage \in {"idle", "list", "members", "shown"} /\ Table(loads[l].seen)
    /\ Drawer(capDrawer) /\ Drawer(adminDrawer)
    /\ {deleting.tenant, deleting.echo} \subseteq AllTenants \cup {NoTenant} /\ deleting.typed \in BOOLEAN
    /\ \A w \in WriteSlots : writes[w].tenant \in AllTenants \cup {NoTenant} /\ writes[w].got \subseteq Admins
    /\ tangled \in BOOLEAN

\* When nothing is out, and no load met a write, no two writes of one switch and no
\* answer was lost: the table and the open drawer agree with the portal, however the
\* other answers were mixed, the drawers closed and opened on other tenants.
CopiesAgree ==
    Writing = {} /\ ~Loading /\ ~tangled =>
      /\ rows = registry
      /\ capDrawer.tenant \in Living => capDrawer.row.caps = registry[capDrawer.tenant].caps
      /\ adminDrawer.tenant \in Living => adminDrawer.row.admins = registry[adminDrawer.tenant].admins

\* "enter the tenant ID to confirm" (Tenant/List.tsx:597): a delete that is sent was
\* confirmed by typing the key of its tenant in the dialogue it was opened for.
DeleteIsTyped == \A w \in WriteSlots : writes[w].op = "delete" => writes[w].on

=============================================================================
