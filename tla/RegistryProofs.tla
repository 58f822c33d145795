---------------------------- MODULE RegistryProofs ----------------------------
(***************************************************************************)
(* Proofs about the platform's tenant list, for any tenants, capabilities, *)
(* administrators and any number of requests: what the requests are, and   *)
(* that the copies the page keeps agree with the portal.                   *)
(***************************************************************************)
EXTENDS TenantRegistry, TLAPS

-----------------------------------------------------------------------------
(* The tenant list.  A request is for a tenant of the table; the dialogue  *)
(* knows at each time whether its own key was typed.                       *)
WriteRecord ==
    [op : {"none", "cap", "disable", "bind", "create", "delete", "members"},
     tenant : AllTenants \cup {NoTenant}, arg : Services \cup Admins \cup {"-"},
     on : BOOLEAN, stage : {"out", "done"}, got : SUBSET Admins]

Dialogue == [tenant : AllTenants \cup {NoTenant}, echo : AllTenants \cup {NoTenant}, typed : BOOLEAN]

PortalInv ==
    /\ Table(registry)
    /\ writes \in [WriteSlots -> WriteRecord]
    /\ \A w \in WriteSlots : /\ writes[w].op = "cap" => writes[w].arg \in Services
                             /\ writes[w].op = "bind" => writes[w].arg \in Admins
                             /\ writes[w].op = "create" => writes[w].tenant \in AllTenants
                             /\ writes[w].op = "delete" => writes[w].on

LoadInv ==
    /\ DOMAIN loads = LoadSlots
    /\ \A l \in LoadSlots : loads[l].stage \in {"idle", "list", "members", "shown"} /\ Table(loads[l].seen)

CopyInv ==
    /\ Table(rows)
    /\ capDrawer \in [tenant : AllTenants \cup {NoTenant}, row : Row]
    /\ adminDrawer \in [tenant : AllTenants \cup {NoTenant}, row : Row]

DialogueInv ==
    /\ deleting \in Dialogue
    /\ ~Closed(deleting) => (deleting.typed <=> deleting.echo = deleting.tenant)

\* Portal, requests, copies and dialogue before the first load.
LEMMA RegistryStarts == RegistryInit => PortalInv /\ CopyInv /\ DialogueInv /\ LoadInv
<1> SUFFICES ASSUME RegistryInit PROVE PortalInv /\ CopyInv /\ DialogueInv /\ LoadInv
  OBVIOUS
<1>1. PortalInv
  BY DEF RegistryInit, PortalInv, Table, Row, NoWrite, WriteRecord, AllTenants
<1>2. CopyInv
  BY DEF RegistryInit, CopyInv, Table, NoDrawer, Row
<1>3. DialogueInv
  BY DEF RegistryInit, DialogueInv, NoDialog, Dialogue, Closed
<1>4. LoadInv
  BY DEF RegistryInit, LoadInv, NoLoad, Table
<1> QED
  BY <1>1, <1>2, <1>3, <1>4

(* What is sent keeps the shape of a request.                              *)
LEMMA ChangeSends ==
    ASSUME NEW op \in {"cap", "disable", "bind", "create", "delete"}, NEW t \in AllTenants,
           NEW arg \in Services \cup Admins \cup {"-"}, NEW on \in BOOLEAN,
           op = "cap" => arg \in Services, op = "bind" => arg \in Admins, op = "delete" => on,
           PortalInv, UNCHANGED registry, Change(op, t, arg, on)
    PROVE  PortalInv'
<1>1. PICK w \in WriteSlots :
        writes' = [writes EXCEPT ![w] =
                     [op |-> op, tenant |-> t, arg |-> arg, on |-> on, stage |-> "out", got |-> {}]]
  BY DEF Change, Call
<1> QED
  BY <1>1 DEF PortalInv, WriteRecord, Table

(* Whatever is applied leaves a registry.                                  *)
LEMMA AppliedIsTable ==
    ASSUME Table(registry), NEW q \in WriteRecord, Accepts(q),
           q.op = "cap" => q.arg \in Services, q.op = "bind" => q.arg \in Admins,
           q.op = "create" => q.tenant \in AllTenants
    PROVE  Table(Applied(q))
<1> USE DEF Table, Row, Living
<1>1. q.tenant \in AllTenants
  <2>1. CASE q.op = "create"
    BY <2>1
  <2>2. CASE q.op # "create"
    BY <2>2 DEF Accepts
  <2> QED
    BY <2>1, <2>2
<1>2. CASE q.op = "cap"
  <2>1. q.tenant \in Living /\ Applied(q) = [registry EXCEPT ![q.tenant].caps = Toggled(@, q.arg, q.on)]
    BY <1>2 DEF Accepts, Applied
  <2>2. Toggled(registry[q.tenant].caps, q.arg, q.on) \in SUBSET Services
    BY <1>2, <2>1 DEF Toggled
  <2> QED
    BY <2>1, <2>2
<1>3. CASE q.op = "disable"
  <2>1. q.tenant \in Living /\ Applied(q) = [registry EXCEPT ![q.tenant].disabled = q.on]
    BY <1>3 DEF Accepts, Applied
  <2> QED
    BY <2>1 DEF WriteRecord
<1>4. CASE q.op = "bind"
  <2>1. q.tenant \in Living /\ Applied(q) = [registry EXCEPT ![q.tenant].admins = Toggled(@, q.arg, q.on)]
    BY <1>4 DEF Accepts, Applied
  <2>2. Toggled(registry[q.tenant].admins, q.arg, q.on) \in SUBSET Admins
    BY <1>4, <2>1 DEF Toggled
  <2> QED
    BY <2>1, <2>2
<1>5. CASE q.op = "delete"
  BY <1>5 DEF Applied
<1>6. CASE q.op = "create"
  BY <1>1, <1>6 DEF Applied
<1>7. CASE q.op \in {"none", "members"}
  BY <1>7 DEF Applied
<1> QED
  BY <1>2, <1>3, <1>4, <1>5, <1>6, <1>7 DEF WriteRecord

(* The portal and the requests, over every step.                           *)
LEMMA PortalSteps ==
    PortalInv /\ CopyInv /\ DialogueInv /\ [RegistryNext]_registryVars => PortalInv'
<1> SUFFICES ASSUME PortalInv, CopyInv, DialogueInv, [RegistryNext]_registryVars PROVE PortalInv'
  OBVIOUS
<1>1. ASSUME UNCHANGED <<registry, writes>> PROVE PortalInv'
  BY <1>1 DEF PortalInv, Table, Row
<1>2. ASSUME NEW l \in LoadSlots, ReadTenants(l) \/ ReadMembers(l) \/ ShowRows(l) \/ LoadFails(l)
      PROVE  PortalInv'
  BY <1>1, <1>2 DEF ReadTenants, ReadMembers, ShowRows, LoadFails
<1>3. ASSUME NEW t \in AllTenants, OpenDrawer(t) \/ OpenDelete(t) \/ TypeKey(t) PROVE PortalInv'
  BY <1>1, <1>3 DEF OpenDrawer, OpenDelete, TypeKey
<1>4. CASE CloseDrawer \/ CancelDelete
  BY <1>1, <1>4 DEF CloseDrawer, CancelDelete
<1>5. ASSUME NEW s \in Services, ToggleCapability(s) PROVE PortalInv'
  BY <1>5, ChangeSends DEF ToggleCapability, Closed, CopyInv
<1>6. ASSUME NEW a \in Admins, ChangeAdmin(a) PROVE PortalInv'
  BY <1>6, ChangeSends DEF ChangeAdmin, Closed, CopyInv
<1>7. ASSUME NEW t \in AllTenants, ToggleTenant(t) \/ CreateTenant(t) PROVE PortalInv'
  BY <1>7, ChangeSends DEF ToggleTenant, CreateTenant
<1>8. CASE ConfirmDelete
  BY <1>8, ChangeSends DEF ConfirmDelete, DialogueInv, Dialogue, Closed
<1>9. ASSUME NEW w \in WriteSlots, Apply(w) PROVE PortalInv'
  <2>1. writes[w] \in WriteRecord /\ Table(registry')
    BY <1>9, AppliedIsTable DEF Apply, PortalInv
  <2>2. writes[w].op = "members" => writes[w].tenant \in Living
    BY <1>9 DEF Apply, Accepts
  <2> DEFINE got == IF writes[w].op = "members" THEN registry[writes[w].tenant].admins ELSE {}
  <2>3. got \in SUBSET Admins
    BY <2>2 DEF PortalInv, Table, Row, Living
  <2>4. writes' = [writes EXCEPT ![w].stage = "done", ![w].got = got]
    BY <1>9 DEF Apply
  <2> HIDE DEF got
  <2> QED
    BY <2>1, <2>3, <2>4 DEF PortalInv, WriteRecord
<1>10. ASSUME NEW w \in WriteSlots,
              WriteFails(w) \/ CapAnswered(w) \/ ReloadAnswered(w) \/ DeleteAnswered(w) \/ MembersAnswered(w)
       PROVE  PortalInv'
  <2>1. writes' = [writes EXCEPT ![w] = NoWrite] /\ registry' = registry
    BY <1>10 DEF WriteFails, CapAnswered, ReloadAnswered, DeleteAnswered, MembersAnswered, Answer
  <2>2. NoWrite \in WriteRecord /\ NoWrite.op = "none"
    BY DEF NoWrite, WriteRecord
  <2> QED
    BY <2>1, <2>2 DEF PortalInv
<1>11. ASSUME NEW w \in WriteSlots, BindAnswered(w) PROVE PortalInv'
  <2> DEFINE ask == [NoWrite EXCEPT !.op = "members", !.tenant = writes[w].tenant]
  <2>1. writes' = [writes EXCEPT ![w] = ask] /\ registry' = registry
    BY <1>11 DEF BindAnswered
  <2>2. ask \in WriteRecord /\ ask.op = "members"
    BY DEF NoWrite, WriteRecord, PortalInv
  <2> HIDE DEF ask
  <2> QED
    BY <2>1, <2>2 DEF PortalInv
<1>12. CASE UNCHANGED registryVars
  BY <1>1, <1>12 DEF registryVars
<1> QED
  BY <1>2, <1>3, <1>4, <1>5, <1>6, <1>7, <1>8, <1>9, <1>10, <1>11, <1>12 DEF RegistryNext

(* The loads of the table.                                                 *)
LEMMA LoadSteps == PortalInv /\ LoadInv /\ [RegistryNext]_registryVars => LoadInv'
<1> SUFFICES ASSUME PortalInv, LoadInv, [RegistryNext]_registryVars PROVE LoadInv'
  OBVIOUS
<1> USE DEF LoadInv
<1>1. ASSUME UNCHANGED loads PROVE LoadInv'
  BY <1>1 DEF Table, Row
<1>2. ASSUME NEW l \in LoadSlots, NEW v,
             v.stage \in {"idle", "list", "members", "shown"}, Table(v.seen), loads' = [loads EXCEPT ![l] = v]
      PROVE  LoadInv'
  BY <1>2 DEF Table, Row
<1>3. ASSUME StartLoad PROVE LoadInv'
  <2>1. Table([stage |-> "list", seen |-> <<>>].seen)
    BY DEF Table
  <2> QED
    BY <1>2, <1>3, <2>1 DEF StartLoad
<1>4. ASSUME NEW l \in LoadSlots, ReadTenants(l) PROVE LoadInv'
  <2> DEFINE seen == [t \in Living |-> [registry[t] EXCEPT !.admins = {}]]
  <2>1. Table(seen)
    BY DEF PortalInv, Table, Row, Living
  <2>2. loads' = [loads EXCEPT ![l] = [stage |-> "members", seen |-> seen]]
    BY <1>4 DEF ReadTenants
  <2> HIDE DEF seen
  <2> QED
    BY <1>2, <2>1, <2>2
<1>5. ASSUME NEW l \in LoadSlots, ReadMembers(l) PROVE LoadInv'
  <2>1. PICK missing \in SUBSET DOMAIN loads[l].seen :
          loads' = [loads EXCEPT ![l] =
             [stage |-> "shown",
              seen |-> [t \in DOMAIN loads[l].seen |->
                          [loads[l].seen[t] EXCEPT
                             !.admins = IF t \in Living \ missing THEN registry[t].admins ELSE {}]]]]
    BY <1>5 DEF ReadMembers
  <2> DEFINE seen == [t \in DOMAIN loads[l].seen |->
                        [loads[l].seen[t] EXCEPT
                           !.admins = IF t \in Living \ missing THEN registry[t].admins ELSE {}]]
  <2>2. \A t \in Living : registry[t].admins \in SUBSET Admins
    BY DEF PortalInv, Table, Row, Living
  <2>3. Table(loads[l].seen)
    OBVIOUS
  <2>4. Table(seen)
    BY <2>2, <2>3 DEF Table, Row
  <2> HIDE DEF seen
  <2> QED
    BY <1>2, <2>1, <2>4 DEF seen
<1>6. ASSUME NEW l \in LoadSlots, ShowRows(l) \/ LoadFails(l) PROVE LoadInv'
  <2>1. NoLoad.stage \in {"idle", "list", "members", "shown"} /\ Table(NoLoad.seen)
    BY DEF NoLoad, Table
  <2> QED
    BY <1>2, <1>6, <2>1 DEF ShowRows, LoadFails
<1>7. ASSUME NEW t \in AllTenants, OpenDrawer(t) \/ OpenDelete(t) \/ TypeKey(t) \/ ToggleTenant(t) \/ CreateTenant(t)
      PROVE  LoadInv'
  BY <1>1, <1>7 DEF OpenDrawer, OpenDelete, TypeKey, ToggleTenant, CreateTenant
<1>8. CASE CloseDrawer \/ CancelDelete \/ ConfirmDelete
  BY <1>1, <1>8 DEF CloseDrawer, CancelDelete, ConfirmDelete
<1>9. ASSUME NEW s \in Services, ToggleCapability(s) PROVE LoadInv'
  BY <1>1, <1>9 DEF ToggleCapability
<1>10. ASSUME NEW a \in Admins, ChangeAdmin(a) PROVE LoadInv'
  BY <1>1, <1>10 DEF ChangeAdmin
<1>11. ASSUME NEW w \in WriteSlots,
              Apply(w) \/ WriteFails(w) \/ CapAnswered(w) \/ BindAnswered(w) \/ MembersAnswered(w)
       PROVE  LoadInv'
  BY <1>1, <1>11 DEF Apply, WriteFails, CapAnswered, BindAnswered, MembersAnswered
<1>12. ASSUME NEW w \in WriteSlots, ReloadAnswered(w) \/ DeleteAnswered(w) PROVE LoadInv'
  BY <1>3, <1>12 DEF ReloadAnswered, DeleteAnswered
<1>13. CASE UNCHANGED registryVars
  BY <1>1, <1>13 DEF registryVars
<1> HIDE DEF LoadInv
<1> QED
  BY <1>4, <1>5, <1>6, <1>7, <1>8, <1>9, <1>10, <1>11, <1>12, <1>13 DEF RegistryNext

(* The copies the page keeps: rows and drawers.                            *)
LEMMA CopySteps == PortalInv /\ LoadInv /\ CopyInv /\ [RegistryNext]_registryVars => CopyInv'
<1> SUFFICES ASSUME PortalInv, LoadInv, CopyInv, [RegistryNext]_registryVars PROVE CopyInv'
  OBVIOUS
<1> USE DEF CopyInv
<1>1. ASSUME UNCHANGED <<rows, capDrawer, adminDrawer>> PROVE CopyInv'
  BY <1>1 DEF Table, Row
<1>2. ASSUME NEW l \in LoadSlots, ReadTenants(l) \/ ReadMembers(l) \/ LoadFails(l) PROVE CopyInv'
  BY <1>1, <1>2 DEF ReadTenants, ReadMembers, LoadFails
<1>3. ASSUME NEW l \in LoadSlots, ShowRows(l) PROVE CopyInv'
  BY <1>3 DEF ShowRows, LoadInv, Table, Row
<1>4. ASSUME NEW t \in AllTenants, OpenDrawer(t) PROVE CopyInv'
  <2>1. rows' = rows /\ Table(rows)'
    BY <1>4 DEF OpenDrawer, Table, Row
  <2>2. Drawn(t) \in [tenant : AllTenants \cup {NoTenant}, row : Row]
    BY <1>4 DEF OpenDrawer, Drawn, Table
  <2> QED
    BY <1>4, <2>1, <2>2 DEF OpenDrawer
<1>5. CASE CloseDrawer
  BY <1>5 DEF CloseDrawer, NoDrawer, Row, Table
<1>6. ASSUME NEW t \in AllTenants, OpenDelete(t) \/ TypeKey(t) \/ ToggleTenant(t) \/ CreateTenant(t)
      PROVE  CopyInv'
  BY <1>1, <1>6 DEF OpenDelete, TypeKey, ToggleTenant, CreateTenant
<1>7. CASE CancelDelete \/ ConfirmDelete
  BY <1>1, <1>7 DEF CancelDelete, ConfirmDelete
<1>8. ASSUME NEW s \in Services, ToggleCapability(s) PROVE CopyInv'
  BY <1>1, <1>8 DEF ToggleCapability
<1>9. ASSUME NEW a \in Admins, ChangeAdmin(a) PROVE CopyInv'
  BY <1>1, <1>9 DEF ChangeAdmin
<1>10. ASSUME NEW w \in WriteSlots,
              Apply(w) \/ WriteFails(w) \/ ReloadAnswered(w) \/ DeleteAnswered(w) \/ BindAnswered(w)
       PROVE  CopyInv'
  BY <1>1, <1>10 DEF Apply, WriteFails, ReloadAnswered, DeleteAnswered, BindAnswered
<1>11. ASSUME NEW w \in WriteSlots, CapAnswered(w) PROVE CopyInv'
  <2>1. writes[w].op = "cap" /\ writes[w].arg \in Services
    BY <1>11 DEF CapAnswered, Answer, PortalInv
  <2> DEFINE T(S) == Toggled(S, writes[w].arg, writes[w].on)
  <2>2. \A S \in SUBSET Services : T(S) \in SUBSET Services
    BY <2>1 DEF Toggled
  <2> HIDE DEF T
  <2>3. Table(rows)'
    <3>1. rows' = [t \in DOMAIN rows |-> IF t = writes[w].tenant
                     THEN [rows[t] EXCEPT !.caps = T(rows[t].caps)] ELSE rows[t]]
      BY <1>11 DEF CapAnswered, T
    <3> QED
      BY <2>2, <3>1 DEF Table, Row
  <2>4. capDrawer' \in [tenant : AllTenants \cup {NoTenant}, row : Row]
    <3>1. capDrawer' = IF capDrawer.tenant # writes[w].tenant THEN capDrawer
                       ELSE [capDrawer EXCEPT !.row.caps = T(capDrawer.row.caps)]
      BY <1>11 DEF CapAnswered, T
    <3> QED
      BY <2>2, <3>1 DEF Row
  <2> QED
    BY <1>11, <2>3, <2>4 DEF CapAnswered
<1>12. ASSUME NEW w \in WriteSlots, MembersAnswered(w) PROVE CopyInv'
  <2>1. writes[w].got \in SUBSET Admins
    BY DEF PortalInv, WriteRecord
  <2>2. Table(rows)'
    BY <1>12, <2>1 DEF MembersAnswered, Table, Row
  <2>3. adminDrawer' \in [tenant : AllTenants \cup {NoTenant}, row : Row]
    BY <1>12, <2>1 DEF MembersAnswered, Row
  <2> QED
    BY <1>12, <2>2, <2>3 DEF MembersAnswered
<1>13. CASE UNCHANGED registryVars
  BY <1>1, <1>13 DEF registryVars
<1> HIDE DEF CopyInv
<1> QED
  BY <1>2, <1>3, <1>4, <1>5, <1>6, <1>7, <1>8, <1>9, <1>10, <1>11, <1>12, <1>13 DEF RegistryNext

(* The dialogue knows at each keystroke whether its own key stands there.  *)
LEMMA DialogueSteps == DialogueInv /\ [RegistryNext]_registryVars => DialogueInv'
<1> SUFFICES ASSUME DialogueInv, [RegistryNext]_registryVars PROVE DialogueInv'
  OBVIOUS
<1> USE DEF DialogueInv, Dialogue, Closed
<1>1. ASSUME UNCHANGED deleting PROVE DialogueInv'
  BY <1>1
<1>2. ASSUME NEW l \in LoadSlots, ReadTenants(l) \/ ReadMembers(l) \/ ShowRows(l) \/ LoadFails(l)
      PROVE  DialogueInv'
  BY <1>1, <1>2 DEF ReadTenants, ReadMembers, ShowRows, LoadFails
<1>3. ASSUME NEW t \in AllTenants, OpenDelete(t) PROVE DialogueInv'
  BY <1>3, RegistryAssumption DEF OpenDelete
<1>4. ASSUME NEW t \in AllTenants, TypeKey(t) PROVE DialogueInv'
  BY <1>4 DEF TypeKey
<1>5. CASE CancelDelete
  BY <1>5 DEF CancelDelete
<1>6. ASSUME NEW t \in AllTenants, OpenDrawer(t) \/ ToggleTenant(t) \/ CreateTenant(t) PROVE DialogueInv'
  BY <1>1, <1>6 DEF OpenDrawer, ToggleTenant, CreateTenant
<1>7. CASE CloseDrawer \/ ConfirmDelete
  BY <1>1, <1>7 DEF CloseDrawer, ConfirmDelete
<1>8. ASSUME NEW s \in Services, ToggleCapability(s) PROVE DialogueInv'
  BY <1>1, <1>8 DEF ToggleCapability
<1>9. ASSUME NEW a \in Admins, ChangeAdmin(a) PROVE DialogueInv'
  BY <1>1, <1>9 DEF ChangeAdmin
<1>10. ASSUME NEW w \in WriteSlots, DeleteAnswered(w) PROVE DialogueInv'
  BY <1>10 DEF DeleteAnswered, NoDialog
<1>11. ASSUME NEW w \in WriteSlots, Apply(w) \/ WriteFails(w) \/ CapAnswered(w) \/ ReloadAnswered(w)
                                    \/ BindAnswered(w) \/ MembersAnswered(w)
       PROVE  DialogueInv'
  BY <1>1, <1>11 DEF Apply, WriteFails, CapAnswered, ReloadAnswered, BindAnswered, MembersAnswered
<1>12. CASE UNCHANGED registryVars
  BY <1>1, <1>12 DEF registryVars
<1> HIDE DEF DialogueInv
<1> QED
  BY <1>2, <1>3, <1>4, <1>5, <1>6, <1>7, <1>8, <1>9, <1>10, <1>11, <1>12 DEF RegistryNext

(* No delete leaves the page whose tenant's key was not typed.             *)
THEOREM DeletesAreTyped == RegistrySpec => []DeleteIsTyped
<1>1. PortalInv => DeleteIsTyped
  BY DEF PortalInv, DeleteIsTyped
<1>2. PortalInv /\ LoadInv /\ CopyInv /\ DialogueInv /\ [RegistryNext]_registryVars
      => PortalInv' /\ LoadInv' /\ CopyInv' /\ DialogueInv'
  BY PortalSteps, LoadSteps, CopySteps, DialogueSteps
<1> QED
  BY <1>1, <1>2, RegistryStarts, PTL DEF RegistrySpec
-----------------------------------------------------------------------------
(* The copies agree.  What is under way for a tenant t, in the page's      *)
(* requests W: a request of this kind that the portal has done and the     *)
(* page not yet heard of.                                                  *)
Done(W, op, t)   == \E w \in WriteSlots : W[w].op = op /\ W[w].stage = "done" /\ W[w].tenant = t
CapDone(W, t, s) == \E w \in WriteSlots : /\ W[w].op = "cap" /\ W[w].stage = "done"
                                          /\ W[w].tenant = t /\ W[w].arg = s
AdminsDue(W, t)  == Done(W, "bind", t) \/ \E w \in WriteSlots : W[w].op = "members" /\ W[w].tenant = t

\* A copy of a tenant's capabilities or administrators is right, or will be put right.
CapsFit(W, R, t, S)   == \A s \in Services : (s \in S <=> s \in R[t].caps) \/ CapDone(W, t, s)
AdminsFit(W, R, t, S) == S = R[t].admins \/ AdminsDue(W, t)

\* No two requests for one switch are out.
CapsApart(W) ==
    \A v, w \in WriteSlots :
        (/\ W[v].op = "cap" /\ W[w].op = "cap"
         /\ W[v].tenant = W[w].tenant /\ W[v].arg = W[w].arg) => v = w

\* What a done request will bring to the page is what the portal R holds.
RequestsFit(W, R) ==
    \A w \in WriteSlots : (W[w].stage = "done" /\ W[w].tenant \in DOMAIN R) =>
        /\ W[w].op = "cap" => (W[w].arg \in R[W[w].tenant].caps <=> W[w].on)
        /\ W[w].op = "members" => (W[w].got = R[W[w].tenant].admins \/ Done(W, "bind", W[w].tenant))

\* Nothing on the page, and no other request, is about a tenant that is being created.
CreatesAlone(W, L, c, a, d) ==
    \A w \in WriteSlots : W[w].op = "create" =>
        /\ W[w].tenant \notin DOMAIN L \cup {c, a, d}
        /\ \A v \in WriteSlots \ {w} : W[v].tenant # W[w].tenant

\* The table L lists the portal's tenants, but for requests that reload it.
RowsListed(W, R, L) ==
    \A t \in AllTenants :
        /\ t \in DOMAIN R \ DOMAIN L => Done(W, "create", t)
        /\ t \in DOMAIN L \ DOMAIN R => Done(W, "delete", t)
        /\ t \in DOMAIN L \cap DOMAIN R => (L[t].disabled = R[t].disabled \/ Done(W, "disable", t))

\* So are the switches and administrators the table and the drawers c and a show.
CopiesFit(W, R, L, c, a) ==
    /\ \A t \in DOMAIN L \cap DOMAIN R : CapsFit(W, R, t, L[t].caps) /\ AdminsFit(W, R, t, L[t].admins)
    /\ c.tenant \in DOMAIN R => CapsFit(W, R, c.tenant, c.row.caps)
    /\ a.tenant \in DOMAIN R => AdminsFit(W, R, a.tenant, a.row.admins)

\* A load runs alone, with no request out, and has read what the portal holds.
LoadsFit ==
    \A l \in LoadSlots : loads[l] # NoLoad =>
        /\ \A w \in WriteSlots : writes[w] = NoWrite
        /\ \A k \in LoadSlots \ {l} : loads[k] = NoLoad
        /\ loads[l].stage = "members" => loads[l].seen = [t \in Living |-> [registry[t] EXCEPT !.admins = {}]]
        /\ loads[l].stage = "shown" => loads[l].seen = registry

PageFits ==
    /\ CopiesFit(writes, registry, rows, capDrawer, adminDrawer)
    /\ CapsApart(writes) /\ RequestsFit(writes, registry)
    /\ CreatesAlone(writes, rows, capDrawer.tenant, adminDrawer.tenant, deleting.tenant)

IsFunction(f) == f = [t \in DOMAIN f |-> f[t]]

FitInv ==
    ~tangled => /\ LoadsFit /\ PageFits /\ IsFunction(rows)
                /\ ~Loading => RowsListed(writes, registry, rows)

RegistryInv == PortalInv /\ LoadInv /\ CopyInv /\ DialogueInv /\ IsFunction(registry) /\ FitInv

\* Before the first load nothing is shown and nothing is out.
LEMMA FitStarts == RegistryInit => FitInv /\ IsFunction(registry)
<1> SUFFICES ASSUME RegistryInit PROVE FitInv /\ IsFunction(registry)
  OBVIOUS
<1>1. PICK l \in LoadSlots : loads = [k \in LoadSlots |-> IF k = l THEN [stage |-> "list", seen |-> <<>>] ELSE NoLoad]
  <2>1. (CHOOSE k \in LoadSlots : TRUE) \in LoadSlots
    BY RegistryAssumption
  <2> QED
    BY <2>1 DEF RegistryInit
<1>2. loads[l].stage = "list" /\ loads[l] # NoLoad
  BY <1>1 DEF NoLoad
<1>3. \A w \in WriteSlots : writes[w] = NoWrite /\ writes[w].op = "none" /\ writes[w].stage = "out"
  BY DEF RegistryInit, NoWrite
<1>4. LoadsFit /\ Loading
  BY <1>1, <1>2, <1>3 DEF LoadsFit, Loading
<1>5. DOMAIN rows = {} /\ IsFunction(rows)
  BY DEF RegistryInit, IsFunction
<1>6. capDrawer.tenant \notin DOMAIN registry /\ adminDrawer.tenant \notin DOMAIN registry
  BY RegistryAssumption DEF RegistryInit, NoDrawer, AllTenants
<1>7. PageFits
  BY <1>3, <1>5, <1>6 DEF PageFits, CopiesFit, CapsApart, RequestsFit, CreatesAlone
<1> QED
  BY <1>4, <1>5, <1>7 DEF FitInv, RegistryInit, IsFunction

(* Whatever is under way in W is under way in V.                           *)
DueGrows(W, V) ==
    \A t : /\ \A op : Done(W, op, t) => Done(V, op, t)
           /\ \A s : CapDone(W, t, s) => CapDone(V, t, s)
           /\ AdminsDue(W, t) => AdminsDue(V, t)

\* A slot that holds nothing done changes nothing that is under way.
LEMMA OutSlot ==
    ASSUME NEW W, NEW w \in WriteSlots, NEW r, W \in [WriteSlots -> WriteRecord],
           W[w].stage = "out", W[w].op # "members"
    PROVE  DueGrows(W, [W EXCEPT ![w] = r])
BY DEF DueGrows, Done, CapDone, AdminsDue

\* The copies fit as well when more is under way.
LEMMA FitsGrow ==
    ASSUME NEW W, NEW V, NEW R, NEW L, NEW c, NEW a, DueGrows(W, V)
    PROVE  /\ CopiesFit(W, R, L, c, a) => CopiesFit(V, R, L, c, a)
           /\ RowsListed(W, R, L) => RowsListed(V, R, L)
<1>1. \A t, S : CapsFit(W, R, t, S) => CapsFit(V, R, t, S)
  BY DEF CapsFit, DueGrows
<1>2. \A t, S : AdminsFit(W, R, t, S) => AdminsFit(V, R, t, S)
  BY DEF AdminsFit, DueGrows
<1>3. CopiesFit(W, R, L, c, a) => CopiesFit(V, R, L, c, a)
  BY <1>1, <1>2 DEF CopiesFit
<1>4. RowsListed(W, R, L) => RowsListed(V, R, L)
  BY DEF RowsListed, DueGrows
<1> QED
  BY <1>3, <1>4

(* A request that is sent: for a tenant the page shows, or for one it and  *)
(* the portal know nothing of.                                             *)
LEMMA CallFits ==
    ASSUME NEW op \in {"cap", "disable", "bind", "create", "delete"}, NEW t \in AllTenants,
           NEW arg, NEW on, RegistryInv,
           op # "create" => t \in DOMAIN rows \cup {capDrawer.tenant, adminDrawer.tenant, deleting.tenant},
           op = "create" => (/\ t \notin Living
                             /\ t \notin {capDrawer.tenant, adminDrawer.tenant, deleting.tenant}
                             /\ \A w \in Writing : writes[w].tenant # t),
           Call(op, t, arg, on), UNCHANGED <<registry, rows, loads, capDrawer, adminDrawer, deleting>>
    PROVE  FitInv'
<1> DEFINE r == [op |-> op, tenant |-> t, arg |-> arg, on |-> on, stage |-> "out", got |-> {}]
<1>1. PICK w \in WriteSlots : writes[w] = NoWrite /\ writes' = [writes EXCEPT ![w] = r]
  BY DEF Call
<1>2. r.op = op /\ r.tenant = t /\ r.arg = arg /\ r.stage = "out"
  OBVIOUS
<1> HIDE DEF r
<1> SUFFICES ASSUME ~tangled' PROVE FitInv'
  BY DEF FitInv
<1>3. ~tangled /\ ~Loading /\ \A v \in Writing : ~(writes[v].tenant = t /\ writes[v].arg = arg)
  BY DEF Call
<1>4. PageFits /\ IsFunction(rows) /\ RowsListed(writes, registry, rows)
  BY <1>3 DEF RegistryInv, FitInv
<1>5. writes \in [WriteSlots -> WriteRecord] /\ writes' \in [WriteSlots -> {writes[v] : v \in WriteSlots} \cup {r}]
  BY <1>1 DEF RegistryInv, PortalInv
<1>6. NoWrite.stage = "out" /\ NoWrite.op = "none" /\ NoWrite.tenant = NoTenant
  BY DEF NoWrite
<1>7. DueGrows(writes, writes')
  BY <1>1, <1>5, <1>6, OutSlot
<1>8. \A v \in WriteSlots \ {w} : writes'[v] = writes[v]
  BY <1>1, <1>5
<1>9. writes'[w] = r
  BY <1>1, <1>5
<1>10. CapsApart(writes)'
  <2>1. \A v \in WriteSlots : writes[v].op = "cap" => ~(writes[v].tenant = t /\ writes[v].arg = arg)
    BY <1>3, <1>6 DEF Writing
  <2> QED
    BY <1>2, <1>4, <1>8, <1>9, <2>1 DEF PageFits, CapsApart
<1>11. RequestsFit(writes, registry)'
  BY <1>2, <1>4, <1>7, <1>8, <1>9 DEF PageFits, RequestsFit, DueGrows
<1>12. \A v \in WriteSlots : writes[v].op = "create" => writes[v].tenant # t
  <2>1. CASE op = "create"
    BY <1>6, <2>1 DEF Writing
  <2>2. CASE op # "create"
    BY <1>4, <2>2 DEF PageFits, CreatesAlone
  <2> QED
    BY <2>1, <2>2
<1>13. op = "create" => (t \notin DOMAIN rows /\ \A v \in WriteSlots : writes[v].tenant # t)
  <2> SUFFICES ASSUME op = "create"
               PROVE  t \notin DOMAIN rows /\ \A v \in WriteSlots : writes[v].tenant # t
    OBVIOUS
  <2>1. \A v \in WriteSlots : writes[v].tenant # t
    BY <1>6, RegistryAssumption DEF Writing
  <2>2. ~Done(writes, "delete", t)
    BY <2>1 DEF Done
  <2> QED
    BY <1>4, <2>1, <2>2 DEF RowsListed, Living
<1>14. CreatesAlone(writes, rows, capDrawer.tenant, adminDrawer.tenant, deleting.tenant)'
  BY <1>2, <1>4, <1>8, <1>9, <1>12, <1>13 DEF PageFits, CreatesAlone
<1>15. CopiesFit(writes, registry, rows, capDrawer, adminDrawer)' /\ RowsListed(writes, registry, rows)'
  BY <1>4, <1>7, FitsGrow DEF PageFits
<1>16. LoadsFit'
  BY <1>3 DEF LoadsFit, Loading
<1> QED
  BY <1>4, <1>10, <1>11, <1>14, <1>15, <1>16 DEF FitInv, PageFits, IsFunction

(* Drawers and dialogue, opened on a row and closed.                       *)
LEMMA LooksFit ==
    ASSUME RegistryInv, UNCHANGED <<registry, rows, loads, writes, tangled>>,
           capDrawer' \in {capDrawer, NoDrawer} \cup {Drawn(t) : t \in DOMAIN rows},
           adminDrawer' \in {adminDrawer, NoDrawer} \cup {Drawn(t) : t \in DOMAIN rows},
           deleting'.tenant \in {deleting.tenant, NoTenant} \cup DOMAIN rows
    PROVE  FitInv'
<1> SUFFICES ASSUME ~tangled PROVE FitInv'
  BY DEF FitInv
<1>1. PageFits /\ LoadsFit /\ IsFunction(rows) /\ (~Loading => RowsListed(writes, registry, rows))
  BY DEF RegistryInv, FitInv
<1>2. NoDrawer.tenant = NoTenant /\ NoTenant \notin DOMAIN registry
  BY RegistryAssumption DEF NoDrawer, RegistryInv, PortalInv, Table
<1>3. \A t \in DOMAIN rows : Drawn(t).tenant = t /\ Drawn(t).row = rows[t]
  BY DEF Drawn
<1>4. CopiesFit(writes, registry, rows, capDrawer, adminDrawer)'
  BY <1>1, <1>2, <1>3 DEF PageFits, CopiesFit
<1>5. \A w \in WriteSlots : writes[w].op = "create" => writes[w].tenant # NoTenant
  BY RegistryAssumption DEF RegistryInv, PortalInv
<1>6. CreatesAlone(writes, rows, capDrawer.tenant, adminDrawer.tenant, deleting.tenant)'
  BY <1>1, <1>2, <1>3, <1>5 DEF PageFits, CreatesAlone
<1>7. LoadsFit'
  BY <1>1 DEF LoadsFit, Living
<1> QED
  BY <1>1, <1>4, <1>6, <1>7 DEF FitInv, PageFits, Loading, IsFunction

(* A request that failed without having been done.                         *)
LEMMA FailFits == ASSUME RegistryInv, NEW w \in WriteSlots, WriteFails(w) PROVE FitInv'
<1> SUFFICES ASSUME ~tangled' PROVE FitInv'
  BY DEF FitInv
<1>1. /\ ~tangled /\ writes[w].stage # "done" /\ writes[w].op # "members" /\ writes[w] # NoWrite
      /\ writes' = [writes EXCEPT ![w] = NoWrite]
      /\ UNCHANGED <<registry, rows, loads, capDrawer, adminDrawer, deleting>>
  BY DEF WriteFails, Writing
<1>2. writes \in [WriteSlots -> WriteRecord] /\ writes[w].stage = "out"
  BY <1>1 DEF RegistryInv, PortalInv, WriteRecord
<1>3. PageFits /\ LoadsFit /\ IsFunction(rows) /\ (~Loading => RowsListed(writes, registry, rows))
  BY <1>1 DEF RegistryInv, FitInv
<1>4. DueGrows(writes, writes')
  BY <1>1, <1>2, OutSlot
<1>5. NoWrite.stage = "out" /\ NoWrite.op = "none"
  BY DEF NoWrite
<1>6. \A v \in WriteSlots \ {w} : writes'[v] = writes[v]
  BY <1>1, <1>2
<1>7. writes'[w] = NoWrite
  BY <1>1, <1>2
<1>8. CapsApart(writes)'
  BY <1>3, <1>5, <1>6, <1>7 DEF PageFits, CapsApart
<1>12. CreatesAlone(writes, rows, capDrawer.tenant, adminDrawer.tenant, deleting.tenant)'
  <2>1. ASSUME NEW v \in WriteSlots, writes'[v].op = "create"
        PROVE  /\ v # w /\ writes'[v] = writes[v]
               /\ writes[v].tenant \notin DOMAIN rows \cup {capDrawer.tenant, adminDrawer.tenant, deleting.tenant}
               /\ \A u \in WriteSlots \ {v} : writes[u].tenant # writes[v].tenant
    BY <1>3, <1>5, <1>6, <1>7, <2>1 DEF PageFits, CreatesAlone
  <2>2. ASSUME NEW v \in WriteSlots, writes'[v].op = "create" PROVE writes[v].tenant # NoTenant
    BY <2>1, <2>2, RegistryAssumption DEF RegistryInv, PortalInv
  <2>3. NoWrite.tenant = NoTenant
    BY DEF NoWrite
  <2> QED
    BY <1>1, <1>6, <1>7, <2>1, <2>2, <2>3 DEF CreatesAlone
<1>9. RequestsFit(writes, registry)'
  BY <1>1, <1>3, <1>4, <1>5, <1>6, <1>7 DEF PageFits, RequestsFit, DueGrows
<1>10. CopiesFit(writes, registry, rows, capDrawer, adminDrawer)' /\ (~Loading => RowsListed(writes, registry, rows)')
  BY <1>1, <1>3, <1>4, FitsGrow DEF PageFits
<1>11. LoadsFit'
  BY <1>1, <1>3 DEF LoadsFit
<1> QED
  BY <1>1, <1>3, <1>8, <1>9, <1>10, <1>11, <1>12 DEF FitInv, PageFits, Loading, IsFunction

(* A load reads the portal while nothing else is under way, so that what   *)
(* it shows is the portal's.                                               *)
LEMMA LoadsStayFit ==
    ASSUME RegistryInv, NEW l \in LoadSlots, ReadTenants(l) \/ ReadMembers(l) \/ ShowRows(l) \/ LoadFails(l)
    PROVE  FitInv'
<1> SUFFICES ASSUME ~tangled' PROVE FitInv'
  BY DEF FitInv
<1>1. ~tangled /\ ~LoadFails(l)
  <2>1. ~LoadFails(l)
    BY DEF LoadFails
  <2>2. ReadTenants(l) \/ ReadMembers(l) \/ ShowRows(l) => ~tangled
    BY DEF ReadTenants, ReadMembers, ShowRows
  <2> QED
    BY <2>1, <2>2
<1>2. PageFits /\ LoadsFit /\ IsFunction(rows)
  BY <1>1 DEF RegistryInv, FitInv
<1>3. DOMAIN loads = LoadSlots /\ Table(registry) /\ IsFunction(registry)
  BY DEF RegistryInv, LoadInv, PortalInv
<1>4. loads[l].stage # "idle" /\ loads[l] # NoLoad
  BY DEF ReadTenants, ReadMembers, ShowRows, LoadFails, NoLoad
<1>5. /\ \A w \in WriteSlots : writes[w] = NoWrite
      /\ \A k \in LoadSlots \ {l} : loads[k] = NoLoad
  BY <1>2, <1>4 DEF LoadsFit
<1>6. UNCHANGED <<registry, writes, capDrawer, adminDrawer, deleting>>
  BY DEF ReadTenants, ReadMembers, ShowRows, LoadFails
<1>7. NoWrite.stage = "out" /\ NoWrite.op = "none" /\ NoLoad.stage = "idle"
  BY DEF NoWrite, NoLoad
<1>8. ASSUME loads'[l].stage \in {"members", "shown"}, \A k \in LoadSlots \ {l} : loads'[k] = loads[k],
             rows' = rows,
             loads'[l].stage = "members" => loads'[l].seen = [t \in Living |-> [registry[t] EXCEPT !.admins = {}]],
             loads'[l].stage = "shown" => loads'[l].seen = registry
      PROVE  FitInv'
  <2>1. \A k \in LoadSlots \ {l} : loads'[k] = NoLoad
    BY <1>5, <1>8
  <2>2. loads'[l] # NoLoad
    BY <1>7, <1>8
  <2>3. Loading'
    BY <2>1, <2>2 DEF Loading
  <2>4. LoadsFit'
    BY <1>5, <1>6, <1>8, <2>1 DEF LoadsFit, Living
  <2>5. PageFits' /\ IsFunction(rows)'
    BY <1>2, <1>6, <1>8 DEF PageFits, IsFunction
  <2> QED
    BY <2>3, <2>4, <2>5 DEF FitInv
<1>9. CASE ReadTenants(l)
  <2> DEFINE seen == [t \in Living |-> [registry[t] EXCEPT !.admins = {}]]
  <2>1. loads' = [loads EXCEPT ![l] = [stage |-> "members", seen |-> seen]] /\ rows' = rows
    BY <1>9 DEF ReadTenants
  <2> HIDE DEF seen
  <2>2. /\ loads'[l].stage = "members" /\ loads'[l].seen = seen
        /\ \A k \in LoadSlots \ {l} : loads'[k] = loads[k]
    BY <1>3, <2>1
  <2> QED
    BY <1>8, <2>1, <2>2 DEF seen
<1>10. CASE ReadMembers(l)
  <2>1. loads[l].seen = [t \in Living |-> [registry[t] EXCEPT !.admins = {}]]
    BY <1>2, <1>4, <1>10 DEF ReadMembers, LoadsFit
  <2> DEFINE full == [t \in DOMAIN loads[l].seen |->
                        [loads[l].seen[t] EXCEPT !.admins = IF t \in Living \ {} THEN registry[t].admins ELSE {}]]
             v    == [stage |-> "shown", seen |-> full]
  <2>2. loads' = [loads EXCEPT ![l] = v] /\ rows' = rows
    BY <1>10 DEF ReadMembers
  <2>3. full = registry
    <3>1. \A t \in Living : [[registry[t] EXCEPT !.admins = {}] EXCEPT !.admins = registry[t].admins] = registry[t]
      BY <1>3 DEF Table, Row, Living
    <3>2. full = [t \in Living |-> [[registry[t] EXCEPT !.admins = {}] EXCEPT !.admins = registry[t].admins]]
      BY <2>1
    <3>3. full = [t \in Living |-> registry[t]]
      BY <3>1, <3>2
    <3> QED
      BY <1>3, <3>3 DEF IsFunction, Living
  <2> HIDE DEF full
  <2>4. /\ loads'[l].stage = "shown" /\ loads'[l].seen = full
        /\ \A k \in LoadSlots \ {l} : loads'[k] = loads[k]
    BY <1>3, <2>2
  <2> QED
    BY <1>8, <2>2, <2>3, <2>4
<1>11. CASE ShowRows(l)
  <2>1. rows' = registry /\ loads' = [loads EXCEPT ![l] = NoLoad]
    BY <1>2, <1>4, <1>11 DEF ShowRows, LoadsFit
  <2>2. \A k \in LoadSlots : loads'[k] = NoLoad
    BY <1>3, <1>5, <2>1
  <2>3. LoadsFit'
    BY <2>2 DEF LoadsFit
  <2>4. IsFunction(rows)' /\ RowsListed(writes, registry, rows)'
    BY <1>3, <1>6, <2>1 DEF IsFunction, RowsListed
  <2>5. CopiesFit(writes, registry, rows, capDrawer, adminDrawer)'
    BY <1>2, <1>6, <2>1 DEF PageFits, CopiesFit, CapsFit, AdminsFit
  <2>6. PageFits'
    BY <1>2, <1>5, <1>6, <1>7, <2>5 DEF PageFits, CreatesAlone
  <2> QED
    BY <2>3, <2>4, <2>6 DEF FitInv
<1> QED
  BY <1>1, <1>9, <1>10, <1>11

(* What the portal's handlers change of its registry, and what they leave. *)
LEMMA AppliedChanges ==
    ASSUME NEW q \in WriteRecord, Table(registry), IsFunction(registry), Accepts(q)
    PROVE  /\ IsFunction(Applied(q))
           /\ \A t \in DOMAIN Applied(q) \ Living : q.op = "create" /\ t = q.tenant
           /\ \A t \in Living \ DOMAIN Applied(q) : q.op = "delete" /\ t = q.tenant
           /\ \A t \in Living \cap DOMAIN Applied(q) :
                 /\ Applied(q)[t].disabled = registry[t].disabled \/ (q.op = "disable" /\ t = q.tenant)
                 /\ Applied(q)[t].admins = registry[t].admins \/ (q.op = "bind" /\ t = q.tenant)
                 /\ \A s : \/ s \in Applied(q)[t].caps <=> s \in registry[t].caps
                           \/ q.op = "cap" /\ t = q.tenant /\ s = q.arg
           /\ q.op = "cap" => (q.arg \in Applied(q)[q.tenant].caps <=> q.on)
<1> USE DEF Living
<1>1. CASE q.op = "cap"
  <2>1. q.tenant \in Living /\ Applied(q) = [registry EXCEPT ![q.tenant].caps = Toggled(@, q.arg, q.on)]
    BY <1>1 DEF Accepts, Applied
  <2> DEFINE new == Toggled(registry[q.tenant].caps, q.arg, q.on)
  <2>2. /\ q.arg \in new <=> q.on
        /\ \A s : s # q.arg => (s \in new <=> s \in registry[q.tenant].caps)
    BY DEF Toggled, WriteRecord
  <2> HIDE DEF new
  <2>3. /\ DOMAIN Applied(q) = Living
        /\ \A t \in Living \ {q.tenant} : Applied(q)[t] = registry[t]
        /\ Applied(q)[q.tenant] = [registry[q.tenant] EXCEPT !.caps = new]
    BY <2>1 DEF new
  <2>4. /\ Applied(q)[q.tenant].caps = new
        /\ Applied(q)[q.tenant].disabled = registry[q.tenant].disabled
        /\ Applied(q)[q.tenant].admins = registry[q.tenant].admins
    BY <2>1, <2>3 DEF Table, Row
  <2>5. IsFunction(Applied(q))
    BY <2>1 DEF IsFunction
  <2> QED
    BY <1>1, <2>2, <2>3, <2>4, <2>5
<1>2. CASE q.op = "disable"
  <2>1. q.tenant \in Living /\ Applied(q) = [registry EXCEPT ![q.tenant].disabled = q.on]
    BY <1>2 DEF Accepts, Applied
  <2>2. /\ DOMAIN Applied(q) = Living
        /\ \A t \in Living \ {q.tenant} : Applied(q)[t] = registry[t]
        /\ Applied(q)[q.tenant] = [registry[q.tenant] EXCEPT !.disabled = q.on]
    BY <2>1
  <2>3. /\ Applied(q)[q.tenant].caps = registry[q.tenant].caps
        /\ Applied(q)[q.tenant].admins = registry[q.tenant].admins
    BY <2>1, <2>2 DEF Table, Row
  <2>4. IsFunction(Applied(q))
    BY <2>1 DEF IsFunction
  <2> QED
    BY <1>2, <2>2, <2>3, <2>4
<1>3. CASE q.op = "bind"
  <2>1. q.tenant \in Living /\ Applied(q) = [registry EXCEPT ![q.tenant].admins = Toggled(@, q.arg, q.on)]
    BY <1>3 DEF Accepts, Applied
  <2> DEFINE new == Toggled(registry[q.tenant].admins, q.arg, q.on)
  <2>2. /\ DOMAIN Applied(q) = Living
        /\ \A t \in Living \ {q.tenant} : Applied(q)[t] = registry[t]
        /\ Applied(q)[q.tenant] = [registry[q.tenant] EXCEPT !.admins = new]
    BY <2>1
  <2> HIDE DEF new
  <2>3. /\ Applied(q)[q.tenant].caps = registry[q.tenant].caps
        /\ Applied(q)[q.tenant].disabled = registry[q.tenant].disabled
    BY <2>1, <2>2 DEF Table, Row
  <2>4. IsFunction(Applied(q))
    BY <2>1 DEF IsFunction
  <2> QED
    BY <1>3, <2>2, <2>3, <2>4
<1>4. CASE q.op = "delete"
  <2>1. Applied(q) = [u \in Living \ {q.tenant} |-> registry[u]]
    BY <1>4 DEF Applied
  <2> QED
    BY <1>4, <2>1 DEF IsFunction
<1>5. CASE q.op = "create"
  <2>1. /\ q.tenant \notin Living
        /\ Applied(q) = [u \in Living \cup {q.tenant} |->
                           IF u = q.tenant THEN [disabled |-> FALSE, caps |-> Services, admins |-> {}]
                           ELSE registry[u]]
    BY <1>5 DEF Accepts, Applied
  <2>2. DOMAIN Applied(q) = Living \cup {q.tenant} /\ \A t \in Living : Applied(q)[t] = registry[t]
    BY <2>1
  <2>3. IsFunction(Applied(q))
    BY <2>1 DEF IsFunction
  <2> QED
    BY <1>5, <2>2, <2>3
<1>6. CASE q.op \in {"none", "members"}
  <2>1. Applied(q) = registry
    BY <1>6 DEF Applied
  <2> QED
    BY <1>6, <2>1
<1> QED
  BY <1>1, <1>2, <1>3, <1>4, <1>5, <1>6 DEF WriteRecord

(* A request is done at the portal: what it changed is under way to the    *)
(* page from now on.                                                       *)
LEMMA ApplyFits == ASSUME RegistryInv, NEW w \in WriteSlots, Apply(w) PROVE FitInv'
<1> SUFFICES ASSUME ~tangled' PROVE FitInv'
  BY DEF FitInv
<1> DEFINE q   == writes[w]
           got == IF writes[w].op = "members" THEN registry[writes[w].tenant].admins ELSE {}
<1>1. /\ ~tangled /\ ~Loading /\ q.stage = "out" /\ Accepts(q) /\ q # NoWrite
      /\ registry' = Applied(q) /\ UNCHANGED <<rows, loads, capDrawer, adminDrawer, deleting>>
      /\ writes' = [writes EXCEPT ![w].stage = "done", ![w].got = got]
  BY DEF Apply, Writing
<1>2. writes \in [WriteSlots -> WriteRecord] /\ q \in WriteRecord /\ IsFunction(registry) /\ Table(registry)
  BY DEF RegistryInv, PortalInv
<1>3. /\ PageFits /\ IsFunction(rows) /\ RowsListed(writes, registry, rows)
  BY <1>1 DEF RegistryInv, FitInv
<1> HIDE DEF got
<1>4. /\ writes'[w].op = q.op /\ writes'[w].tenant = q.tenant /\ writes'[w].arg = q.arg
      /\ writes'[w].on = q.on /\ writes'[w].stage = "done" /\ writes'[w].got = got
  BY <1>1, <1>2 DEF WriteRecord
<1>5. \A v \in WriteSlots \ {w} : writes'[v] = writes[v]
  BY <1>1, <1>2
<1>6. /\ \A t \in DOMAIN registry' \ Living : q.op = "create" /\ t = q.tenant
      /\ \A t \in Living \ DOMAIN registry' : q.op = "delete" /\ t = q.tenant
      /\ \A t \in Living \cap DOMAIN registry' :
            /\ registry'[t].disabled = registry[t].disabled \/ (q.op = "disable" /\ t = q.tenant)
            /\ registry'[t].admins = registry[t].admins \/ (q.op = "bind" /\ t = q.tenant)
            /\ \A s : \/ s \in registry'[t].caps <=> s \in registry[t].caps
                      \/ q.op = "cap" /\ t = q.tenant /\ s = q.arg
      /\ q.op = "cap" => (q.arg \in registry'[q.tenant].caps <=> q.on)
  BY <1>1, <1>2, AppliedChanges
<1>7. DueGrows(writes, writes')
  <2>1. \A v \in WriteSlots : /\ writes'[v].op = writes[v].op /\ writes'[v].tenant = writes[v].tenant
                              /\ writes'[v].arg = writes[v].arg
                              /\ writes[v].stage = "done" => writes'[v].stage = "done"
    BY <1>4, <1>5
  <2> QED
    BY <2>1 DEF DueGrows, Done, CapDone, AdminsDue
<1>8. /\ Done(writes', q.op, q.tenant)
      /\ q.op = "cap" => CapDone(writes', q.tenant, q.arg)
      /\ q.op = "bind" => AdminsDue(writes', q.tenant)
  BY <1>4 DEF Done, CapDone, AdminsDue
<1>9. q.op = "create" => /\ q.tenant \notin DOMAIN rows \cup {capDrawer.tenant, adminDrawer.tenant, deleting.tenant}
                         /\ \A v \in WriteSlots \ {w} : writes[v].tenant # q.tenant
  BY <1>3 DEF PageFits, CreatesAlone
<1> HIDE DEF q
<1>10. RowsListed(writes, registry, rows)'
  <2> SUFFICES ASSUME NEW t \in AllTenants
               PROVE  /\ t \in DOMAIN registry' \ DOMAIN rows => Done(writes', "create", t)
                      /\ t \in DOMAIN rows \ DOMAIN registry' => Done(writes', "delete", t)
                      /\ t \in DOMAIN rows \cap DOMAIN registry' =>
                            (rows[t].disabled = registry'[t].disabled \/ Done(writes', "disable", t))
    BY <1>1 DEF RowsListed
  <2>1. /\ t \in DOMAIN registry \ DOMAIN rows => Done(writes', "create", t)
        /\ t \in DOMAIN rows \ DOMAIN registry => Done(writes', "delete", t)
        /\ t \in DOMAIN rows \cap DOMAIN registry =>
              (rows[t].disabled = registry[t].disabled \/ Done(writes', "disable", t))
    BY <1>3, <1>7 DEF RowsListed, DueGrows
  <2>2. t \in DOMAIN registry' \ DOMAIN rows => Done(writes', "create", t)
    BY <1>6, <1>8, <2>1 DEF Living
  <2>3. t \in DOMAIN rows \ DOMAIN registry' => Done(writes', "delete", t)
    BY <1>6, <1>8, <2>1 DEF Living
  <2>4. t \in DOMAIN rows \cap DOMAIN registry' =>
              (rows[t].disabled = registry'[t].disabled \/ Done(writes', "disable", t))
    BY <1>6, <1>8, <1>9, <2>1 DEF Living
  <2> QED
    BY <2>2, <2>3, <2>4
<1>11. ASSUME NEW t \in Living \cap DOMAIN registry', NEW S
       PROVE  /\ CapsFit(writes, registry, t, S) => CapsFit(writes', registry', t, S)
              /\ AdminsFit(writes, registry, t, S) => AdminsFit(writes', registry', t, S)
  <2>1. \A s \in Services : \/ s \in registry'[t].caps <=> s \in registry[t].caps
                            \/ CapDone(writes', t, s)
    BY <1>6, <1>8
  <2>2. CapsFit(writes, registry, t, S) => CapsFit(writes', registry', t, S)
    BY <1>7, <2>1 DEF CapsFit, DueGrows
  <2>3. registry'[t].admins = registry[t].admins \/ AdminsDue(writes', t)
    BY <1>6, <1>8
  <2>4. AdminsFit(writes, registry, t, S) => AdminsFit(writes', registry', t, S)
    BY <1>7, <2>3 DEF AdminsFit, DueGrows
  <2> QED
    BY <2>2, <2>4
<1>12. CopiesFit(writes, registry, rows, capDrawer, adminDrawer)'
  <2>1. CopiesFit(writes, registry, rows, capDrawer, adminDrawer)
    BY <1>3 DEF PageFits
  <2>2. \A t \in DOMAIN rows \cup {capDrawer.tenant, adminDrawer.tenant} :
           t \in DOMAIN registry' => t \in Living
    BY <1>6, <1>9
  <2>3. \A t \in DOMAIN rows \cap DOMAIN registry' :
           CapsFit(writes', registry', t, rows[t].caps) /\ AdminsFit(writes', registry', t, rows[t].admins)
    BY <1>11, <2>1, <2>2 DEF CopiesFit, Living
  <2>4. capDrawer.tenant \in DOMAIN registry' => CapsFit(writes', registry', capDrawer.tenant, capDrawer.row.caps)
    BY <1>11, <2>1, <2>2 DEF CopiesFit, Living
  <2>5. adminDrawer.tenant \in DOMAIN registry' =>
           AdminsFit(writes', registry', adminDrawer.tenant, adminDrawer.row.admins)
    BY <1>11, <2>1, <2>2 DEF CopiesFit, Living
  <2> QED
    BY <1>1, <2>3, <2>4, <2>5 DEF CopiesFit
<1>13. CapsApart(writes)'
  BY <1>3, <1>4, <1>5 DEF PageFits, CapsApart, q
<1>14. CreatesAlone(writes, rows, capDrawer.tenant, adminDrawer.tenant, deleting.tenant)'
  <2>1. \A v \in WriteSlots : writes'[v].op = writes[v].op /\ writes'[v].tenant = writes[v].tenant
    BY <1>4, <1>5 DEF q
  <2>2. CreatesAlone(writes, rows, capDrawer.tenant, adminDrawer.tenant, deleting.tenant)
    BY <1>3 DEF PageFits
  <2>3. CreatesAlone(writes', rows, capDrawer.tenant, adminDrawer.tenant, deleting.tenant)
    BY <2>1, <2>2 DEF CreatesAlone
  <2> QED
    BY <1>1, <2>3 DEF CreatesAlone
<1>15. RequestsFit(writes, registry)'
  <2> SUFFICES ASSUME NEW v \in WriteSlots, writes'[v].stage = "done", writes'[v].tenant \in DOMAIN registry'
               PROVE  /\ writes'[v].op = "cap" => (writes'[v].arg \in registry'[writes'[v].tenant].caps <=> writes'[v].on)
                      /\ writes'[v].op = "members" => \/ writes'[v].got = registry'[writes'[v].tenant].admins
                                                      \/ Done(writes', "bind", writes'[v].tenant)
    BY DEF RequestsFit
  <2>1. CASE v = w
    <3>1. q.op = "members" => got = registry'[q.tenant].admins
      <4> SUFFICES ASSUME q.op = "members" PROVE got = registry'[q.tenant].admins
        OBVIOUS
      <4>1. q.tenant \in Living /\ got = registry[q.tenant].admins
        BY <1>1 DEF Accepts, got, q
      <4>2. q.tenant \in DOMAIN registry'
        BY <1>4, <2>1
      <4> QED
        BY <1>6, <4>1, <4>2
    <3> QED
      BY <1>4, <1>6, <2>1, <3>1
  <2>2. CASE v # w
    <3>1. writes'[v] = writes[v] /\ writes[v].stage = "done"
      BY <1>5, <2>2
    <3>2. writes[v].tenant \in Living
      BY <1>6, <1>9, <2>2, <3>1
    <3>3. /\ writes[v].op = "cap" => (writes[v].arg \in registry[writes[v].tenant].caps <=> writes[v].on)
          /\ writes[v].op = "members" => \/ writes[v].got = registry[writes[v].tenant].admins
                                         \/ Done(writes, "bind", writes[v].tenant)
      BY <1>3, <3>1, <3>2 DEF PageFits, RequestsFit, Living
    <3>4. writes[v].op = "cap" =>
             (writes[v].arg \in registry'[writes[v].tenant].caps <=> writes[v].arg \in registry[writes[v].tenant].caps)
      <4>1. writes[v].op = "cap" =>
               ~(q.op = "cap" /\ writes[v].tenant = q.tenant /\ writes[v].arg = q.arg)
        BY <1>3, <2>2 DEF PageFits, CapsApart, q
      <4> QED
        BY <1>6, <3>1, <3>2, <4>1
    <3>5. registry'[writes[v].tenant].admins = registry[writes[v].tenant].admins \/ Done(writes', "bind", writes[v].tenant)
      BY <1>6, <1>8, <3>1, <3>2
    <3> QED
      BY <1>7, <3>1, <3>3, <3>4, <3>5 DEF DueGrows
  <2> QED
    BY <2>1, <2>2
<1>16. LoadsFit'
  BY <1>1 DEF LoadsFit, Loading
<1> QED
  BY <1>1, <1>3, <1>10, <1>12, <1>13, <1>14, <1>15, <1>16 DEF FitInv, PageFits, IsFunction

(* An answer takes its request from the slot: whatever else is under way   *)
(* stays, and the requests that remain fit as they did.                    *)
LEMMA AnswerLeaves ==
    ASSUME NEW w \in WriteSlots, writes \in [WriteSlots -> WriteRecord],
           writes[w].op \in {"cap", "members"}, writes' = [writes EXCEPT ![w] = NoWrite],
           \A v \in WriteSlots : writes[v].op = "create" => writes[v].tenant \in AllTenants,
           CapsApart(writes), RequestsFit(writes, registry),
           CreatesAlone(writes, rows, capDrawer.tenant, adminDrawer.tenant, deleting.tenant)
    PROVE  /\ \A t, op : op \notin {"cap", "members"} => (Done(writes, op, t) => Done(writes', op, t))
           /\ \A t, s : CapDone(writes, t, s) =>
                 \/ CapDone(writes', t, s)
                 \/ writes[w].op = "cap" /\ t = writes[w].tenant /\ s = writes[w].arg
           /\ \A t : AdminsDue(writes, t) =>
                 AdminsDue(writes', t) \/ (writes[w].op = "members" /\ t = writes[w].tenant)
           /\ CapsApart(writes') /\ RequestsFit(writes', registry)
           /\ CreatesAlone(writes', rows, capDrawer.tenant, adminDrawer.tenant, deleting.tenant)
<1>1. NoWrite.op = "none" /\ NoWrite.stage = "out" /\ NoWrite.tenant = NoTenant
  BY DEF NoWrite
<1>2. writes'[w] = NoWrite /\ \A v \in WriteSlots \ {w} : writes'[v] = writes[v]
  OBVIOUS
<1>3. \A t, op : op \notin {"cap", "members"} => (Done(writes, op, t) => Done(writes', op, t))
  BY <1>2 DEF Done
<1>4. \A t, s : CapDone(writes, t, s) =>
         \/ CapDone(writes', t, s)
         \/ writes[w].op = "cap" /\ t = writes[w].tenant /\ s = writes[w].arg
  BY <1>2 DEF CapDone
<1>5. \A t : AdminsDue(writes, t) =>
         AdminsDue(writes', t) \/ (writes[w].op = "members" /\ t = writes[w].tenant)
  BY <1>2 DEF AdminsDue, Done
<1>6. CapsApart(writes')
  BY <1>1, <1>2 DEF CapsApart
<1>7. RequestsFit(writes', registry)
  BY <1>1, <1>2, <1>3 DEF RequestsFit
<1>8. CreatesAlone(writes', rows, capDrawer.tenant, adminDrawer.tenant, deleting.tenant)
  <2>1. ASSUME NEW v \in WriteSlots, writes'[v].op = "create"
        PROVE  /\ v # w /\ writes'[v] = writes[v]
               /\ writes[v].tenant \notin DOMAIN rows \cup {capDrawer.tenant, adminDrawer.tenant, deleting.tenant}
               /\ \A u \in WriteSlots \ {v} : writes[u].tenant # writes[v].tenant
    BY <1>1, <1>2, <2>1 DEF CreatesAlone
  <2>2. ASSUME NEW v \in WriteSlots, writes'[v].op = "create" PROVE writes[v].tenant # NoTenant
    BY <2>1, <2>2, RegistryAssumption
  <2> QED
    BY <1>1, <1>2, <2>1, <2>2 DEF CreatesAlone
<1> QED
  BY <1>3, <1>4, <1>5, <1>6, <1>7, <1>8

(* A switch that was answered stands where the portal has it, in the row   *)
(* and in its tenant's drawer.                                             *)
LEMMA CapAnswerFits == ASSUME RegistryInv, NEW w \in WriteSlots, CapAnswered(w) PROVE FitInv'
<1> SUFFICES ASSUME ~tangled' PROVE FitInv'
  BY DEF FitInv
<1> DEFINE q == writes[w]
           T(S) == Toggled(S, q.arg, q.on)
<1>1. /\ ~tangled /\ q.op = "cap" /\ q.stage = "done" /\ writes' = [writes EXCEPT ![w] = NoWrite]
      /\ UNCHANGED <<registry, loads, adminDrawer, deleting>>
      /\ rows' = [t \in DOMAIN rows |-> IF t = q.tenant THEN [rows[t] EXCEPT !.caps = T(rows[t].caps)] ELSE rows[t]]
      /\ capDrawer' = IF capDrawer.tenant # q.tenant THEN capDrawer
                      ELSE [capDrawer EXCEPT !.row.caps = T(capDrawer.row.caps)]
  BY DEF CapAnswered, Answer
<1>2. writes \in [WriteSlots -> WriteRecord] /\ q \in WriteRecord
  BY DEF RegistryInv, PortalInv
<1>3. PageFits /\ LoadsFit /\ (~Loading => RowsListed(writes, registry, rows))
  BY <1>1 DEF RegistryInv, FitInv
<1>4. \A v \in WriteSlots : writes[v].op = "create" => writes[v].tenant \in AllTenants
  BY DEF RegistryInv, PortalInv
<1>5. ~Loading
  <2>1. q # NoWrite
    BY <1>1 DEF NoWrite
  <2> QED
    BY <1>3, <2>1 DEF LoadsFit, Loading
<1>6. /\ \A t, op : op \notin {"cap", "members"} => (Done(writes, op, t) => Done(writes', op, t))
      /\ \A t, s : CapDone(writes, t, s) => CapDone(writes', t, s) \/ (t = q.tenant /\ s = q.arg)
      /\ \A t : AdminsDue(writes, t) => AdminsDue(writes', t)
      /\ CapsApart(writes') /\ RequestsFit(writes', registry)
      /\ CreatesAlone(writes', rows, capDrawer.tenant, adminDrawer.tenant, deleting.tenant)
  BY <1>1, <1>2, <1>3, <1>4, AnswerLeaves DEF PageFits
<1>7. q.tenant \in Living => (q.arg \in registry[q.tenant].caps <=> q.on)
  BY <1>1, <1>3 DEF PageFits, RequestsFit, Living
<1>8. \A S, s : s \in T(S) <=> IF s = q.arg THEN q.on ELSE s \in S
  BY <1>2 DEF Toggled, WriteRecord
<1> HIDE DEF T, q
<1>9. /\ DOMAIN rows' = DOMAIN rows /\ IsFunction(rows')
      /\ \A t \in DOMAIN rows : /\ rows'[t].disabled = rows[t].disabled /\ rows'[t].admins = rows[t].admins
                                /\ rows'[t].caps = IF t = q.tenant THEN T(rows[t].caps) ELSE rows[t].caps
  <2>1. \A t \in DOMAIN rows : rows[t] \in Row
    BY DEF RegistryInv, CopyInv, Table
  <2>2. DOMAIN rows' = DOMAIN rows /\ IsFunction(rows')
    BY <1>1 DEF IsFunction
  <2>3. \A t \in DOMAIN rows : rows'[t] = IF t = q.tenant THEN [rows[t] EXCEPT !.caps = T(rows[t].caps)] ELSE rows[t]
    BY <1>1
  <2> QED
    BY <2>1, <2>2, <2>3 DEF Row
<1>10. /\ capDrawer'.tenant = capDrawer.tenant
       /\ capDrawer'.row.caps = IF capDrawer.tenant = q.tenant THEN T(capDrawer.row.caps) ELSE capDrawer.row.caps
  BY <1>1 DEF RegistryInv, CopyInv, Row
<1>11. ASSUME NEW t \in Living, NEW S, CapsFit(writes, registry, t, S)
       PROVE  CapsFit(writes', registry, t, IF t = q.tenant THEN T(S) ELSE S)
  BY <1>6, <1>7, <1>8, <1>11 DEF CapsFit
<1>12. \A t, S : AdminsFit(writes, registry, t, S) => AdminsFit(writes', registry, t, S)
  BY <1>6 DEF AdminsFit
<1>13. CopiesFit(writes, registry, rows, capDrawer, adminDrawer)'
  <2>1. CopiesFit(writes, registry, rows, capDrawer, adminDrawer)
    BY <1>3 DEF PageFits
  <2>2. \A t \in DOMAIN rows \cap Living : CapsFit(writes', registry, t, rows'[t].caps)
    BY <1>9, <1>11, <2>1 DEF CopiesFit, Living
  <2>3. \A t \in DOMAIN rows \cap Living : AdminsFit(writes', registry, t, rows'[t].admins)
    BY <1>9, <1>12, <2>1 DEF CopiesFit, Living
  <2>4. capDrawer.tenant \in Living => CapsFit(writes', registry, capDrawer.tenant, capDrawer'.row.caps)
    BY <1>10, <1>11, <2>1 DEF CopiesFit, Living
  <2>5. adminDrawer.tenant \in Living => AdminsFit(writes', registry, adminDrawer.tenant, adminDrawer.row.admins)
    BY <1>12, <2>1 DEF CopiesFit, Living
  <2> QED
    BY <1>1, <1>9, <1>10, <2>2, <2>3, <2>4, <2>5 DEF CopiesFit, Living
<1>14. RowsListed(writes, registry, rows)'
  BY <1>1, <1>3, <1>5, <1>6, <1>9 DEF RowsListed
<1>15. CreatesAlone(writes, rows, capDrawer.tenant, adminDrawer.tenant, deleting.tenant)'
  BY <1>1, <1>6, <1>9, <1>10 DEF CreatesAlone
<1>16. LoadsFit'
  BY <1>1, <1>5 DEF LoadsFit, Loading
<1> QED
  BY <1>1, <1>6, <1>9, <1>13, <1>14, <1>15, <1>16 DEF FitInv, PageFits

(* The members that were answered are the tenant's, or will be asked for   *)
(* again.                                                                  *)
LEMMA MembersAnswerFits == ASSUME RegistryInv, NEW w \in WriteSlots, MembersAnswered(w) PROVE FitInv'
<1> SUFFICES ASSUME ~tangled' PROVE FitInv'
  BY DEF FitInv
<1> DEFINE q == writes[w]
<1>1. /\ ~tangled /\ q.op = "members" /\ q.stage = "done" /\ writes' = [writes EXCEPT ![w] = NoWrite]
      /\ UNCHANGED <<registry, loads, capDrawer, deleting>>
      /\ rows' = [t \in DOMAIN rows |-> IF t = q.tenant THEN [rows[t] EXCEPT !.admins = q.got] ELSE rows[t]]
      /\ adminDrawer' = IF adminDrawer.tenant # q.tenant THEN adminDrawer
                        ELSE [adminDrawer EXCEPT !.row.admins = q.got]
  BY DEF MembersAnswered, Answer
<1>2. writes \in [WriteSlots -> WriteRecord] /\ q \in WriteRecord
  BY DEF RegistryInv, PortalInv
<1>3. PageFits /\ LoadsFit /\ (~Loading => RowsListed(writes, registry, rows))
  BY <1>1 DEF RegistryInv, FitInv
<1>4. \A v \in WriteSlots : writes[v].op = "create" => writes[v].tenant \in AllTenants
  BY DEF RegistryInv, PortalInv
<1>5. ~Loading
  <2>1. q # NoWrite
    BY <1>1 DEF NoWrite
  <2> QED
    BY <1>3, <2>1 DEF LoadsFit, Loading
<1>6. /\ \A t, op : op \notin {"cap", "members"} => (Done(writes, op, t) => Done(writes', op, t))
      /\ \A t, s : CapDone(writes, t, s) => CapDone(writes', t, s)
      /\ \A t : AdminsDue(writes, t) => AdminsDue(writes', t) \/ t = q.tenant
      /\ CapsApart(writes') /\ RequestsFit(writes', registry)
      /\ CreatesAlone(writes', rows, capDrawer.tenant, adminDrawer.tenant, deleting.tenant)
  BY <1>1, <1>2, <1>3, <1>4, AnswerLeaves DEF PageFits
<1>7. q.tenant \in Living => (q.got = registry[q.tenant].admins \/ Done(writes', "bind", q.tenant))
  BY <1>1, <1>3, <1>6 DEF PageFits, RequestsFit, Living
<1> HIDE DEF q
<1>8. /\ DOMAIN rows' = DOMAIN rows /\ IsFunction(rows')
      /\ \A t \in DOMAIN rows : /\ rows'[t].disabled = rows[t].disabled /\ rows'[t].caps = rows[t].caps
                                /\ rows'[t].admins = IF t = q.tenant THEN q.got ELSE rows[t].admins
  <2>1. \A t \in DOMAIN rows : rows[t] \in Row
    BY DEF RegistryInv, CopyInv, Table
  <2>2. DOMAIN rows' = DOMAIN rows /\ IsFunction(rows')
    BY <1>1 DEF IsFunction
  <2>3. \A t \in DOMAIN rows : rows'[t] = IF t = q.tenant THEN [rows[t] EXCEPT !.admins = q.got] ELSE rows[t]
    BY <1>1
  <2> QED
    BY <2>1, <2>2, <2>3 DEF Row
<1>9. /\ adminDrawer'.tenant = adminDrawer.tenant
      /\ adminDrawer'.row.admins = IF adminDrawer.tenant = q.tenant THEN q.got ELSE adminDrawer.row.admins
  BY <1>1 DEF RegistryInv, CopyInv, Row
<1>10. ASSUME NEW t \in Living, NEW S, AdminsFit(writes, registry, t, S)
       PROVE  AdminsFit(writes', registry, t, IF t = q.tenant THEN q.got ELSE S)
  <2>1. CASE t = q.tenant
    BY <1>7, <2>1 DEF AdminsFit, AdminsDue
  <2>2. CASE t # q.tenant
    BY <1>6, <1>10, <2>2 DEF AdminsFit
  <2> QED
    BY <2>1, <2>2
<1>11. \A t, S : CapsFit(writes, registry, t, S) => CapsFit(writes', registry, t, S)
  BY <1>6 DEF CapsFit
<1>12. CopiesFit(writes, registry, rows, capDrawer, adminDrawer)'
  <2>1. CopiesFit(writes, registry, rows, capDrawer, adminDrawer)
    BY <1>3 DEF PageFits
  <2>2. \A t \in DOMAIN rows \cap Living : CapsFit(writes', registry, t, rows'[t].caps)
    BY <1>8, <1>11, <2>1 DEF CopiesFit, Living
  <2>3. \A t \in DOMAIN rows \cap Living : AdminsFit(writes', registry, t, rows'[t].admins)
    BY <1>8, <1>10, <2>1 DEF CopiesFit, Living
  <2>4. capDrawer.tenant \in Living => CapsFit(writes', registry, capDrawer.tenant, capDrawer.row.caps)
    BY <1>11, <2>1 DEF CopiesFit, Living
  <2>5. adminDrawer.tenant \in Living => AdminsFit(writes', registry, adminDrawer.tenant, adminDrawer'.row.admins)
    BY <1>9, <1>10, <2>1 DEF CopiesFit, Living
  <2> QED
    BY <1>1, <1>8, <1>9, <2>2, <2>3, <2>4, <2>5 DEF CopiesFit, Living
<1>13. RowsListed(writes, registry, rows)'
  BY <1>1, <1>3, <1>5, <1>6, <1>8 DEF RowsListed
<1>14. CreatesAlone(writes, rows, capDrawer.tenant, adminDrawer.tenant, deleting.tenant)'
  BY <1>1, <1>6, <1>8, <1>9 DEF CreatesAlone
<1>15. LoadsFit'
  BY <1>1, <1>5 DEF LoadsFit, Loading
<1> QED
  BY <1>1, <1>6, <1>8, <1>12, <1>13, <1>14, <1>15 DEF FitInv, PageFits

(* A binding that was answered asks for its tenant's members: they stay    *)
(* due.                                                                    *)
LEMMA BindAnswerFits == ASSUME RegistryInv, NEW w \in WriteSlots, BindAnswered(w) PROVE FitInv'
<1> SUFFICES ASSUME ~tangled' PROVE FitInv'
  BY DEF FitInv
<1> DEFINE q   == writes[w]
           ask == [NoWrite EXCEPT !.op = "members", !.tenant = q.tenant]
<1>1. /\ ~tangled /\ q.op = "bind" /\ q.stage = "done" /\ writes' = [writes EXCEPT ![w] = ask]
      /\ UNCHANGED <<registry, rows, loads, capDrawer, adminDrawer, deleting>>
      /\ \A v \in Writing \ {w} : ~(writes[v].tenant = q.tenant /\ writes[v].op \in {"bind", "members"})
  BY DEF BindAnswered
<1>2. writes \in [WriteSlots -> WriteRecord]
  BY DEF RegistryInv, PortalInv
<1>3. PageFits /\ LoadsFit /\ IsFunction(rows) /\ (~Loading => RowsListed(writes, registry, rows))
  BY <1>1 DEF RegistryInv, FitInv
<1>4. ask.op = "members" /\ ask.tenant = q.tenant /\ ask.stage = "out"
  BY DEF NoWrite
<1> HIDE DEF ask
<1>5. writes'[w] = ask /\ \A v \in WriteSlots \ {w} : writes'[v] = writes[v]
  BY <1>1, <1>2
<1>6. ~Loading
  <2>1. q # NoWrite
    BY <1>1 DEF NoWrite
  <2> QED
    BY <1>3, <2>1 DEF LoadsFit, Loading
<1>7. \A t, op : (Done(writes, op, t) /\ (op = "bind" => t # q.tenant)) => Done(writes', op, t)
  BY <1>1, <1>5 DEF Done
<1>8. \A t, s : CapDone(writes, t, s) => CapDone(writes', t, s)
  BY <1>1, <1>5 DEF CapDone
<1>9. AdminsDue(writes', q.tenant)
  BY <1>4, <1>5 DEF AdminsDue
<1>10. \A t : AdminsDue(writes, t) => AdminsDue(writes', t)
  <2> SUFFICES ASSUME NEW t, t # q.tenant, AdminsDue(writes, t) PROVE AdminsDue(writes', t)
    BY <1>9
  <2>1. CASE Done(writes, "bind", t)
    BY <1>7, <2>1 DEF AdminsDue
  <2>2. ASSUME NEW v \in WriteSlots, writes[v].op = "members", writes[v].tenant = t PROVE AdminsDue(writes', t)
    BY <1>5, <2>2 DEF AdminsDue
  <2> QED
    BY <2>1, <2>2 DEF AdminsDue
<1>11. CopiesFit(writes, registry, rows, capDrawer, adminDrawer)'
  <2>1. CopiesFit(writes, registry, rows, capDrawer, adminDrawer)
    BY <1>3 DEF PageFits
  <2>2. \A t, S : CapsFit(writes, registry, t, S) => CapsFit(writes', registry, t, S)
    BY <1>8 DEF CapsFit
  <2>3. \A t, S : AdminsFit(writes, registry, t, S) => AdminsFit(writes', registry, t, S)
    BY <1>10 DEF AdminsFit
  <2> QED
    BY <1>1, <2>1, <2>2, <2>3 DEF CopiesFit
<1>12. RowsListed(writes, registry, rows)'
  BY <1>1, <1>3, <1>6, <1>7 DEF RowsListed
<1>13. CapsApart(writes)'
  BY <1>3, <1>4, <1>5 DEF PageFits, CapsApart
<1>14. RequestsFit(writes, registry)'
  <2> SUFFICES ASSUME NEW v \in WriteSlots, writes'[v].stage = "done", writes'[v].tenant \in DOMAIN registry
               PROVE  /\ writes'[v].op = "cap" => (writes'[v].arg \in registry[writes'[v].tenant].caps <=> writes'[v].on)
                      /\ writes'[v].op = "members" => \/ writes'[v].got = registry[writes'[v].tenant].admins
                                                      \/ Done(writes', "bind", writes'[v].tenant)
    BY <1>1 DEF RequestsFit
  <2>1. v # w /\ writes'[v] = writes[v]
    BY <1>4, <1>5
  <2>2. writes[v].op = "members" => writes[v].tenant # q.tenant
    BY <1>1, <2>1 DEF Writing, NoWrite
  <2>3. /\ writes[v].op = "cap" => (writes[v].arg \in registry[writes[v].tenant].caps <=> writes[v].on)
        /\ writes[v].op = "members" => \/ writes[v].got = registry[writes[v].tenant].admins
                                       \/ Done(writes, "bind", writes[v].tenant)
    BY <1>3, <2>1 DEF PageFits, RequestsFit
  <2> QED
    BY <1>7, <2>1, <2>2, <2>3
<1>15. CreatesAlone(writes, rows, capDrawer.tenant, adminDrawer.tenant, deleting.tenant)'
  <2>1. CreatesAlone(writes, rows, capDrawer.tenant, adminDrawer.tenant, deleting.tenant)
    BY <1>3 DEF PageFits
  <2>2. \A v \in WriteSlots : writes'[v].tenant = writes[v].tenant /\ (writes'[v].op = "create" => writes[v].op = "create")
    BY <1>4, <1>5
  <2>3. CreatesAlone(writes', rows, capDrawer.tenant, adminDrawer.tenant, deleting.tenant)
    BY <2>1, <2>2 DEF CreatesAlone
  <2> QED
    BY <1>1, <2>3 DEF CreatesAlone
<1>16. LoadsFit'
  BY <1>1, <1>6 DEF LoadsFit, Loading
<1> QED
  BY <1>1, <1>3, <1>11, <1>12, <1>13, <1>14, <1>15, <1>16 DEF FitInv, PageFits, IsFunction

(* The answers that reload the table leave nothing under way but the load. *)
LEMMA ReloadsFit ==
    ASSUME RegistryInv, NEW w \in WriteSlots, ReloadAnswered(w) \/ DeleteAnswered(w)
    PROVE  FitInv'
<1> SUFFICES ASSUME ~tangled' PROVE FitInv'
  BY DEF FitInv
<1>1. /\ ~tangled /\ ~Loading /\ Writing = {w} /\ StartLoad
      /\ writes[w].op \in {"disable", "create", "delete"} /\ writes' = [writes EXCEPT ![w] = NoWrite]
      /\ UNCHANGED <<registry, rows, capDrawer, adminDrawer>>
  <2>1. CASE ReloadAnswered(w)
    BY <2>1 DEF ReloadAnswered, Answer
  <2>2. CASE DeleteAnswered(w)
    BY <2>2 DEF DeleteAnswered, Answer
  <2> QED
    BY <2>1, <2>2
<1>2. writes \in [WriteSlots -> WriteRecord] /\ DOMAIN loads = LoadSlots
  BY DEF RegistryInv, PortalInv, LoadInv
<1>3. PageFits /\ IsFunction(rows)
  BY <1>1 DEF RegistryInv, FitInv
<1>4. NoWrite.op = "none" /\ NoWrite.stage = "out" /\ NoLoad.stage = "idle"
  BY DEF NoWrite, NoLoad
<1>5. \A v \in WriteSlots : writes'[v] = NoWrite
  BY <1>1, <1>2 DEF Writing
<1>6. \A v \in WriteSlots \ {w} : writes[v] = NoWrite
  BY <1>1 DEF Writing
<1>7. PICK l \in LoadSlots : loads' = [loads EXCEPT ![l] = [stage |-> "list", seen |-> <<>>]]
  BY <1>1 DEF StartLoad
<1>8. loads'[l].stage = "list" /\ \A k \in LoadSlots \ {l} : loads'[k] = NoLoad
  BY <1>1, <1>2, <1>7 DEF Loading
<1>9. LoadsFit' /\ Loading'
  BY <1>4, <1>5, <1>8 DEF LoadsFit, Loading
<1>10. CopiesFit(writes, registry, rows, capDrawer, adminDrawer)'
  <2>1. CopiesFit(writes, registry, rows, capDrawer, adminDrawer)
    BY <1>3 DEF PageFits
  <2>2. \A t, s : ~CapDone(writes, t, s)
    BY <1>1, <1>4, <1>6 DEF CapDone
  <2>3. \A t : ~AdminsDue(writes, t)
    BY <1>1, <1>4, <1>6 DEF AdminsDue, Done
  <2>4. \A t, S : CapsFit(writes, registry, t, S) => CapsFit(writes', registry, t, S)
    BY <2>2 DEF CapsFit
  <2>5. \A t, S : AdminsFit(writes, registry, t, S) => AdminsFit(writes', registry, t, S)
    BY <2>3 DEF AdminsFit
  <2> QED
    BY <1>1, <2>1, <2>4, <2>5 DEF CopiesFit
<1>11. CapsApart(writes)' /\ RequestsFit(writes, registry)'
  BY <1>4, <1>5 DEF CapsApart, RequestsFit
<1>12. CreatesAlone(writes, rows, capDrawer.tenant, adminDrawer.tenant, deleting.tenant)'
  BY <1>4, <1>5 DEF CreatesAlone
<1> QED
  BY <1>1, <1>3, <1>9, <1>10, <1>11, <1>12 DEF FitInv, PageFits, IsFunction

(* Every step of the page and the portal.                                  *)
LEMMA FitSteps == RegistryInv /\ [RegistryNext]_registryVars => FitInv' /\ IsFunction(registry)'
<1> SUFFICES ASSUME RegistryInv, [RegistryNext]_registryVars PROVE FitInv' /\ IsFunction(registry)'
  OBVIOUS
<1>1. NoTenant \notin AllTenants /\ NewTenants \subseteq AllTenants
  BY RegistryAssumption DEF AllTenants
<1>2. /\ capDrawer \in [tenant : AllTenants \cup {NoTenant}, row : Row]
      /\ adminDrawer \in [tenant : AllTenants \cup {NoTenant}, row : Row]
      /\ deleting \in Dialogue /\ (~Closed(deleting) => (deleting.typed <=> deleting.echo = deleting.tenant))
  BY DEF RegistryInv, CopyInv, DialogueInv
<1>3. ASSUME NEW l \in LoadSlots, ReadTenants(l) \/ ReadMembers(l) \/ ShowRows(l) \/ LoadFails(l)
      PROVE  FitInv' /\ registry' = registry
  BY <1>3, LoadsStayFit DEF ReadTenants, ReadMembers, ShowRows, LoadFails
<1>4. ASSUME NEW s \in Services, ToggleCapability(s) PROVE FitInv' /\ registry' = registry
  <2>1. /\ capDrawer.tenant \in AllTenants
        /\ Call("cap", capDrawer.tenant, s, s \notin capDrawer.row.caps)
        /\ UNCHANGED <<registry, rows, loads, capDrawer, adminDrawer, deleting>>
    BY <1>2, <1>4 DEF ToggleCapability, Change, Closed
  <2> QED
    BY <2>1, CallFits
<1>5. ASSUME NEW a \in Admins, ChangeAdmin(a) PROVE FitInv' /\ registry' = registry
  <2>1. PICK on \in BOOLEAN : Change("bind", adminDrawer.tenant, a, on)
    BY <1>5 DEF ChangeAdmin
  <2>2. /\ adminDrawer.tenant \in AllTenants
        /\ Call("bind", adminDrawer.tenant, a, on)
        /\ UNCHANGED <<registry, rows, loads, capDrawer, adminDrawer, deleting>>
    BY <1>2, <1>5, <2>1 DEF ChangeAdmin, Change, Closed
  <2> QED
    BY <2>2, CallFits
<1>6. ASSUME NEW t \in AllTenants, ToggleTenant(t) PROVE FitInv' /\ registry' = registry
  <2>1. /\ t \in DOMAIN rows /\ Call("disable", t, "-", ~rows[t].disabled)
        /\ UNCHANGED <<registry, rows, loads, capDrawer, adminDrawer, deleting>>
    BY <1>6 DEF ToggleTenant, Change
  <2> QED
    BY <2>1, CallFits
<1>7. ASSUME NEW t \in AllTenants, CreateTenant(t) PROVE FitInv' /\ registry' = registry
  <2>1. /\ t \notin Living /\ t \notin {capDrawer.tenant, adminDrawer.tenant, deleting.tenant}
        /\ \A w \in Writing : writes[w].tenant # t
        /\ Call("create", t, "-", TRUE)
        /\ UNCHANGED <<registry, rows, loads, capDrawer, adminDrawer, deleting>>
    BY <1>1, <1>7 DEF CreateTenant, Change, Closed
  <2> QED
    BY <2>1, CallFits
<1>8. CASE ConfirmDelete
  <2>1. /\ deleting.tenant \in AllTenants
        /\ Call("delete", deleting.tenant, "-", deleting.typed)
        /\ UNCHANGED <<registry, rows, loads, capDrawer, adminDrawer, deleting>>
    BY <1>2, <1>8 DEF ConfirmDelete, Change, Closed, Dialogue
  <2>2. FitInv'
    BY <2>1, CallFits
  <2> QED
    BY <2>1, <2>2 DEF RegistryInv, IsFunction
<1>9. ASSUME NEW t \in AllTenants, OpenDrawer(t) PROVE FitInv' /\ registry' = registry
  BY <1>9, LooksFit DEF OpenDrawer
<1>10. ASSUME NEW t \in AllTenants, OpenDelete(t) PROVE FitInv' /\ registry' = registry
  BY <1>10, LooksFit DEF OpenDelete
<1>11. ASSUME NEW t \in AllTenants, TypeKey(t) PROVE FitInv' /\ registry' = registry
  <2>1. deleting'.tenant = deleting.tenant
    BY <1>2, <1>11 DEF TypeKey, Dialogue
  <2> QED
    BY <1>11, <2>1, LooksFit DEF TypeKey
<1>12. ASSUME CloseDrawer PROVE FitInv' /\ registry' = registry
  BY <1>12, LooksFit DEF CloseDrawer
<1>13. ASSUME CancelDelete PROVE FitInv' /\ registry' = registry
  <2>1. deleting'.tenant = NoTenant
    BY <1>2, <1>13 DEF CancelDelete, Dialogue
  <2> QED
    BY <1>13, <2>1, LooksFit DEF CancelDelete
<1>14. ASSUME NEW w \in WriteSlots, Apply(w) PROVE FitInv' /\ IsFunction(registry)'
  <2>1. writes[w] \in WriteRecord /\ Table(registry) /\ IsFunction(registry)
    BY DEF RegistryInv, PortalInv
  <2>2. IsFunction(Applied(writes[w])) /\ registry' = Applied(writes[w])
    BY <1>14, <2>1, AppliedChanges DEF Apply
  <2> QED
    BY <1>14, <2>2, ApplyFits
<1>15. ASSUME NEW w \in WriteSlots,
              WriteFails(w) \/ CapAnswered(w) \/ ReloadAnswered(w) \/ DeleteAnswered(w)
              \/ BindAnswered(w) \/ MembersAnswered(w)
       PROVE  FitInv' /\ registry' = registry
  <2>1. FitInv'
    BY <1>15, FailFits, CapAnswerFits, ReloadsFit, BindAnswerFits, MembersAnswerFits
  <2>2. registry' = registry
    BY <1>15 DEF WriteFails, CapAnswered, ReloadAnswered, DeleteAnswered, BindAnswered, MembersAnswered
  <2> QED
    BY <2>1, <2>2
<1>16. ASSUME UNCHANGED registryVars PROVE FitInv' /\ registry' = registry
  BY <1>16, LooksFit DEF registryVars
<1>17. registry' = registry => IsFunction(registry)'
  BY DEF RegistryInv, IsFunction
<1> QED
  BY <1>3, <1>4, <1>5, <1>6, <1>7, <1>8, <1>9, <1>10, <1>11, <1>12, <1>13, <1>14, <1>15, <1>16, <1>17
     DEF RegistryNext

(* When nothing is out, and no load met a write, no two writes of one      *)
(* switch and no answer was lost, the table shows the portal's tenants and *)
(* the drawers its switches and administrators: the page's three copies,   *)
(* brought up to date one by one in the order the answers come, agree.     *)
THEOREM CopiesAgreeWhenQuiet == RegistrySpec => []CopiesAgree
<1>1. RegistryInv => CopiesAgree
  <2> SUFFICES ASSUME RegistryInv, Writing = {}, ~Loading, ~tangled
               PROVE  /\ rows = registry
                      /\ capDrawer.tenant \in Living => capDrawer.row.caps = registry[capDrawer.tenant].caps
                      /\ adminDrawer.tenant \in Living => adminDrawer.row.admins = registry[adminDrawer.tenant].admins
    BY DEF CopiesAgree
  <2>1. \A w \in WriteSlots : writes[w].op = "none" /\ writes[w].stage = "out"
    BY DEF Writing, NoWrite
  <2>2. \A t : /\ \A op : ~Done(writes, op, t)
               /\ \A s : ~CapDone(writes, t, s)
               /\ ~AdminsDue(writes, t)
    BY <2>1 DEF Done, CapDone, AdminsDue
  <2>3. /\ CopiesFit(writes, registry, rows, capDrawer, adminDrawer)
        /\ RowsListed(writes, registry, rows) /\ IsFunction(rows) /\ IsFunction(registry)
    BY DEF RegistryInv, FitInv, PageFits
  <2>4. ASSUME NEW t \in Living, NEW S \in SUBSET Services, CapsFit(writes, registry, t, S)
        PROVE  S = registry[t].caps
    <3>1. registry[t].caps \in SUBSET Services
      BY DEF RegistryInv, PortalInv, Table, Row, Living
    <3> QED
      BY <2>2, <2>4, <3>1 DEF CapsFit
  <2>5. DOMAIN rows = DOMAIN registry
    BY <2>2, <2>3 DEF RowsListed, RegistryInv, PortalInv, CopyInv, Table
  <2>6. ASSUME NEW t \in DOMAIN rows PROVE rows[t] = registry[t]
    <3>1. rows[t] \in Row /\ registry[t] \in Row /\ t \in AllTenants /\ t \in Living
      BY <2>5 DEF RegistryInv, PortalInv, CopyInv, Table, Living
    <3>2. rows[t].caps = registry[t].caps
      BY <2>3, <2>4, <3>1 DEF CopiesFit, Row, Living
    <3>3. rows[t].admins = registry[t].admins
      BY <2>2, <2>3, <3>1 DEF CopiesFit, AdminsFit, Living
    <3>4. rows[t].disabled = registry[t].disabled
      BY <2>2, <2>3, <3>1 DEF RowsListed, Living
    <3> QED
      BY <3>1, <3>2, <3>3, <3>4 DEF Row
  <2>7. rows = registry
    BY <2>3, <2>5, <2>6 DEF IsFunction
  <2>8. capDrawer.tenant \in Living => capDrawer.row.caps = registry[capDrawer.tenant].caps
    BY <2>3, <2>4 DEF CopiesFit, Living, RegistryInv, CopyInv, Row
  <2>9. adminDrawer.tenant \in Living => adminDrawer.row.admins = registry[adminDrawer.tenant].admins
    BY <2>2, <2>3 DEF CopiesFit, AdminsFit, Living
  <2> QED
    BY <2>7, <2>8, <2>9
<1>2. RegistryInit => RegistryInv
  BY RegistryStarts, FitStarts DEF RegistryInv
<1>3. RegistryInv /\ [RegistryNext]_registryVars => RegistryInv'
  BY PortalSteps, LoadSteps, CopySteps, DialogueSteps, FitSteps DEF RegistryInv
<1> QED
  BY <1>1, <1>2, <1>3, PTL DEF RegistrySpec

=============================================================================
