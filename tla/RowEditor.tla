------------------------------ MODULE RowEditor ------------------------------
(***************************************************************************)
(* The pages that list rows and change one: an edit form opened on a row   *)
(* of the table (roles, permissions, permission groups, templates,         *)
(* policies), or a link of the row that writes at once (enable/disable of  *)
(* signatures, accounts, providers, users and keys, the replay of a        *)
(* bucket).  Both write what the table showed, whatever the service holds  *)
(* by then.                                                                *)
(*                                                                         *)
(* A value tells where it comes from: the row it was first written to or   *)
(* typed for, and how it got there.                                        *)
(***************************************************************************)
EXTENDS Integers, FiniteSets

CONSTANTS EditPages,    \* the pages a run looks at
          FirstIds,     \* the rows there are when the page opens
          NewIds,       \* the rows that may be created
          BuiltIn,      \* the rows marked built in, which cannot be deleted
          MaxSaves,     \* bound: update RPCs that run at once
          MaxMoves      \* bound: rows created, deleted, or written by another operator

VARIABLES editPage,   \* the page that is open
          rec,        \* the rows the service holds
          listed,     \* the rows as the table shows them
          form,       \* the edit form: the row it is open on, and its field store
          saves,      \* the update RPCs that are out
          moves       \* bound counter

editVars == <<editPage, rec, listed, form, saves, moves>>

Ids       == FirstIds \cup NewIds
NoRow     == "-"

\* A page sends fields it shows; its links write the row they stand in.
ASSUME EditAssumption ==
    /\ BuiltIn \subseteq FirstIds /\ MaxSaves \in Nat \ {0} /\ MaxMoves \in Nat
    /\ NoRow \notin Ids
    /\ \A p \in EditPages : p.sends \subseteq p.fields

SaveSlots == 1 .. MaxSaves
Val(r, how) == [of |-> r, how |-> how]

(***************************************************************************)
(* The pages.  fields: what a row shows and its form is filled with;       *)
(* sends: what the update RPC is given; keyed: does the form carry the     *)
(* row's id as its key, so that another row mounts a form of its own?      *)
(* quick: is there a link that writes without a form?  drops: the fields   *)
(* that leave the form, and are sent empty, when "channel" is changed.     *)
(* Fields that are filled and sent alike are one field, "name".            *)
(***************************************************************************)
FormPage(fields, sends, keyed, drops) ==
    [fields |-> fields, sends |-> sends, keyed |-> keyed, quick |-> FALSE, drops |-> drops]
LinkPage(fields, sends) ==
    [fields |-> fields, sends |-> sends, keyed |-> TRUE, quick |-> TRUE, drops |-> {}]

RolesPage            == FormPage({"name"}, {"name"}, FALSE, {})
PermissionGroupsPage == FormPage({"name"}, {"name"}, FALSE, {})
PermissionsPage      == FormPage({"name"}, {"name"}, FALSE, {})
TemplatesPage        == FormPage({"name"}, {"name"}, TRUE, {})
PoliciesPage         == FormPage({"channel", "intlRoutes"}, {"intlRoutes"}, TRUE, {"intlRoutes"})
SignaturesPage       == LinkPage({"name", "flag"}, {"flag"})
AccountsPage         == LinkPage({"name", "flag"}, {"flag"})
ProvidersPage        == LinkPage({"name", "flag"}, {"flag"})
UserListPage         == LinkPage({"name", "flag"}, {"flag"})
KeysPage             == LinkPage({"name", "flag"}, {"flag"})
CredentialsPage      == LinkPage({"name", "flag"}, {"flag"})
BucketsPage          == LinkPage({"acl", "cdn"}, {"acl", "cdn"})

Fields      == editPage.fields
Alive       == DOMAIN rec
NewRecord(r) == [f \in Fields |-> Val(r, IF f = "flag" THEN "on" ELSE "row")]
Flip(v)     == [v EXCEPT !.how = IF @ = "on" THEN "off" ELSE "on"]

NoSave == [row |-> NoRow, vals |-> <<>>, applied |-> FALSE]
NoForm == [row |-> NoRow, store |-> <<>>]

(***************************************************************************)
(* The table: a list request is answered, the toolbar's reload or the one  *)
(* that follows a write.                                                   *)
(***************************************************************************)
RowsArrive ==
    /\ listed # rec
    /\ listed' = rec
    /\ UNCHANGED <<editPage, rec, form, saves, moves>>

(***************************************************************************)
(* The edit form.  A form without a key keeps the values it was mounted    *)
(* with and what was typed since: initialValues fill a form only when it   *)
(* mounts (Profile/index.tsx:89 relies on that).                           *)
(***************************************************************************)
Filled(r)  == IF form.store = <<>> THEN listed[r] ELSE form.store

\* Slip: a form closed and opened on another row is the same form, key or no key.
CloseFormKept == form' = [form EXCEPT !.row = NoRow]

CloseForm == form' = [row |-> NoRow, store |-> IF editPage.keyed THEN <<>> ELSE form.store]

EditRow(r) ==
    /\ ~editPage.quick /\ form.row = NoRow
    /\ r \in DOMAIN listed
    /\ form' = [row |-> r, store |-> Filled(r)]
    /\ UNCHANGED <<editPage, rec, listed, saves, moves>>

TypeField(f) ==
    /\ form.row # NoRow
    /\ form' = [form EXCEPT !.store[f] = Val(form.row, "typed")]
    /\ UNCHANGED <<editPage, rec, listed, saves, moves>>

CancelEdit ==
    /\ form.row # NoRow
    /\ CloseForm
    /\ UNCHANGED <<editPage, rec, listed, saves, moves>>

Send(s, r, vals) ==
    /\ saves[s] = NoSave
    /\ saves' = [saves EXCEPT ![s] = [row |-> r, vals |-> vals, applied |-> FALSE]]
    /\ UNCHANGED <<editPage, rec, listed, form, moves>>

\* A submitted form sends all the RPC takes, the fields nobody touched too.
FormVals ==
    LET dropped == IF "channel" \in Fields /\ form.store["channel"].how = "typed"
                   THEN editPage.drops ELSE {}
    IN  [f \in editPage.sends |-> IF f \in dropped THEN Val(form.row, "none") ELSE form.store[f]]

SubmitEdit(s) ==
    /\ form.row # NoRow
    /\ \A t \in SaveSlots : saves[t].row # form.row    \* the button shows that it works
    /\ Send(s, form.row, FormVals)

\* The link of a row: its flag turned round, or the row as the table shows it.
QuickVals(r) ==
    [f \in editPage.sends |-> IF f = "flag" THEN Flip(listed[r][f]) ELSE listed[r][f]]

QuickSave(s, r) ==
    /\ editPage.quick
    /\ r \in DOMAIN listed
    /\ Send(s, r, QuickVals(r))

(***************************************************************************)
(* The service, which replaces what it is given, and the answers.          *)
(***************************************************************************)
Overwritten(row, vals) == [f \in DOMAIN row |-> IF f \in DOMAIN vals THEN vals[f] ELSE row[f]]

ApplySave(s) ==
    /\ saves[s] # NoSave /\ ~saves[s].applied
    /\ saves[s].row \in Alive
    /\ rec' = [rec EXCEPT ![saves[s].row] = Overwritten(@, saves[s].vals)]
    /\ saves' = [saves EXCEPT ![s].applied = TRUE]
    /\ UNCHANGED <<editPage, listed, form, moves>>

\* The answer closes the edit form, whichever row it is open on by now.
SaveDone(s) ==
    /\ saves[s].applied
    /\ saves' = [saves EXCEPT ![s] = NoSave]
    /\ IF editPage.quick THEN UNCHANGED form ELSE CloseForm
    /\ UNCHANGED <<editPage, rec, listed, moves>>

\* Refused, or the answer was lost: the form stays open, the table as it is.
SaveFails(s) ==
    /\ saves[s] # NoSave
    /\ saves' = [saves EXCEPT ![s] = NoSave]
    /\ UNCHANGED <<editPage, rec, listed, form, moves>>

Move == moves < MaxMoves /\ moves' = moves + 1

CreateRow(r) ==
    /\ r \in NewIds \ Alive
    /\ rec' = [x \in Alive \cup {r} |-> IF x = r THEN NewRecord(r) ELSE rec[x]]
    /\ Move
    /\ UNCHANGED <<editPage, listed, form, saves>>

DeleteRow(r) ==
    /\ form.row = NoRow
    /\ r \in (DOMAIN listed \cap Alive) \ BuiltIn
    /\ rec' = [x \in Alive \ {r} |-> rec[x]]
    /\ Move
    /\ UNCHANGED <<editPage, listed, form, saves>>

\* Another operator, in another browser.
OtherWrites(r, f) ==
    /\ r \in Alive
    /\ rec' = [rec EXCEPT ![r][f] = IF f = "flag" THEN Flip(@) ELSE Val(r, "other")]
    /\ Move
    /\ UNCHANGED <<editPage, listed, form, saves>>

EditInit ==
    /\ editPage \in EditPages
    /\ rec = [r \in FirstIds |-> NewRecord(r)]
    /\ listed = <<>>
    /\ form = NoForm
    /\ saves = [s \in SaveSlots |-> NoSave]
    /\ moves = 0

SaveStep(s) ==
    \/ SubmitEdit(s) \/ ApplySave(s) \/ SaveDone(s) \/ SaveFails(s)
    \/ \E r \in Ids : QuickSave(s, r)

EditNext ==
    \/ RowsArrive \/ CancelEdit
    \/ \E r \in Ids : EditRow(r) \/ CreateRow(r) \/ DeleteRow(r)
    \/ \E f \in Fields : TypeField(f) \/ \E r \in Ids : OtherWrites(r, f)
    \/ \E s \in SaveSlots : SaveStep(s)

EditSpec == EditInit /\ [][EditNext]_editVars

(***************************************************************************)
(* Properties.                                                             *)
(***************************************************************************)
Values  == [of : Ids, how : {"row", "on", "off", "typed", "other", "none"}]
Rows(t) == DOMAIN t \subseteq Ids /\ \A r \in DOMAIN t : t[r] \in [Fields -> Values]

\* What each variable may hold.
EditTypeOK ==
    /\ editPage \in EditPages
    /\ Rows(rec) /\ Rows(listed)
    /\ form.row \in Ids \cup {NoRow} /\ form.store \in {<<>>} \cup [Fields -> Values]
    /\ \A s \in SaveSlots :
          \/ saves[s] = NoSave
          \/ saves[s].row \in Ids /\ saves[s].vals \in [editPage.sends -> Values]

\* A page that keys its edit form by the row, or writes a row as it is listed, never
\* carries a value of one row, or typed for it, into another one: whatever form was
\* open before, however late an answer closes it or the table reads.
RowsKeepApart ==
    editPage.keyed => \A r \in Alive : \A f \in Fields : rec[r][f].of = r
=============================================================================
