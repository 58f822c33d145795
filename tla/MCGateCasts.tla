----------------------------- MODULE MCGateCasts -----------------------------
(***************************************************************************)
(* Two instances of TenantGate in one: an administrator between two        *)
(* tenants, and everybody else at the door of one.  Their requests read    *)
(* different tables of the portal, so that neither has to wait for the     *)
(* other's.  The cast is chosen at first.                                  *)
(***************************************************************************)
EXTENDS TenantGate

VARIABLE cast

Casts == {"administrator", "others"}
Home  == CHOOSE k \in Tenants : TRUE

\* The casts that a state of the portal and of the requests belongs to.
Fitting(bound, asked) ==
    {c \in Casts :
        /\ c = "administrator" =>
             /\ bound[Registry] = {}
             /\ \A r \in Requests : asked[r].actor \in Admins \cup {NoActor}
        /\ c = "others" =>
             /\ \A s \in Subjects : bound[s] \subseteq (IF s = Registry THEN {Home} ELSE {})
             /\ \A r \in Requests : asked[r].actor \notin Admins /\ asked[r].choice \in {Home, NoKey}}

CastInit == Init /\ cast \in Fitting(portal, req)

CastSpec ==
    CastInit /\ [][Next /\ cast' = cast /\ cast' \in Fitting(portal', req')]_<<vars, cast>>
=============================================================================
