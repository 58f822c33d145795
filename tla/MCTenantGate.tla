---------------------------- MODULE MCTenantGate ----------------------------
(***************************************************************************)
(* Instances of TenantGate for TLC.  One administrator uses all the slots, *)
(* or several of them use one, one after the other, for one kind of call.  *)
(***************************************************************************)
EXTENDS TenantGate, TLC

CONSTANTS Lead,   \* the administrator all slots are for
          First   \* the slot that everybody uses

\* The portal, and the gate, have nothing to do with these subjects.
Aside(S, bound, changed) ==
    \A s \in S : /\ bound[s] = {}
                 /\ \A k \in Tenants : changed[s][k] = 0
                 /\ cache[s] = NeverLoaded

LeadOnly(asked) ==
    \A r \in Requests : asked[r].actor \in {Lead, NoActor}

FirstOnly(asked) ==
    /\ \A r \in Requests \ {First} : asked[r] = Blank
    /\ asked[First] # Blank => asked[First].actor \in Admins /\ asked[First].route = "scoped"

Cast(bound, changed, asked) ==
    \/ FirstOnly(asked)
    \/ LeadOnly(asked) /\ Aside(Admins \ {Lead}, bound, changed)

RacesInit == Init /\ Cast(portal, changedAt, req)

RacesNext ==
    \/ Tick
    \/ \E s \in Subjects, k \in Tenants : PortalChanges(s, k) /\ Cast(portal', changedAt', req')
    \/ \E r \in Requests : Arrive(r) /\ Cast(portal', changedAt', req')
    \/ \E r \in Requests : Serve(r)

RacesSpec ==
    /\ RacesInit /\ [][RacesNext]_vars
    /\ \A r \in Requests : WF_vars(Serve(r))
=============================================================================
