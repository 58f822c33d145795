-------------------------- MODULE MCConsoleSession --------------------------
(***************************************************************************)
(* Instances of ConsoleSession for TLC.                                    *)
(***************************************************************************)
EXTENDS ConsoleSession, TLC

Symmetry == Permutations(Tenants) \cup Permutations(Tabs) \cup Permutations(Slots)

(* Tenants may vanish from the portal; none is added.                      *)
VanishingSpec ==
    Init /\ [][Next /\ \A s \in Subjects : portal'[s] \subseteq portal[s]]_vars

(* Either the registry moves or the administrators' binding to one tenant  *)
(* does: as long as one of the two moves the other is at rest.             *)
Home == CHOOSE k \in Tenants : TRUE

OneMoves(bound, known) ==
    \/ \A a \in Admins : bound[a] = {Home} /\ known[a] = {Home}
    \/ /\ bound[Registry] = {} /\ known[Registry] = {}
       /\ \A a \in Admins : bound[a] \cup known[a] \subseteq {Home}

TurnsInit == Init /\ OneMoves(portal, gate)

TurnsNext ==
    \/ \E t \in Tabs :
          \/ \E c \in Slots :
                Mount(t, c) \/ Serve(t, c) \/ Continue(t, c) \/ Person(t, c)
          \/ Navigate(t) \/ SwitchTenant(t) \/ Unload(t) \/ Reload(t)
    \/ \E n \in Tokens : SessionEnds(n)
    \/ \E s \in Subjects, k \in Tenants : PortalChanges(s, k) /\ OneMoves(portal', gate')
    \/ \E s \in Subjects : GateCatchesUp(s)

TurnsSpec ==
    /\ TurnsInit /\ [][TurnsNext]_vars
    /\ \A t \in Tabs, c \in Slots : WF_vars(Serve(t, c)) /\ WF_vars(Continue(t, c))
=============================================================================
