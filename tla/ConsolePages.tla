----------------------------- MODULE ConsolePages -----------------------------
(***************************************************************************)
(* The console with one of its pages open.  The pages share nothing but    *)
(* the session (module ConsoleSession): a page that is left takes its      *)
(* state with it, so that a behaviour of the console is one of a single    *)
(* page.  Which page is open is chosen at first; the variables of the      *)
(* others keep some value they may start with.                             *)
(***************************************************************************)
EXTENDS CursorTable, RowEditor, PanelLoads, TenantRegistry, OneTimeSecrets,
        Verification, FileTransfer, RouteTable

VARIABLE open    \* the page that is open, by the module that models it

pageVars == <<tableVars, editVars, panelVars, registryVars, secretVars, codeVars, fileVars, routeVars, open>>

Pages == {"table", "editor", "panel", "registry", "secrets", "code", "files", "routes"}

Only(p, S, x) == open = p \/ x = CHOOSE y \in S : TRUE

PagesInit ==
    /\ open \in Pages
    /\ TableInit    /\ Only("table", TablePages, tablePage)
    /\ EditInit     /\ Only("editor", EditPages, editPage)
    /\ PanelInit    /\ Only("panel", Panels, panel)
    /\ RegistryInit
    /\ SecretInit   /\ Only("secrets", Issuers, issuer)
    /\ CodeInit     /\ Only("code", CodeForms, codeForm)
    /\ FileInit
    /\ RouteInit

PagesNext ==
    /\ UNCHANGED open
    /\ \/ open = "table" /\ TableNext
       \/ open # "table" /\ UNCHANGED tableVars
    /\ \/ open = "editor" /\ EditNext
       \/ open # "editor" /\ UNCHANGED editVars
    /\ \/ open = "panel" /\ PanelNext
       \/ open # "panel" /\ UNCHANGED panelVars
    /\ \/ open = "registry" /\ RegistryNext
       \/ open # "registry" /\ UNCHANGED registryVars
    /\ \/ open = "secrets" /\ SecretNext
       \/ open # "secrets" /\ UNCHANGED secretVars
    /\ \/ open = "code" /\ CodeNext
       \/ open # "code" /\ UNCHANGED codeVars
    /\ \/ open = "files" /\ FileNext
       \/ open # "files" /\ UNCHANGED fileVars
    /\ \/ open = "routes" /\ RouteNext
       \/ open # "routes" /\ UNCHANGED routeVars

PagesSpec == PagesInit /\ [][PagesNext]_pageVars

\* What the variables of the open page may hold.
PagesTypeOK ==
    /\ open \in Pages
    /\ TableTypeOK /\ EditTypeOK /\ PanelTypeOK /\ RegistryTypeOK
    /\ SecretTypeOK /\ CodeTypeOK /\ FileTypeOK /\ RouteTypeOK
=============================================================================
