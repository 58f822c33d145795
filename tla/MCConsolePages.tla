---------------------------- MODULE MCConsolePages ----------------------------
(***************************************************************************)
(* The pages that differ in the flags of their records, for TLC; a page    *)
(* with the flags of another one behaves like it.                          *)
(***************************************************************************)
EXTENDS ConsolePages

MCTablePages == {LoginLogsPage, RolesTable}
MCEditPages  == {RolesPage, TemplatesPage, PoliciesPage, SignaturesPage, BucketsPage}
MCPanels     == {RegionsPanel, CascadePanel, FillPanel, DirectoryPanel, RegionDrawer, DashboardPanel,
                 OwnerQuotaPanel, ConfigStatsPanel, PhonePanel, EmailDetail, KeyDetail}
MCIssuers    == {CredentialsIssuer, TokensIssuer, LicenseIssuer, BootstrapIssuer}
MCCodeForms  == {RegisterForm, BindForm, OAuthForm, UnbindForm}
MCHits       == [f \in Filters |-> {r \in 1 .. MaxRow : f = "all" \/ r % 2 = 1}]
MCFirstRows  == 1 .. 2
=============================================================================
