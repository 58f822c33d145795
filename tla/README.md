# testkit-service in TLA+

testkit-service is the console of a family of services (user, message,
storage, telemetry, license, gid, reference, portal): a Go process that embeds
or dials them behind one gRPC/HTTP surface, and an Umi/React web console.  It
stores almost nothing itself.  What it has of its own is the *door*: who may
enter, for which tenant a request operates, what of the caller's wishes
reaches the services; the console's side of the same question, in a browser
whose tabs share one localStorage; pages that keep copies of what the services
hold, and protocols of their own - the mail composer, cursor tables, edit forms,
one-time secrets; and the building and taking apart of the process.
This directory models that, checks it with TLC on small instances and proves
what matters most with TLAPS.

All paths below are relative to `src/`.  To run a check:

    tlc -workers 2 -config GateRaces.cfg MCTenantGate.tla
    tlapm TenantGateProofs.tla

## 1. The system's parts

| Part | State it keeps | Operations | What is hard | What makes it correct | Module |
|---|---|---|---|---|---|
| Tenant gate, `internal/tenantgate` | membership cache per administrator, registry cache, one mutex | `Wrap`, `Resolve`, `bindingSet`, `registered` | the mutex is dropped for the portal call; revokes race look-ups, slow calls, hits; failures | a key is injected only if the caller holds it, within a bounded lag; nothing else sets the trusted key; bootstrap always possible | `TenantGate`, `TenantDoor` |
| Edge chain, `pkg/server.go` | none | clientinfo, session middleware with public paths, gate, interceptors | which route is public; order of the wrappers | no anonymous request beyond the public paths; the gate sees a verified actor | in `ConsoleSession` (the verdict) |
| Scope of tenant administrators, `internal/bffscope`, `requirePlatform` | none | `TenantKey`, forced `tenant_key`, owner injection | each RPC has to do it | an administrator's scoped call names his tenant | no (section 6) |
| RPC surface, `pkg/handler`, `internal/service/*`, `pkg/client.go` | none | about 180 forwards | each one states actor, owner, scope; some replace whole sets | every RPC reaches its backend with the caller's identity | no (section 6) |
| Dashboard, `internal/service/dashboard` | none | four parallel counts | first failure cancels the others | all counts or an error | no; its page is in `PanelLoads` |
| Process life cycle, `cmd/server`, `internal/service/init.go`, `pkg/{server,connect,module}.go`, `internal/jobs` | the manager's list, module slots, listener, scheduler | `New`, rollback, `Start`, `Stop`, `Connect` | a failing step after others connected; a slot claimed twice; stop against running calls | what was connected is closed once, in reverse order; slots are given back | `Lifecycle` |
| Console session, `web/src/{app.tsx,request.ts}`, `utils/{session,tenantChoice}.ts`, Login, TenantSwitcher | localStorage (token, user, choice), `initialState`, open requests | bootstrap, sign-in, sign-out, switch, 401 handler | every await; two tabs; late answers; a gate that lags | a session and its choice belong together; a stale choice strands nobody; the bootstrap ends | `ConsoleSession` |
| Mail composer, `pages/Message/SendEmail`, `components/RichEmailEditor` | attachments of two kinds, uploads, the body twice, the open mail | pick, read, upload, confirm, link, edit, switch mode, send | parallel reads, stale closures, an upload that writes into the body being edited | no dead link is sent; the body sent is the one shown; limits hold | `MailComposer` |
| Paged tables, `components/CursorPager.tsx` and nine pages that use it | cursor chain, page, window, what is shown | search, back, next, reload | answers of an earlier query, failed fetches, rows that come and go | the chain belongs to the window; walking forward repeats nothing | `CursorTable` |
| Edit forms and row links: RBAC, templates, policies, signatures, accounts, buckets, providers, users, keys | rows as listed, the form's store, saves that are out | edit, cancel, submit, toggle, create, delete | a form that outlives its row, late answers, other operators | no row receives another's values | `RowEditor` |
| Panels: dashboard, statistics, quota, reference, phone, ids, record details | pick, question, answer, spinner | pick, ask, save, close | answers out of order, failures, two writers of one state | no answer under another's name | `PanelLoads` |
| Tenant list, `pages/Tenant/List.tsx` | table, two drawers, delete dialogue, loads and writes that are out | switches, administrators, create, typed delete | each answer patches several copies, whichever drawer is open by then | copies agree with the portal; only typed deletes are sent | `TenantRegistry` |
| One-time secrets: credentials, telemetry tokens, license keys, first secrets of a tenant | listed keys, dialogues | create, rotate, switch, revoke | crossed or lost answers | the secret shown is the one that works | `OneTimeSecrets` |
| Codes: registration, bind, OAuth bind, unbind | address, captcha or state, code, countdown | send, type, submit, close | answers for an address that changed, timers, a page left and opened again | one code per minute of a visit | `Verification` |
| My files, `pages/Files/MyFiles` | list, selection, dialogue, one upload | upload in three calls (the PUT is a stub), instant upload, delete, batch delete | the dialogue is closed and opened while an upload runs | one upload at a time, the drop zone disabled exactly while it runs | `FileTransfer` |
| Routes, `config.ts`, `access.ts`, `landing.ts`, `app.tsx` `onPageChange` | address, what the access rules saw | menu, address, sign-in, switch | four lists that must agree; a choice changed in another tab | the menu leads where it says | `RouteTable` |
| Chunk guard, `utils/chunkGuard.ts` | time of the last reload | reload on a missing chunk | reload loops | at most one reload per window | no |
| Phone numbers, `internal/phone` | none | `ComposeE164` | empty parts | E.164 or nothing | no |
| Config, version, migrations; generated clients, swagger; the other pages | none | load, defaults | | | no |

The parts meet in three places.  The browser sends a token and a choice; the
edge chain turns the token into a verified actor, and the gate turns actor and
choice into the trusted tenant key; the RPC surface turns actor and key into
owner and scope of the backend call.  The gate's own data comes from the
portal, which the RPC surface also changes.  A page of the console meets the
services only through its calls: it shows what an answer said, and sends what it
shows.

`PROJECT.json` lists every part with its status and, under `hazards`, what can
go wrong in each at the line where it bites, with the property that would
notice.

## 2. The modules

Every module models code of this repository only.  Other repositories
(portal-service, user-service, storage-service, the downstream `Connect`s,
`lifecycle.Manager`, `grpcx`, `signalx`) appear as what this code relies on:
they answer or fail, and their tables change at any time.

A definition whose comment begins with *Slip* is a faulty variant of the one
below it - a dropped guard, a missing reset, a swapped order.  No
specification uses them; putting one in the place of the true definition
violates the property `PROJECT.json` names under `mutants`, which shows that
the property depends on that piece of the code.

### 2.1 `TenantGate` and `TenantDoor` (`internal/tenantgate/tenantgate.go`)

| TLA+ | Code |
|---|---|
| `portal[s]`, `changedAt` | portal-service's membership of an administrator, and its tenant registry (`Registry`); `changedAt` is history |
| `cache[s]` | `Resolver.bindings[id]`, `Resolver.registry`, with `expiresAt` |
| `req[r]` | one request inside `Gate.Wrap`: what it brought, its phase, the answer in its hands, the key it is forwarded with |
| `Arrive` (`Preflight`, `Anonymous`, `SelfService`, `CrossView`, `Resolve`) | `Wrap` and `Resolve` up to the first look-up; `Strip` is the deletion of a smuggled header |
| `LookupHit`, `LookupMiss` | the critical section of `bindingSet`/`registered`: the mutex is released before the call |
| `PortalReads` | portal answers with its table as it is now (external) |
| `PortalFails` | an error is a 503 and is not cached |
| `Store` | the second critical section: the entry is overwritten whatever another call stored meanwhile |
| `Decide`, `Resolved`, `Decisions` | membership of the choice, the single-binding default, the route that needs no choice |
| `Tick` | time, in units of the smallest interesting difference; an answer is at most `MaxLatency` old when it is used |

The code sets no deadline on the portal call; `MaxLatency` stands for whatever
limits it (the client's patience, the transport).  All bounds are relative to
it.

The mutex needs no variable of its own, because what it protects is one step.
Two requests that miss at the same time both call portal, as in the code.

`TenantDoor` is what the package comment promises, with no cache: a pending
request is settled in one step against one view of the portal that differs
from the truth only where it changed less than `Staleness` ago.  `TenantGate`
implements it with `Staleness <- TTL + MaxLatency`.

### 2.2 `ConsoleSession` (`web/src`)

| TLA+ | Code |
|---|---|
| `store` | localStorage: token, cached user, tenant choice (`utils/session.ts`, `utils/tenantChoice.ts`); `choiceFor` is history |
| `tab[t]` | one tab: its page, `initialState.currentUser`, what the switcher lists, the choice as last rendered, its open requests |
| `owner`, `live`, `portal`, `gate` | the server: sessions, memberships, and the gate's lagging copy of them |
| `Verdict`, `ServeLogin`, `ServeLogout`, `ServeQuery`, `ServeFails` | `pkg/server.go`: session middleware, public paths, gate, then the handler |
| `Mount`, `Rendered`, `Entered`, `Bootstrapped` | `render`, `getInitialState`, `onPageChange` of `app.tsx` |
| `BootSucceeds`, `BootRetries`, `BootDegrades`, `Ensured` | `fetchBindings` and `ensureTenantChoice` |
| `SubmitLogin`, `LoginSucceeds`, `LoginFails` | `pages/User/Login` |
| `Unauthorized` | the 401 branch of `errorHandler` in `request.ts` |
| `leaving`, `Unload` | a page that has asked for a reload or another address and is still there; the moment the browser takes it down |
| `RegistryCalls`, `RegistryAnswered`, `SwitchTenant` | `TenantSwitcher.tsx` |
| `PageCalls`, `PageAnswered`, `Navigate`, `Reload` | any page; `view` is what `tenantScope.tsx` keys it by |
| `OpenLink` | the address of a file link, `pages/Link/Download` |
| `Logout`, `LogoutAnswered` | `endSession` |

A step is one JavaScript task.  A request carries the headers localStorage had
when it was sent; its continuation sees localStorage as it is then.  A switch, a
sign-out and the 401 handler write localStorage and ask for another document in
one task; the document comes later (`Unload`), and until then the old page still
sends and continues, under what is stored now.

### 2.3 `MailComposer` (`pages/Message/SendEmail`, `components/RichEmailEditor`)

| TLA+ | Code |
|---|---|
| `inline`, `large`, `nextKey` | `fileAttachments`, `largeAttachments`, the key counter |
| `pick[p]` | one run of `handleFileChange`; `seen` is the closure's `fileAttachments` |
| `upload` | one run of the large-file loop; `stage` is the await it is at, `loading` is `uploadingLarge` |
| `storage` | storage-service (external): stored, confirmed, linked |
| `editor`, `html` | the editor's mode and two copies of the body; the page's `htmlContent` |
| `mail` | the last request to send |
| `PickLocal`, `LocalRead`, `LocalUnreadable` | the loop body before and after the `FileReader` |
| `Hashed`, `UrlAnswered`, `PutAnswered`, `ConfirmAnswered`, `LinkAnswered`, `LinkFails` | the awaits of one file; `NextFile` is its `finally` |
| `TypeText`, `Erase`, `ApplyTemplate`, `ToggleMode`, `AppendHtml` | the editor: what is typed goes into the copy that is shown |
| `ToolbarCommand` | `exec`, `insertLink` and the others that end in `notify`: whatever the mode, the page gets the body of the contentEditable area |
| `Send`, `SendAnswered` | `handleSend` |

A body is the set of what it contains: text, and the blocks of linked files.
The toolbar is rendered in source mode too, where the area it works on is
hidden.  Recipients, sender and the plain text are not kept, so `Send` may
happen with any body: the code lets a mail without HTML through when it has
plain text.

### 2.4 `Lifecycle` (`internal/service/init.go`, `pkg`, `cmd/server`)

| TLA+ | Code |
|---|---|
| `pc[h]` | where one holder of an instance is: the server, or an embedder that uses `Connect` |
| `embeds[h]` | the downstream services that its config runs in module mode |
| `mgr[h]` | `lifecycle.Manager`'s list; `Order` is the order in which `New` adds to it |
| `open[h]`, `up[h]`, `listening[h]`, `calls[h]` | connections, `mgr.Start` done, the listener, calls being worked on |
| `slot[s]` | `pkg/module.go`, and the same of each downstream service: one embedded instance per process |
| `ConnectNext`, `ConnectFails`, `Undone` | one step of `New`, any of them failing, `rollback` |
| `ConnectModule`, `ConnectRemote`, `ConnectRefused` | `pkg/connect.go` |
| `ValidatorFails` | `NewServer` after `New` |
| `Started`, `StartFails`, `Bind`, `BindFails` | `Server.Start` |
| `Stop`, `Drained`, `StopLast`, `Stopped` | `Server.Stop`, `Service.Stop`, the manager in reverse order |

### 2.5 The pages: `ConsolePages` and the eight modules it composes

Many pages are built alike, and differ in which of the same precautions they
take.  Each module models one such construction, with a record per page whose
flags say what the page does (is the edit form keyed, does the effect clean up,
does the answer carry something the form keeps); the mapped lines of a record
are the page.  Pages share no state but the session, and one that is left
loses its own, so `ConsolePages` opens one page at a time; `MCConsolePages`
lists the pages whose flags differ.

| Module | State and what it is in the code |
|---|---|
| `CursorTable` | `pageRef`, `chain`, `pager` are the refs and state of `useCursorTable`; `asked[s]` is one run of `request` between two awaits; `log` is the service's list, rows numbered by age; `mixed` and `still` are history (did requests of this window overlap; has the list changed since it began) |
| `RowEditor` | `rec` is the service, `listed` the table, `form` the ProForm store and the row it is open for, `saves` the calls that are out; a value is named by the row it comes from and by how it got there |
| `PanelLoads` | `pick` is what is chosen, `caption` what the page writes above the data, `answer` whose data it is, `spin` the spinner, `calls` the questions that are out (`live` falls with the effect's clean-up) |
| `TenantRegistry` | `rows`, `capDrawer`, `adminDrawer`, `deleting` are the page's states, `loads` the runs of `load`, `writes` the other handlers between two awaits, `registry` portal-service; `tangled` is history (a load met a write, two writes of one switch, or an answer was lost) |
| `OneTimeSecrets` | `valid`, `disabled` are the service, `onPage` the rows, `mints` the calls that are out, `dialogues` what was shown; `lost`, `crossed` are history |
| `Verification` | `address`, `code` are fields; `proof` is the captcha_id or OAuth state, named by the address it was issued for; `sends`, `submits` are calls (`here`: of the form that is open now), `countdown`, `timers` the state and the intervals of the button; `strays` are the intervals of forms that were left, which nothing clears |
| `FileTransfer` | `stored` is what storage-service lists; `shown`, `picked` the table and its selection; `uploads` the runs of `customRequest` at one of their awaits, `uploading` the flag of the component.  `PutDone` is `putToOSS` as it is: a stub that waits 50 ms and sends no bytes (`UploadModal.tsx:12-17, 51-54`) |
| `RouteTable` | `place` is the address after all redirects, `content` page, 403 or 404; `granted` is the choice as the access rules saw it when the tab was loaded, `drilled` the one in localStorage |

A step is one JavaScript task, as in 2.2.  A call that fails may or may not
have taken effect.  Not taken from the pages: columns, sorting, rendering,
offset paging, form validation, and messages.

## 3. What is checked

| Run | Instance | What it shows |
|---|---|---|
| `GateRaces` | two casts (module `MCTenantGate`): one administrator with two requests, two administrators with one scoped request at a time; one tenant, TTL 1, latency 1, clock to 3 | decisions contradict the portal for less than TTL plus latency, in both directions (`RevokedIsRefused`, `GrantedIsAdmitted`), and an entry filled for one administrator never admits the other; the inductive invariant of the proofs; every request gets a verdict |
| `GateMatrix` | two casts (module `MCGateCasts`): an administrator, a member of staff, an end user and the anonymous; one administrator with two tenants; one request each | the trusted key is the one the matrix gives (`KeyFollowsMatrix`), whatever header was smuggled in; WhoAmI without a choice is never refused; a key is defaulted only while it is the only binding (`DefaultIsSole`); the gate implements `TenantDoor` |
| `TabAdmin` | one tab, one administrator, two tenants, two sessions, two open requests, file links | `ChoiceIsOffered`, `RefusalIsRetried`, `LiveSessionSurvives401`, `StayingPageMatchesChoice` |
| `TabStaff` | one tab, three kinds of user in turn (two sessions), two tenants that come and go, an administrator of at most one of them, one open request | `ChoiceIsOffered` when different people use the tab; `BootEnds` |
| `MailCompose` | two batches of local files, one upload batch, one storage file, up to two rows | no dead link (`LinksWork`), `OnlyCommandsStray` (only a toolbar command in source mode parts the page's body from the one that is shown), `RowsLeaveByHand`, `UploadEnds` |
| `LifecycleRaces` | a server and two embedders, two deployments (only gid embedded; all but portal), one call at a time | `UpstreamsOutliveUsers`, `SlotsMatchModules`, `NothingLeftBehind`, `CallsFindBackends`, `ShutdownEnds`, and the inductive invariant |
| `Pages` | one of 30 pages: four rows, two filters, two requests at once; two rows to edit and two saves; two topics, two calls, four questions; two tenants and a third that may be created, one service, one administrator, two writes and one load at once, three writes; two keys, two calls, three secrets; two addresses, two sends; two files | cursor tables (`ChainOfWindow`, `NoRowTwice`, `NextPageFollows`), forms (`RowsKeepApart`), panels (`NameFitsAnswer`, `LateAnswerDropped`), the tenant list (`CopiesAgree`, `DeleteIsTyped`), secrets (`ShownSecretsWork`), codes (`OneIntervalPerVisit`), uploads (`DropZoneWaits`), routes (`MenuLeads`) |

Five runs look for a disagreement and find it; each checks one property that
a comment or a text of the repository states:

| Run | What the repository says | What the code does |
|---|---|---|
| `TabsChoice` | the choice belongs to the session (`utils/tenantChoice.ts:17-18`) | with two tabs, a WhoAmI answer that arrives after somebody else signed in writes the former user's tenant into the new session |
| `TabDrillDown` | staff fall back to the cross view when their tenant vanished (`TenantSwitcher.tsx:50-56`) | the gate refuses `ListTenants` itself under the vanished choice, so the code that would fall back never sees the list |
| `TabSignOut` | signing out revokes the session (`utils/session.ts:5-9, 17-20`) | logout is no public path and no choiceless route: without a valid choice the gate refuses it, and the session stays valid |
| `MailInline` | the inline attachments have a total limit (`SendEmail/index.tsx:660`) | each file of a batch is checked against the rows of the render it was picked in, so a batch exceeds the limit together |
| `LogSkips` | cursor paging of the audit log "never skips or repeats rows" (`LoginLogs.tsx:25-26`) | a page loaded again after rows came in keeps the old entry of the next page (`CursorPager.tsx:75`): the rows between the two are on neither; it repeats none (`NoRowTwice`) |

`TabDrillDown` starts from a registry that only loses tenants, so that the
refused choice is one that vanished and not one the gate's cache has not seen yet.

### Bounds, and why they are enough

Counters that the code leaves unbounded (clock, sessions, rows, calls) are
bounded by a constant that a comment in the module calls a bound.

- *Gate.*  The worst lag takes one slow call, one change of the portal and one
  hit by a second request: two requests, and a clock that passes
  TTL + latency.  Tenants are independent of each other except in the default,
  which one cast of `GateMatrix` gives two of; administrators share the cache,
  which the second cast of `GateRaces` gives two of.  With one request the cache
  still matters: a later request reuses the slot.  The proofs have no such bounds.
- *Tabs.*  Two sessions are the least in which a late answer meets another
  session; two open requests the least in which one answer overtakes another.
  Two tenants are needed for an ambiguous choice, and for a drill-down that the
  registry no longer lists among others.  `TabAdmin` and `TabStaff` share the
  work: the second request and two moving bindings go to an administrator alone,
  the other kinds of user and fairness to a tab with one of each, where either the
  registry moves or the administrator's one binding does (`TurnsSpec`).  Tenants and request slots are
  interchangeable, so the runs without liveness use symmetry.
- *Mail.*  Two batches are read at the same time while one file is uploaded:
  each pair of activities meets.  `MailInline` uses sizes 1 and 2 and a total
  of 5, three files at most.
- *Life cycle.*  Three hosts are the least in which two embedders compete for
  a slot while a server holds another; two deployments contain a service that
  is embedded in both, one that is embedded in one, and one in none.

- *Pages.*  Every hazard here needs two of a kind - two topics, rows, tenants,
  keys or addresses - and two calls whose answers can cross; a third write is
  what a drawer, or the delete dialogue, opened on another tenant needs between
  two answers.  Page size 1 and four rows make three pages, enough to walk on,
  back and on again while two rows come in.  The pages stop when their bounds are used up, hence no
  deadlock check.

### Fairness

- *Gate*: weak fairness of a request's own steps.  The handler's goroutine
  runs on, and the portal call ends, with or without an answer.
- *Tab* (`TabStaff`): weak fairness of the server's answer to an open call and of the
  continuation of an answered one: a call ends, and the browser runs what is
  ready.  Nothing the person does is fair.
- *Mail* (`MailCompose`): weak fairness of the steps of an upload.
- *Pages*: none; their properties are safety.
- *Life cycle*: weak fairness of the steps of a construction, a start and a
  stop that were asked for, and of the end of a call.  Connecting has time
  limits; a graceful stop of the listener waits for calls, which end.  Nobody
  has to build, start or stop anything.

## 4. What is proved

The theorems hold for every value of the constants that satisfies the named
assumptions of the module (`ActorsAssumption`, `KeysAssumption`, `SessionsAssumption`,
`TimeAssumption`, `ComposerAssumption`, `LifecycleAssumption`, and those of
the page modules).

**Tenant gate** (`TenantGateProofs`).  That a key is refused soon after it was
revoked is not inductive: a decision rests on a cache entry, which rests on an
answer, which rests on the portal as it was when it answered.  `IInv` says so
for each of them: `AnswersWereTrue` - the answer in a request's hands differs
from the portal only where that changed since it was read, and it is no older
than the latency; `EntriesExpire` - an entry that misses a change expires
within TTL + latency of it, whichever of several calls stored it last;
`InTheResolver` - only those requests look up that the resolver serves.
`Invariance` proves it, with one lemma per action; `TypeCorrect`,
`RevocationIsBounded`, `GrantIsBounded`, `DefaultIsUnambiguous`,
`MatrixHolds` and `BootstrapHolds` are its parts.  `GateImplementsDoor` proves
the refinement: of all steps only a decision, an arrival and a failure are
visible outside, and `IInv` provides the plausible view a decision needs.

**Mail composer** (`MailComposerProofs`).  A row is added when a link was
made, three awaits after the file was stored.  `StageTellsStorage` carries the
knowledge from one await to the next: at stage *confirm* the file is stored,
at stage *link* it is confirmed as well.  With it `LinksWork` (`NoDeadLinks`) is
inductive.  `OnlyCommandsStray` (`OnlyCommandsPart`) rests on the editor: in rich
text the page has the body of the area (`RichIsSent`), so every change of mode
starts from equal copies, and in source mode a command is the only step that
gives the page another body than the one shown.  It and `RowsLeaveByHand`
(`NoRowIsLost`) hold for any files, sizes, limits and number of batches.

**Life cycle** (`LifecycleProofs`).  `IInv` says that a manager's list is a
prefix of `Order`, that what is open is what the list has, that the place of a
host tells how long the list is, and that slots agree with both.
`ClosedAfterItsUsers` follows because a prefix is closed under dependencies,
`NothingIsLeft`, `ServerIsWhole` and `SlotsAgree` because of the place.  Any
number of servers and embedders, and any choice of embedded services.

**Cursor tables** (`TableProofs`).  `ChainOfWindow` speaks of the chain and the
buttons; a step that breaks it began when a request was sent.  `TableInv`
therefore also says what a request that is out asks for (`AskFits`: a link of
its window, with an answer below that link), that as long as nothing overlapped
it is alone and its goal stands on the chain (`Alone`, `Stands`), and that the
chain descends within the rows the filter hits (`Descends`).  `ChainKeepsWindow`
holds for any filters, rows, page size and number of pages.

**Turning pages** (`TurnProofs`).  `NoRowTwice` and `NextPageFollows` compare
two pages, the one on the screen and the one that replaces it; between them lie
any number of fetches, failures and walks back, so both need to know where each
link came from.  `TurnInv` says it: the rows of an answer are older than its
cursor and end at its link, which has a full page above it (`Answers`), in a
list nobody changed exactly the page the service would list now (`Joins`); every
link of the chain has a full page between itself and the one before
(`LinksFull`); and the page on the screen ends where the chain enters the next
one (`ScreenJoins`).  A full page stays full while rows are only added at the
top, which is why `LogShowsNoRowTwice` survives new rows; `NextPageIsNext` needs
the list as it was.

**Tenant list** (`RegistryProofs`).  `DeletesAreTyped` rests on the dialogue
knowing at each keystroke whether its own key stands there, through opening,
late answers and reloads.  `CopiesAgreeWhenQuiet` is about a page at rest; what
holds at every moment before is `FitInv`: a copy that differs from the portal
differs by a request the portal has done and the page not yet heard of.  For
each copy it names that request - a switch of this capability (`CapsFit`), a
binding or a members call of this tenant (`AdminsFit`), a creation, deletion or
disabling that will reload the table (`RowsListed`) - and says that its answer,
when it comes, is what the portal holds (`RequestsFit`), that no two requests
for one switch are out (`CapsApart`), that nothing on the page is about a tenant
being created (`CreatesAlone`), and that a load runs alone (`LoadsFit`).  The
proof has one lemma per kind of step; `AppliedChanges` states what each of the
portal's handlers leaves alone.  When nothing is out, nothing is left to differ
by.  The assumption `LoadSlots # {}` says that the load the page opens with fits
the bound on loads.

**The other pages** (`PagesProofs`).  `AnswerFitsItsName` and
`LateAnswersAreDropped` rest on `PanelInv`: a guarded panel listens to its last
question only.  `RowsAreApart` rests on the form and every save that is out
carrying values of their own row.  `OneCodeAtATime` adds that a request and an interval of one visit never
run together, whatever intervals earlier visits left behind; `OneUploadAtATime`
that the flag of the component is up exactly while a run of `customRequest` is,
however often the dialogue was destroyed.  `SecretsWork` adds that a key whose
requests did not cross has one of them out at most, and that the secret in its answer is the one
in force.  `MenuLeadsOn` goes through the route table: every leaf the menu can
offer is in step with the rules that guard it (`MenuInStep`), so it opens for
whom it is shown to, and so do the landing pages, the tenant switcher and the
way home; the property is inductive, and the work is in the table.
`PagesAreTyped` and `PagesAreSafe` carry type correctness and every safety
property of the eight pages over to the console that is composed of them.

**Console session** (`SessionProofs`).  `TypeCorrect` holds for any number of
tabs.  The promises about session and choice hold in a browser with one tab
(`OneTab`), for any users, tenants, sessions and requests open at a time:
`ChoiceStaysOffered`, `RefusalsAreRetried`, `GoodSessionsSurvive` and
`StayingPagesMatch`.  None of them is inductive, because each speaks of what a
continuation finds in localStorage long after its request was sent.
`OneTabInv` closes the gap: every open request belongs to the page that shows
(`Fits`: a login to the login page, WhoAmI to a bootstrap, the others to a
page of the application) and carries the stored token, and WhoAmI the stored
choice; a login or a bootstrap is alone (`Single`), so that whoever writes the
store leaves no request behind that carries the old one; and a page shows what
is stored (`Shown`).  A page that is being left is exempt from the last, and its
own calls from carrying the stored token: they go on under whatever was written
before the reload was asked for, until `Unload` takes them away.
`OneTab` is needed: with two tabs TLC refutes all four.

**Only model-checked.**  The liveness properties `EveryRequestAnswered`,
`BootEnds`, `UploadEnds` and `ShutdownEnds` (liveness under fairness is out of
the proof system's reach); and the five disagreements, which are
counterexamples.  Every safety property of a passing run is proved.

## 5. Noted on the way

Differences too small, or too dependent on the reading, for a run of their own:

- The gate's comment speaks of one cache window (`tenantgate.go:108-110`).
  The time of the call that filled the entry comes on top;
  `RevokedIsRefused` states TTL plus latency, which is what holds.
- With two tabs `RefusalIsRetried` and `LiveSessionSurvives401` fail: the
  retry looks at the choice that is stored now (`app.tsx:85`), and the 401
  handler clears whichever session is stored now (`request.ts:55`).  So do
  `ChoiceIsOffered` and `StayingPageMatchesChoice`: a choice that changes in one
  tab leaves the other as it was rendered.
- `tenantScope.tsx:22-23` takes a change of the choice to be a refresh of the whole
  page.  The switcher writes the choice first and the document leaves later
  (`TenantSwitcher.tsx:67-78`): what the old page sends in between goes out under
  the new choice (`request.ts:37`).  The model has it (`leaving`), and
  `StayingPageMatchesChoice` speaks of pages that stay.  For staff a page that
  stays may do the same, since the switcher drops a dead choice without loading
  the page again (`TenantSwitcher.tsx:54`).
- A file link is for anonymous recipients (`config.ts:35-36`), but `render`
  (`app.tsx:105`) leaves only `/user/` alone and sends them to the login page:
  `OpenLink`, then `Mount`.
- A formatting button clicked in source mode makes the hidden area's body the
  page's, while the screen shows the edited source (`RichEmailEditor/index.tsx:147,
  334`), where the comment promises that every content change is reported (`:47`).
  `OnlyCommandsStray` says that nothing else does.
- Nothing clears the interval of the registration form when the page is left
  (`Register/index.tsx:85-96`), and the page opened again asks for another code at
  once: `strays`.  `OneIntervalPerVisit` speaks of one visit.
- A template that is applied after an upload removes the file's block from the
  body and leaves its row (`SendEmail/index.tsx:296, 466-468`).
- If the validator cannot be built, `NewServer` drops an instance that is
  already connected (`server.go:139-142`): the place `lost`.
- Requests of a cursor table that overlap share one chain object without a
  guard; an answer of the former window is added to the chain of the new one.
  `ChainOfWindow` leaves such windows out (`mixed`).
- The RBAC pages' edit forms have no key: opened on a second row before the
  first one's answer came, the form shows the first row's values
  (`Roles.tsx:161`).  `TemplatesPage` has the key.  `RowsKeepApart` speaks of
  pages that are keyed.
- The late answer of a save closes the form that is open on another row by then
  (`Templates.tsx:345-361`), and two operators' edits overwrite each other.
- A drilled-in platform user who opens a platform address is sent to
  `/tenant/capabilities` (`app.tsx:185`), which is no route: 404, where the
  comment (`:163-165`) promises the tenant area's home.  `/telemetry/stats` is
  on the list of visible prefixes and yet for platform staff only: 403.
- Most panels neither drop late answers nor clear the old data: the region
  drawer of the directory, the record drawers, the quota page.  Clearing the
  country of the example form while its answer is out leaves the spinner
  (`Examples/index.tsx:133-151`).
- The captcha of an address is submitted with an address typed afterwards, and
  an OAuth state with another provider (`Identity/index.tsx:159, 200`).
- Every upload of `MyFiles` sends one placeholder MD5 (`UploadModal.tsx:56-61`):
  the service takes every later one for a copy of the first.
- Two rotations of a credential whose answers cross leave the dead secret on
  the screen last; a lost answer leaves a secret nobody knows.

## 6. What is not modelled, and what comes next

*The RPC surface* - handlers, domain services, the scope of tenant
administrators, the dashboard's four parallel calls.  Each RPC is one call
without state of its own: it checks the actor, overwrites owner or tenant key,
converts and forwards.  There is nothing in it for interleavings to explore;
its correctness is a table of 180 rows, which a test that enumerates the RPCs
states better.  What it does to the services is in the modules above as
external steps.

*Pages*: settings, all files, the roles of a user, members of a group, the
license console, sending SMS, the download page, the profile form, the user's
own quota.  They have the shapes of `PanelLoads` and `RowEditor`.  Known there:
settings saved before, or after a failed, load send empty values; the roles page
shows the former user's rows beside a new id.

*Without state that two actors could bring into disagreement*: generated
clients, error codes, the phone helper, configuration, migrations, wording
and layout.  Inside the modelled parts: clientinfo, interceptors and the raw
routes of the edge chain; the scheduler's jobs, of which there is none; a
forced quit, which ends the process.  The chunk guard is one comparison of time stamps.

What would come next: the remaining pages as further records; what holds of the
session in a browser with several tabs.
