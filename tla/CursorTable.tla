----------------------------- MODULE CursorTable -----------------------------
(***************************************************************************)
(* The paged tables of the console: useCursorTable of CursorPager.tsx and  *)
(* the pages that hand it a list RPC.                                      *)
(*                                                                         *)
(* Rows are numbered, the newest has the largest number.  A list RPC       *)
(* answers the PageSize newest rows older than a cursor and, when older    *)
(* ones are left, the last row answered as the next cursor.  The window is *)
(* what the operator filters for; every request of the table works on one  *)
(* shared chain of cursors, and its answer arrives whenever it likes.      *)
(***************************************************************************)
EXTENDS Integers, Sequences, FiniteSets, SequencesExt

CONSTANTS TablePages,   \* the pages a run looks at, records of the form below
          Filters,      \* what the search form can be submitted with
          Hits,         \* the row numbers a filter matches
          MaxRow,       \* bound: the largest row number
          FirstRows,    \* the rows there are when the page opens
          PageSize,
          MaxPage,      \* bound: the furthest page anyone turns to
          MaxAsked      \* bound: requests of the table that run at once

ASSUME RowsAssumption == MaxRow \in Nat /\ PageSize \in Nat \ {0} /\ MaxAsked \in Nat \ {0}
VARIABLES tablePage,  \* the page that is open
          log,        \* the rows the service holds
          newest,     \* the largest number ever given
          pageRef,    \* the page to load next
          chain,      \* the shared chain: entry cursors, their window, whether it ended
          pager,      \* what is on the screen
          asked,      \* the requests that run
          mixed,      \* has a request of this window met another one?
          still       \* has the service's list stayed as it was when the window opened?

tableVars == <<tablePage, log, newest, pageRef, chain, pager, asked, mixed, still>>

Slots   == 1 .. MaxAsked
Start   == MaxRow + 1       \* the empty cursor: every row is older
None    == 0                \* no next cursor
Waiting == [rows |-> {}, next |-> Start]    \* the fetch is not answered yet
NoWindow == "none"

ASSUME HitsAssumption ==
    /\ Hits \in [Filters -> SUBSET (1 .. MaxRow)] /\ NoWindow \notin Filters
    /\ \E n \in 0 .. MaxRow : FirstRows = 1 .. n
    /\ \A p \in TablePages : p.filters \subseteq Filters

\* What the pages differ in: whether the search form has filters, whether rows
\* only ever come (an audit log) or can be taken away too.  A revoked session leaves
\* the list its status filter shows; without the filter it stays, as in a log.
LoginLogsPage        == [filters |-> Filters, removes |-> FALSE]
EmailsByCursor       == [filters |-> Filters, removes |-> FALSE]
SMSByCursor          == [filters |-> Filters, removes |-> FALSE]
SessionPage          == [filters |-> Filters, removes |-> TRUE]
TenantFilesPage      == [filters |-> Filters, removes |-> TRUE]
RolesTable           == [filters |-> {"all"}, removes |-> TRUE]
PermissionsTable     == [filters |-> {"all"}, removes |-> TRUE]
PermissionGroupsTable == [filters |-> {"all"}, removes |-> TRUE]
GroupsTable          == [filters |-> {"all"}, removes |-> FALSE]

(***************************************************************************)
(* The list RPC.                                                           *)
(***************************************************************************)
Newest(S)   == {r \in S : Cardinality({q \in S : q > r}) < PageSize}
Listed(f, c) ==
    LET older == {r \in log \cap Hits[f] : r < c}
        rows  == Newest(older)
    IN  [rows |-> rows,
         next |-> IF rows = older THEN None
                  ELSE CHOOSE r \in rows : \A q \in rows : r <= q]

(***************************************************************************)
(* The request of the table.  Begin is its synchronous prefix, up to the   *)
(* first fetch; Goal tells what a request fetches next: the next link of   *)
(* the chain, the page itself, or nothing when the chain ended short of it.*)
(***************************************************************************)
\* Slip: the entry cursor of the page before.
GoalOneBefore(c, want) ==
    CASE ~c.ended /\ Len(c.cursors) < want -> [step |-> "walk", cursor |-> Last(c.cursors)]
      [] want <= Len(c.cursors)            -> [step |-> "page", cursor |-> c.cursors[IF want > 1 THEN want - 1 ELSE 1]]
      [] OTHER                             -> [step |-> "gap",  cursor |-> None]

Goal(c, want) ==
    CASE ~c.ended /\ Len(c.cursors) < want -> [step |-> "walk", cursor |-> Last(c.cursors)]
      [] want <= Len(c.cursors)            -> [step |-> "page", cursor |-> c.cursors[want]]
      [] OTHER                             -> [step |-> "gap",  cursor |-> None]

\* Slip: another window goes on with the cursors of the one before.
FreshChainKept(f) == [chain EXCEPT !.filter = f]

FreshChain(f) == [cursors |-> <<Start>>, filter |-> f, ended |-> FALSE]

Request(f, want, goal) ==
    [filter |-> f, want |-> want, step |-> goal.step, cursor |-> goal.cursor, answer |-> Waiting]
Idle == Request(NoWindow, 1, [step |-> "idle", cursor |-> None])
Runs(s) == asked[s] # Idle

Begin(f, page) ==
    LET fresh == f # chain.filter
        c     == IF fresh THEN FreshChain(f) ELSE chain
        want  == IF fresh THEN 1 ELSE page
        quiet == \A s \in Slots : ~Runs(s)
    IN \E s \in Slots :
        /\ ~Runs(s)
        /\ asked' = [asked EXCEPT ![s] = Request(f, want, Goal(c, want))]
        /\ chain' = c
        /\ pageRef' = want
        /\ pager' = [pager EXCEPT !.loading = TRUE, !.filter = IF fresh THEN NoWindow ELSE @]
        /\ mixed' = (~quiet \/ (mixed /\ ~fresh))
        /\ UNCHANGED <<tablePage, newest>>

\* The search form is submitted or reset; with the same filters it is a reload.
Submit(f) ==
    /\ f \in tablePage.filters
    /\ Begin(f, pageRef)
    /\ still' = (still \/ f # chain.filter)
    /\ UNCHANGED log

\* The toolbar's reload.
Reload == chain.filter # NoWindow /\ Begin(chain.filter, pageRef) /\ UNCHANGED <<log, still>>

\* The three buttons of the pager.
GoBack ==
    /\ pager.page > 1 /\ ~pager.loading
    /\ \E p \in {1, pager.page - 1} : Begin(chain.filter, p)
    /\ UNCHANGED <<log, still>>

GoNext ==
    /\ pager.hasMore /\ ~pager.loading /\ pager.page < MaxPage
    /\ Begin(chain.filter, pager.page + 1)
    /\ UNCHANGED <<log, still>>

\* A row's delete or revoke button: the RPC succeeded, the table reloads.
RemoveRow(r) ==
    /\ tablePage.removes
    /\ r \in pager.rows \cap log
    /\ log' = log \ {r}
    /\ Begin(chain.filter, pageRef)
    /\ still' = FALSE

(***************************************************************************)
(* The service: answers a fetch, and gets new rows meanwhile.              *)
(***************************************************************************)
Serve(s) ==
    /\ Runs(s)
    /\ asked[s].step # "gap" /\ asked[s].answer = Waiting
    /\ asked' = [asked EXCEPT ![s].answer = Listed(asked[s].filter, asked[s].cursor)]
    /\ UNCHANGED <<tablePage, log, newest, pageRef, chain, pager, mixed, still>>

NewRow ==
    /\ newest < MaxRow
    /\ log' = log \cup {newest + 1}
    /\ newest' = newest + 1
    /\ still' = FALSE
    /\ UNCHANGED <<tablePage, pageRef, chain, pager, asked, mixed>>

(***************************************************************************)
(* What the request does when a fetch came back.                           *)
(***************************************************************************)
Answered(s) == Runs(s) /\ asked[s].answer # Waiting

\* A walk step: push the next cursor or note the end, and look again.
Walk(s) ==
    /\ Answered(s) /\ asked[s].step = "walk"
    /\ LET q == asked[s]
           c == IF q.answer.next # None
                THEN [chain EXCEPT !.cursors = Append(@, q.answer.next)]
                ELSE [chain EXCEPT !.ended = TRUE]
       IN /\ chain' = c
          /\ asked' = [asked EXCEPT ![s] = Request(q.filter, q.want, Goal(c, q.want))]
    /\ UNCHANGED <<tablePage, log, newest, pageRef, pager, mixed, still>>

Shown(q, rows, more) ==
    [page |-> q.want, hasMore |-> more, loading |-> FALSE, rows |-> rows,
     filter |-> q.filter, loaded |-> (q.want - 1) * PageSize + Cardinality(rows)]

\* Slip: a page loaded again adds its next cursor again.
ChainAfterPageAgain(c, want, next) ==
    IF next # None
    THEN [c EXCEPT !.cursors = Append(@, next), !.ended = FALSE]
    ELSE [c EXCEPT !.cursors = SubSeq(@, 1, IF Len(@) < want THEN Len(@) ELSE want), !.ended = TRUE]

ChainAfterPage(c, want, next) ==
    IF next # None
    THEN [c EXCEPT !.cursors = IF Len(@) = want THEN Append(@, next) ELSE @, !.ended = FALSE]
    ELSE [c EXCEPT !.cursors = SubSeq(@, 1, IF Len(@) < want THEN Len(@) ELSE want), !.ended = TRUE]

ShowPage(s) ==
    /\ Answered(s) /\ asked[s].step = "page"
    /\ LET q == asked[s]
       IN /\ chain' = ChainAfterPage(chain, q.want, q.answer.next)
          /\ pager' = Shown(q, q.answer.rows, q.answer.next # None)
    /\ asked' = [asked EXCEPT ![s] = Idle]
    /\ UNCHANGED <<tablePage, log, newest, pageRef, mixed, still>>

\* The chain ended before the page: an empty page, no fetch.
ShowGap(s) ==
    /\ Runs(s)
    /\ asked[s].step = "gap"
    /\ pager' = Shown(asked[s], {}, FALSE)
    /\ asked' = [asked EXCEPT ![s] = Idle]
    /\ UNCHANGED <<tablePage, log, newest, pageRef, chain, mixed, still>>

\* The fetch failed: the rows and the page number stay, loading ends.
TableFail(s) ==
    /\ Runs(s)
    /\ asked[s].step # "gap"
    /\ asked' = [asked EXCEPT ![s] = Idle]
    /\ pager' = [pager EXCEPT !.loading = FALSE]
    /\ UNCHANGED <<tablePage, log, newest, pageRef, chain, mixed, still>>

TableInit ==
    /\ tablePage \in TablePages
    /\ log = FirstRows /\ newest = Cardinality(FirstRows)
    /\ pageRef = 1
    /\ chain = [cursors |-> <<Start>>, filter |-> NoWindow, ended |-> FALSE]
    /\ pager = [page |-> 1, hasMore |-> FALSE, loading |-> FALSE, rows |-> {},
                filter |-> NoWindow, loaded |-> 0]
    /\ asked = [s \in Slots |-> Idle]
    /\ mixed = FALSE /\ still = TRUE

TableAnswers(s) == Walk(s) \/ ShowPage(s) \/ ShowGap(s) \/ TableFail(s)

TableNext ==
    \/ \E f \in Filters : Submit(f)
    \/ Reload \/ GoBack \/ GoNext \/ NewRow
    \/ \E r \in 1 .. MaxRow : RemoveRow(r)
    \/ \E s \in Slots : Serve(s) \/ TableAnswers(s)

TableSpec == TableInit /\ [][TableNext]_tableVars

(***************************************************************************)
(* Properties.                                                             *)
(***************************************************************************)
\* What each variable may hold.
TableTypeOK ==
    /\ log \subseteq 1 .. newest /\ newest \in 0 .. MaxRow
    /\ pageRef \in Nat \ {0}
    /\ chain.cursors \in Seq(1 .. Start) /\ Len(chain.cursors) > 0
    /\ chain.filter \in Filters \cup {NoWindow} /\ chain.ended \in BOOLEAN
    /\ pager \in [page : Nat \ {0}, hasMore : BOOLEAN, loading : BOOLEAN, rows : SUBSET (1 .. MaxRow),
                  filter : Filters \cup {NoWindow}, loaded : Nat]
    /\ mixed \in BOOLEAN /\ still \in BOOLEAN

\* The chain is "for the CURRENT query window" (CursorPager.tsx:36): as long as the
\* requests of a window did not overlap, its links lead from newer to older rows of
\* that window, and an enabled next-page button finds its entry cursor there.
ChainOfWindow ==
    ~mixed =>
      /\ \A i \in 2 .. Len(chain.cursors) :
           /\ chain.cursors[i] < chain.cursors[i - 1]
           /\ chain.cursors[i] \in Hits[chain.filter]
      /\ pager.filter # NoWindow /\ pager.hasMore => Len(chain.cursors) > pager.page

\* The next page of the window on the screen came up.
TurnsForward ==
    /\ pager'.page = pager.page + 1
    /\ pager.filter # NoWindow /\ pager'.filter = pager.filter
    /\ ~mixed

\* Walking an audit log forward never shows a row again, however many rows came in
\* between and whichever pages were visited before (LoginLogs.tsx:27).
NoRowTwice ==
    [][TurnsForward /\ ~tablePage.removes => \A old \in pager.rows, new \in pager'.rows : new < old]_pager

\* "An audit table only grows, so cursor paging never skips or repeats rows ... under a
\* steady write stream" (LoginLogs.tsx:25-27): turning forward in a log leaves out no row
\* of the window that lies between the page that was shown and the one that comes up.
LogSkipsNothing ==
    [][TurnsForward /\ ~tablePage.removes =>
         \A r \in log \cap Hits[pager.filter] :
            (\A old \in pager.rows : r < old) => \E new \in pager'.rows : r <= new]_pager

\* In a list nobody changed, the next page is exactly the next PageSize rows,
\* after any walk back and forth and any failed request.
NextPageFollows ==
    [][TurnsForward /\ still =>
         pager'.rows = Newest({r \in log \cap Hits[pager.filter] : \A old \in pager.rows : r < old})]_pager
=============================================================================
