------------------------------ MODULE TurnProofs ------------------------------
(***************************************************************************)
(* Proofs about the paged tables, continued: what turning to the next page *)
(* shows, for any rows, filters, page size and any number of requests.     *)
(***************************************************************************)
EXTENDS TableProofs

-----------------------------------------------------------------------------
(* The list RPC, in a log l.                                               *)
Window(l, f)           == l \cap Hits[f]
ListedIn(l, f, c)      == LET older == {r \in Window(l, f) : r < c}
                              rows  == Newest(older)
                          IN  [rows |-> rows, next |-> IF rows = older THEN None
                                                       ELSE CHOOSE r \in rows : \A q \in rows : r <= q]
Between(l, f, lo, hi)  == {r \in Window(l, f) : lo <= r /\ r < hi}
FullPage(l, f, lo, hi) == Cardinality(Between(l, f, lo, hi)) >= PageSize

\* The log is the one the service answers from.
LEMMA ListedInLog == ASSUME NEW f, NEW c PROVE Listed(f, c) = ListedIn(log, f, c)
  BY DEF Listed, ListedIn, Window

\* Sets of rows are finite.
LEMMA RowsFinite ==
    ASSUME NEW S \in SUBSET (1 .. MaxRow)
    PROVE  IsFiniteSet(S) /\ Cardinality(S) \in Nat
<1>1. IsFiniteSet(1 .. MaxRow)
  BY FS_Interval, RowsAssumption
<1>2. IsFiniteSet(S)
  BY <1>1, FS_Subset
<1> QED
  BY <1>2, FS_CardinalityType

\* A page that fills stays full when the log grows.
LEMMA FullGrows ==
    ASSUME NEW l \in SUBSET (1 .. MaxRow), NEW m \in SUBSET (1 .. MaxRow), l \subseteq m,
           NEW f, NEW lo, NEW hi, FullPage(l, f, lo, hi)
    PROVE  FullPage(m, f, lo, hi)
<1>1. Between(l, f, lo, hi) \subseteq Between(m, f, lo, hi)
  BY DEF Between, Window
<1>2. Between(m, f, lo, hi) \in SUBSET (1 .. MaxRow) /\ Between(l, f, lo, hi) \in SUBSET (1 .. MaxRow)
  BY DEF Between, Window
<1>3. Cardinality(Between(l, f, lo, hi)) <= Cardinality(Between(m, f, lo, hi))
  BY <1>1, <1>2, RowsFinite, FS_Subset
<1> QED
  BY <1>2, <1>3, RowsFinite, RowsAssumption DEF FullPage

\* What an answer holds: the rows just below its cursor; all of them, or a full page
\* whose last row is the next cursor.
LEMMA ListedHolds ==
    ASSUME NEW l \in SUBSET (1 .. MaxRow), NEW f \in Filters, NEW c \in 0 .. Start
    PROVE  LET a == ListedIn(l, f, c) IN
           /\ a.rows \subseteq {r \in Window(l, f) : r < c}
           /\ a.rows = Newest({r \in Window(l, f) : r < c})
           /\ a.next = None => a.rows = {r \in Window(l, f) : r < c}
           /\ a.next # None => /\ a.next \in a.rows /\ \A r \in a.rows : a.next <= r
                               /\ FullPage(l, f, a.next, c)
<1> DEFINE older == {r \in Window(l, f) : r < c}
           rows  == Newest(older)
           next  == IF rows = older THEN None ELSE CHOOSE r \in rows : \A q \in rows : r <= q
<1>1. older \subseteq 1 .. MaxRow /\ rows \subseteq older /\ older \subseteq l
  BY DEF Newest, Window
<1>2. \A r \in older : r \in Nat /\ None < r
  BY <1>1, RowsAssumption DEF None
<1>3. ASSUME rows # older
      PROVE  /\ next \in rows /\ \A r \in rows : next <= r
             /\ FullPage(l, f, next, c)
  <2>1. older # {}
    BY <1>1, <1>3
  <2>2. PICK g \in older : \A q \in older : q <= g
    BY <1>1, <2>1, GreatestRow
  <2>3. g \in rows
    <3>1. {q \in older : q > g} = {}
      BY <1>2, <2>2
    <3>2. Cardinality({q \in older : q > g}) = 0
      BY <3>1, FS_EmptySet
    <3> HIDE DEF older
    <3> QED
      BY <2>2, <3>2, RowsAssumption DEF Newest
  <2>4. next \in rows /\ \A r \in rows : next <= r
    <3>1. rows \in SUBSET Nat /\ rows # {}
      BY <1>1, <1>2, <2>3
    <3>2. \E r \in rows : \A q \in rows : r <= q
      BY <3>1, LeastRow
    <3> HIDE DEF rows, older
    <3> QED
      BY <1>3, <3>2
  <2> DEFINE below == {r \in older : r < next}
  <2> HIDE DEF next
  <2>5. PICK x \in older : x \notin rows
    BY <1>1, <1>3
  <2>6. \A r \in older : next < r => r \in rows
    <3>1. SUFFICES ASSUME NEW r \in older, next < r PROVE Cardinality({q \in older : q > r}) < PageSize
      <4> HIDE DEF older
      <4> QED
        BY <3>1 DEF Newest
    <3>2. {q \in older : q > r} \subseteq {q \in older : q > next}
      BY <1>1, <1>2, <2>4, <3>1
    <3>3. {q \in older : q > r} \in SUBSET (1 .. MaxRow) /\ {q \in older : q > next} \in SUBSET (1 .. MaxRow)
      BY <1>1
    <3>4. Cardinality({q \in older : q > r}) <= Cardinality({q \in older : q > next})
      BY <3>2, <3>3, RowsFinite, FS_Subset
    <3>5. Cardinality({q \in older : q > next}) < PageSize
      <4> HIDE DEF older
      <4> QED
        BY <2>4 DEF Newest
    <3> HIDE DEF older
    <3> QED
      BY <3>3, <3>4, <3>5, RowsFinite, RowsAssumption
  <2>7. x \in below
    BY <1>1, <1>2, <2>4, <2>5, <2>6
  <2>8. PICK b \in below : \A q \in below : q <= b
    <3>1. below \in SUBSET (1 .. MaxRow) /\ below # {}
      BY <1>1, <2>7
    <3> HIDE DEF below
    <3> QED
      BY <3>1, GreatestRow
  <2>9. b \in older /\ b < next /\ b \notin rows
    BY <1>1, <1>2, <2>4, <2>8
  <2>10. ~(Cardinality({q \in older : q > b}) < PageSize)
    <3> HIDE DEF older, below
    <3> QED
      BY <2>9 DEF Newest
  <2>11. {q \in older : q > b} = {q \in older : next <= q}
    BY <1>1, <1>2, <2>4, <2>8, <2>9
  <2>12. {q \in older : next <= q} = Between(l, f, next, c)
    BY DEF Between
  <2>13. Between(l, f, next, c) \in SUBSET (1 .. MaxRow)
    BY DEF Between, Window
  <2>14. Cardinality(Between(l, f, next, c)) \in Nat
    BY <2>13, RowsFinite
  <2> HIDE DEF older, below, rows
  <2> QED
    BY <2>4, <2>10, <2>11, <2>12, <2>14, RowsAssumption DEF FullPage
<1>4. ASSUME rows # older PROVE next # None
  BY <1>1, <1>2, <1>3, <1>4, RowsAssumption DEF None
<1>5. ListedIn(l, f, c) = [rows |-> rows, next |-> next]
  BY DEF ListedIn
<1>6. rows = older => next = None
  OBVIOUS
<1> HIDE DEF rows, next
<1> QED
  BY <1>1, <1>3, <1>4, <1>5, <1>6 DEF rows

\* An answer reaches no further than any full page below its cursor.
LEMMA AnswerAbove ==
    ASSUME NEW l \in SUBSET (1 .. MaxRow), NEW f \in Filters, NEW c \in 0 .. Start,
           NEW lo \in 0 .. Start, FullPage(l, f, lo, c)
    PROVE  \A r \in ListedIn(l, f, c).rows : lo <= r
<1> SUFFICES ASSUME NEW r \in ListedIn(l, f, c).rows, ~(lo <= r) PROVE FALSE
  OBVIOUS
<1> DEFINE older == {q \in Window(l, f) : q < c}
<1>1. r \in older /\ Cardinality({q \in older : q > r}) < PageSize
  <2> HIDE DEF older
  <2>1. ListedIn(l, f, c).rows = Newest(older)
    BY DEF ListedIn, older
  <2> QED
    BY <2>1 DEF Newest
<1>2. older \subseteq 1 .. MaxRow
  BY DEF Window
<1>3. Between(l, f, lo, c) \subseteq {q \in older : q > r}
  BY <1>1, <1>2, RowsAssumption DEF Between, Start
<1>4. {q \in older : q > r} \in SUBSET (1 .. MaxRow) /\ Between(l, f, lo, c) \in SUBSET (1 .. MaxRow)
  BY <1>2, <1>3
<1>5. Cardinality(Between(l, f, lo, c)) <= Cardinality({q \in older : q > r})
  BY <1>3, <1>4, RowsFinite, FS_Subset
<1> HIDE DEF older
<1> QED
  BY <1>1, <1>4, <1>5, RowsFinite, RowsAssumption DEF FullPage
-----------------------------------------------------------------------------
(* What the tables keep besides their chain.                               *)
\* The rows an answer brought: older than its cursor, down to its next one.
AnswerDown(q, l, removes) ==
    q.answer # Waiting =>
      /\ \A r \in q.answer.rows : r < q.cursor
      /\ q.answer.next # None =>
           /\ q.answer.next \in q.answer.rows
           /\ \A r \in q.answer.rows : q.answer.next <= r
           /\ ~removes => FullPage(l, q.filter, q.answer.next, q.cursor)

\* What the answer of an undisturbed window has to do with its chain.
AnswerJoins(q, c, l, removes, same) ==
    /\ q.step = "gap" => Len(c.cursors) < q.want
    /\ q.answer # Waiting =>
         /\ same => q.answer = ListedIn(l, q.filter, q.cursor)
         /\ ~removes /\ q.step = "page" /\ q.want < Len(c.cursors) =>
              \A r \in q.answer.rows : c.cursors[q.want + 1] <= r

\* A link has a full page of rows above it; in a list nobody changed, that very page.
LinksFull(c, l, removes, same) ==
    \A i, j \in 1 .. Len(c.cursors) : i = j + 1 =>
      /\ ~removes => FullPage(l, c.filter, c.cursors[i], c.cursors[j])
      /\ same => c.cursors[i] = ListedIn(l, c.filter, c.cursors[j]).next

\* The page on the screen ends where the chain enters the next one, and nothing past
\* that one is loaded.
ScreenJoins(p, c, wanted, removes, same) ==
    p.filter # NoWindow =>
      /\ wanted <= p.page \/ (p.hasMore /\ wanted <= p.page + 1)
      /\ p.hasMore /\ (~removes \/ same) => \A r \in p.rows : c.cursors[p.page + 1] <= r
      /\ p.hasMore /\ same => c.cursors[p.page + 1] \in p.rows

Answers == \A s \in Slots : Runs(s) => AnswerDown(asked[s], log, tablePage.removes)
Joins   == \A s \in Slots : Runs(s) => /\ asked[s].want = pageRef
                                       /\ AnswerJoins(asked[s], chain, log, tablePage.removes, still)

TurnInv == /\ Answers
           /\ ~mixed => /\ Joins
                        /\ LinksFull(chain, log, tablePage.removes, still)
                        /\ ScreenJoins(pager, chain, pageRef, tablePage.removes, still)

\* A fresh table has asked for nothing and shows nothing.
LEMMA TurnsStart == TableInit => TurnInv
<1>1. ASSUME TableInit PROVE (\A s \in Slots : ~Runs(s)) /\ Len(chain.cursors) = 1 /\ pager.filter = NoWindow
  BY <1>1 DEF TableInit, Runs
<1> QED
  BY <1>1 DEF TurnInv, Answers, Joins, LinksFull, ScreenJoins

\* Answers outlive a step that takes no row away and asks nothing it has answered.
LEMMA AnswersStay ==
    ASSUME TableInv, Answers, log' \in SUBSET (1 .. MaxRow), tablePage' = tablePage,
           tablePage.removes \/ log \subseteq log',
           \A s \in Slots : Runs(s)' => (Runs(s) /\ asked'[s] = asked[s]) \/ asked'[s].answer = Waiting
    PROVE  Answers'
<1> SUFFICES ASSUME NEW s \in Slots, Runs(s)' PROVE AnswerDown(asked'[s], log', tablePage.removes)
  BY DEF Answers
<1>1. CASE asked'[s].answer = Waiting
  BY <1>1 DEF AnswerDown
<1>2. CASE Runs(s) /\ asked'[s] = asked[s]
  <2>1. AnswerDown(asked[s], log, tablePage.removes)
    BY <1>2 DEF Answers
  <2>2. log \in SUBSET (1 .. MaxRow)
    BY RowsAssumption DEF TableInv, Typed
  <2> QED
    BY <1>2, <2>1, <2>2, FullGrows DEF AnswerDown
<1> QED
  BY <1>1, <1>2

\* A request that finds a gap wanted a page past the chain.
LEMMA GoalGap ==
    ASSUME NEW c \in Chains, NEW want \in Nat \ {0}, Goal(c, want).step = "gap"
    PROVE  Len(c.cursors) < want
<1>1. Len(c.cursors) \in Nat
  BY LenProperties DEF Chains
<1>2. CASE ~c.ended /\ Len(c.cursors) < want
  BY <1>2
<1>3. CASE ~(~c.ended /\ Len(c.cursors) < want) /\ want <= Len(c.cursors)
  <2>1. Goal(c, want) = [step |-> "page", cursor |-> c.cursors[want]]
    BY <1>3 DEF Goal
  <2> QED
    BY <2>1
<1> QED
  BY <1>1, <1>2, <1>3

(* A request that begins.                                                  *)
LEMMA BeginTurns ==
    ASSUME TableInv, TurnInv, NEW f \in Filters, NEW page \in Nat \ {0}, Begin(f, page),
           log' = log \/ (tablePage.removes /\ ~still' /\ log' \in SUBSET (1 .. MaxRow)),
           (f = chain.filter /\ still') => still,
           page <= pageRef \/ page <= pager.page \/ (pager.hasMore /\ page <= pager.page + 1)
    PROVE  TurnInv'
<1> DEFINE fresh == f # chain.filter
           c     == IF fresh THEN FreshChain(f) ELSE chain
           want  == IF fresh THEN 1 ELSE page
           quiet == \A s \in Slots : ~Runs(s)
           q     == Request(f, want, Goal(c, want))
<1>1. PICK s \in Slots :
        /\ ~Runs(s)
        /\ asked' = [asked EXCEPT ![s] = q]
        /\ chain' = c
        /\ pageRef' = want
        /\ pager' = [pager EXCEPT !.loading = TRUE, !.filter = IF fresh THEN NoWindow ELSE @]
        /\ mixed' = (~quiet \/ (mixed /\ ~fresh))
        /\ UNCHANGED <<tablePage, newest>>
  BY DEF Begin
<1>2. Len(<<Start>>) = 1 /\ <<Start>> \in Seq(1 .. Start)
  BY RowsAssumption DEF Start
<1>3. c \in Chains /\ want \in Nat \ {0} /\ q.answer = Waiting /\ q.want = want /\ q.step = Goal(c, want).step
  BY <1>2 DEF TableInv, Typed, Chains, FreshChain, Request
<1>4. log \in SUBSET (1 .. MaxRow) /\ pager \in Pagers /\ pageRef \in Nat \ {0} /\ asked \in [Slots -> Asks]
  BY RowsAssumption DEF TableInv, Typed
<1>5. q.step = "gap" => Len(c.cursors) < q.want
  <2> HIDE DEF c, want
  <2> QED
    BY <1>3, GoalGap
<1>6. fresh => Len(c.cursors) = 1
  BY <1>2 DEF FreshChain
<1> HIDE DEF q, c, want
<1>7. asked'[s] = q /\ \A t \in Slots : t # s => asked'[t] = asked[t]
  BY <1>1, <1>4
<1>8. Answers'
  <2>1. \A t \in Slots : Runs(t)' => (Runs(t) /\ asked'[t] = asked[t]) \/ asked'[t].answer = Waiting
    BY <1>3, <1>7 DEF Runs
  <2> QED
    BY <1>1, <1>4, <2>1, AnswersStay DEF TurnInv
<1>9. ASSUME ~mixed'
      PROVE  /\ Joins'
             /\ LinksFull(chain', log', tablePage.removes, still')
             /\ ScreenJoins(pager', chain', pageRef', tablePage.removes, still')
  <2>1. \A t \in Slots : Runs(t)' => t = s
    BY <1>1, <1>7, <1>9 DEF Runs
  <2>2. Joins'
    BY <1>1, <1>3, <1>5, <1>7, <2>1 DEF Joins, AnswerJoins
  <2>3. CASE fresh
    <3>1. pager'.filter = NoWindow
      BY <1>1, <1>4, <2>3 DEF Pagers
    <3> QED
      BY <1>1, <1>6, <2>2, <2>3, <3>1 DEF LinksFull, ScreenJoins
  <2>4. CASE ~fresh
    <3>1. ~mixed /\ chain' = chain /\ pageRef' = page
      BY <1>1, <1>9, <2>4 DEF c, want
    <3>2. /\ pager'.filter = pager.filter /\ pager'.page = pager.page
          /\ pager'.hasMore = pager.hasMore /\ pager'.rows = pager.rows
      BY <1>1, <1>4, <2>4 DEF Pagers
    <3>3. LinksFull(chain, log, tablePage.removes, still) /\ ScreenJoins(pager, chain, pageRef, tablePage.removes, still)
      BY <3>1 DEF TurnInv
    <3>4. LinksFull(chain', log', tablePage.removes, still')
      BY <2>4, <3>1, <3>3 DEF LinksFull
    <3>5. page <= pager.page \/ (pager.hasMore /\ page <= pager.page + 1) \/ pager.filter = NoWindow
      BY <1>4, <3>3 DEF ScreenJoins, Pagers
    <3>6. ScreenJoins(pager', chain', pageRef', tablePage.removes, still')
      BY <2>4, <3>1, <3>2, <3>3, <3>5 DEF ScreenJoins
    <3> QED
      BY <2>2, <3>4, <3>6
  <2> QED
    BY <2>3, <2>4
<1> QED
  BY <1>1, <1>8, <1>9 DEF TurnInv
-----------------------------------------------------------------------------
(* The service and the answers.                                            *)
\* The service answers a fetch.
LEMMA ServeTurns == ASSUME TableInv, TurnInv, NEW s \in Slots, Serve(s) PROVE TurnInv'
<1> DEFINE a == ListedIn(log, asked[s].filter, asked[s].cursor)
           r == [asked[s] EXCEPT !.answer = a]
<1>1. /\ Runs(s) /\ asked[s].step # "gap" /\ asked' = [asked EXCEPT ![s] = r]
      /\ UNCHANGED <<tablePage, log, newest, pageRef, chain, pager, mixed, still>>
  BY ListedInLog DEF Serve
<1>2. asked[s] \in Asks /\ asked[s].filter \in Filters /\ asked[s].cursor \in 0 .. Start
  BY <1>1 DEF TableInv, Typed, AskFits, Runs, Asks
<1>3. /\ r.filter = asked[s].filter /\ r.want = asked[s].want /\ r.step = asked[s].step
      /\ r.cursor = asked[s].cursor /\ r.answer = a
  BY <1>2 DEF Asks
<1>4. log \in SUBSET (1 .. MaxRow)
  BY RowsAssumption DEF TableInv, Typed
<1>5. /\ \A x \in a.rows : x < asked[s].cursor
      /\ a.next # None => /\ a.next \in a.rows /\ \A x \in a.rows : a.next <= x
                          /\ FullPage(log, asked[s].filter, a.next, asked[s].cursor)
  <2> HIDE DEF r
  <2> QED
    BY <1>2, <1>4, ListedHolds
<1> HIDE DEF a, r
<1>6. asked'[s] = r /\ \A t \in Slots : t # s => asked'[t] = asked[t]
  BY <1>1 DEF TableInv, Typed
<1>7. Answers'
  <2> SUFFICES ASSUME NEW t \in Slots, Runs(t)' PROVE AnswerDown(asked'[t], log, tablePage.removes)
    BY <1>1 DEF Answers
  <2>1. CASE t = s
    BY <1>3, <1>5, <1>6, <2>1 DEF AnswerDown
  <2>2. CASE t # s
    BY <1>6, <2>2 DEF TurnInv, Answers, Runs
  <2> QED
    BY <2>1, <2>2
<1>8. ASSUME ~mixed PROVE Joins'
  <2>1. /\ \A t \in Slots : Runs(t)' => t = s
        /\ Stands(asked[s], chain) /\ asked[s].want = pageRef /\ LinksFull(chain, log, tablePage.removes, still)
    BY <1>1, <1>6, <1>8 DEF TableInv, WindowInv, Alone, Runs, TurnInv, Joins
  <2>2. ASSUME ~tablePage.removes, r.step = "page", r.want < Len(chain.cursors)
        PROVE  \A x \in a.rows : chain.cursors[r.want + 1] <= x
    <3>1. /\ r.want \in Nat \ {0} /\ Len(chain.cursors) \in Nat
          /\ \A i \in 1 .. Len(chain.cursors) : chain.cursors[i] \in 1 .. Start
      <4>1. chain.cursors \in Seq(1 .. Start) /\ r.want \in Nat \ {0}
        BY <1>2, <1>3 DEF TableInv, Typed, Chains, Asks
      <4> QED
        BY <4>1, LenProperties
    <3>2. r.want + 1 \in 1 .. Len(chain.cursors) /\ r.want \in 1 .. Len(chain.cursors)
      BY <2>2, <3>1
    <3>3. FullPage(log, chain.filter, chain.cursors[r.want + 1], chain.cursors[r.want])
      BY <2>1, <2>2, <3>2 DEF LinksFull
    <3>4. asked[s].filter = chain.filter /\ asked[s].cursor = chain.cursors[r.want]
      BY <1>3, <2>1, <2>2 DEF Stands
    <3>5. chain.cursors[r.want + 1] \in 0 .. Start
      BY <3>1, <3>2, RowsAssumption DEF Start
    <3> QED
      BY <1>2, <1>4, <3>3, <3>4, <3>5, AnswerAbove DEF a
  <2>3. AnswerJoins(r, chain, log, tablePage.removes, still)
    BY <1>1, <1>3, <2>2 DEF AnswerJoins, a
  <2> QED
    BY <1>1, <1>3, <1>6, <2>1, <2>3 DEF Joins
<1> QED
  BY <1>1, <1>7, <1>8 DEF TurnInv

\* A new row comes in: full pages stay full, and the list has changed.
LEMMA NewRowTurns == ASSUME TableInv, TurnInv, NewRow PROVE TurnInv'
<1>1. /\ log' = log \cup {newest + 1} /\ newest < MaxRow /\ still' = FALSE
      /\ UNCHANGED <<tablePage, pageRef, chain, pager, asked, mixed>>
  BY DEF NewRow
<1>2. log \in SUBSET (1 .. MaxRow) /\ log' \in SUBSET (1 .. MaxRow) /\ log \subseteq log'
  BY <1>1, RowsAssumption DEF TableInv, Typed
<1>3. Answers'
  <2>1. \A s \in Slots : Runs(s)' => Runs(s) /\ asked'[s] = asked[s]
    BY <1>1 DEF Runs
  <2> QED
    BY <1>1, <1>2, <2>1, AnswersStay DEF TurnInv
<1>4. ASSUME ~mixed
      PROVE  /\ Joins' /\ LinksFull(chain', log', tablePage.removes, still')
             /\ ScreenJoins(pager', chain', pageRef', tablePage.removes, still')
  <2>1. Joins /\ LinksFull(chain, log, tablePage.removes, still)
        /\ ScreenJoins(pager, chain, pageRef, tablePage.removes, still)
    BY <1>4 DEF TurnInv
  <2>2. Joins'
    BY <1>1, <2>1 DEF Joins, AnswerJoins, Runs
  <2>3. LinksFull(chain', log', tablePage.removes, still')
    BY <1>1, <1>2, <2>1, FullGrows DEF LinksFull
  <2> QED
    BY <1>1, <2>1, <2>2, <2>3 DEF ScreenJoins
<1> QED
  BY <1>1, <1>3, <1>4 DEF TurnInv

\* The next link of a chain, when it is full.
LinkFits(c, next) ==
    /\ ~tablePage.removes => FullPage(log, c.filter, next, c.cursors[Len(c.cursors)])
    /\ still => next = ListedIn(log, c.filter, c.cursors[Len(c.cursors)]).next

\* A chain that got a full link at its end has full links.
LEMMA LinkFills ==
    ASSUME NEW c \in Chains, NEW d \in Chains, Len(c.cursors) > 0, d.filter = c.filter,
           LinksFull(c, log, tablePage.removes, still), NEW next \in 0 .. Start,
           next # None => LinkFits(c, next),
           \A i \in 1 .. Len(d.cursors) :
              \/ i <= Len(c.cursors) /\ d.cursors[i] = c.cursors[i]
              \/ next # None /\ i = Len(c.cursors) + 1 /\ d.cursors[i] = next
    PROVE  LinksFull(d, log, tablePage.removes, still)
<1>1. Len(c.cursors) \in Nat /\ Len(d.cursors) \in Nat
  BY LenProperties DEF Chains
<1>2. ASSUME NEW i \in 1 .. Len(d.cursors), NEW j \in 1 .. Len(d.cursors), i = j + 1
      PROVE  /\ ~tablePage.removes => FullPage(log, c.filter, d.cursors[i], d.cursors[j])
             /\ still => d.cursors[i] = ListedIn(log, c.filter, d.cursors[j]).next
  <2>1. CASE i <= Len(c.cursors)
    BY <1>1, <1>2, <2>1 DEF LinksFull
  <2>2. CASE i = Len(c.cursors) + 1
    BY <1>1, <1>2, <2>2 DEF LinkFits
  <2> QED
    BY <1>1, <1>2, <2>1, <2>2
<1> QED
  BY <1>2 DEF LinksFull

(* A request that ended, with the chain and the pager it left behind.      *)
LEMMA EndTurns ==
    ASSUME TableInv, TurnInv, NEW s \in Slots, Runs(s), asked' = [asked EXCEPT ![s] = Idle],
           UNCHANGED <<tablePage, log, newest, pageRef, mixed, still>>,
           ~mixed => /\ LinksFull(chain', log, tablePage.removes, still)
                     /\ ScreenJoins(pager', chain', pageRef, tablePage.removes, still)
    PROVE  TurnInv'
<1>1. asked'[s] = Idle /\ \A t \in Slots : t # s => asked'[t] = asked[t]
  BY DEF TableInv, Typed
<1>2. Answers'
  BY <1>1 DEF TurnInv, Answers, Runs
<1>3. ASSUME ~mixed PROVE \A t \in Slots : ~Runs(t)'
  BY <1>1, <1>3 DEF TableInv, WindowInv, Alone, Runs
<1> QED
  BY <1>2, <1>3 DEF TurnInv, Joins

\* A fetch fails: nothing but the request is gone.
LEMMA FailTurns == ASSUME TableInv, TurnInv, NEW s \in Slots, TableFail(s) PROVE TurnInv'
<1>1. /\ Runs(s) /\ asked' = [asked EXCEPT ![s] = Idle] /\ pager' = [pager EXCEPT !.loading = FALSE]
      /\ UNCHANGED <<tablePage, log, newest, pageRef, chain, mixed, still>>
  BY DEF TableFail
<1>2. /\ pager'.hasMore = pager.hasMore /\ pager'.page = pager.page
      /\ pager'.filter = pager.filter /\ pager'.rows = pager.rows
  BY <1>1 DEF TableInv, Typed, Pagers
<1> QED
  BY <1>1, <1>2, EndTurns DEF TurnInv, ScreenJoins

\* The list ended before the wanted page.
LEMMA GapTurns == ASSUME TableInv, TurnInv, NEW s \in Slots, ShowGap(s) PROVE TurnInv'
<1>1. /\ Runs(s) /\ pager' = Shown(asked[s], {}, FALSE) /\ asked' = [asked EXCEPT ![s] = Idle]
      /\ UNCHANGED <<tablePage, log, newest, pageRef, chain, mixed, still>>
  BY DEF ShowGap
<1>2. ~pager'.hasMore /\ pager'.page = asked[s].want
  BY <1>1 DEF Shown
<1>3. ~mixed => asked[s].want = pageRef
  BY <1>1 DEF TurnInv, Joins
<1>4. pageRef \in Nat
  BY DEF TableInv, Typed
<1>5. ~mixed => ScreenJoins(pager', chain', pageRef, tablePage.removes, still)
  BY <1>2, <1>3, <1>4 DEF ScreenJoins
<1>6. ~mixed => LinksFull(chain', log, tablePage.removes, still)
  BY <1>1 DEF TurnInv
<1> QED
  BY <1>1, <1>5, <1>6, EndTurns

\* A link fetched on the way to the wanted page.
LEMMA WalkTurns == ASSUME TableInv, TurnInv, NEW s \in Slots, Walk(s) PROVE TurnInv'
<1> DEFINE q == asked[s]
           c == IF q.answer.next # None
                THEN [chain EXCEPT !.cursors = Append(@, q.answer.next)]
                ELSE [chain EXCEPT !.ended = TRUE]
           r == Request(q.filter, q.want, Goal(c, q.want))
<1>1. /\ Runs(s) /\ q.answer # Waiting /\ q.step = "walk"
      /\ chain' = c /\ asked' = [asked EXCEPT ![s] = r]
      /\ UNCHANGED <<tablePage, log, newest, pageRef, pager, mixed, still>>
  BY DEF Walk, Answered
<1>2. /\ q \in Asks /\ q.want \in Nat \ {0} /\ q.answer.next \in 0 .. Start
      /\ q.answer.next = None \/ (q.answer.next \in Hits[q.filter] /\ q.answer.next < q.cursor)
  BY <1>1 DEF TableInv, Typed, Asks, AskFits, Runs, Fits
<1>3. chain \in Chains /\ chain.cursors \in Seq(1 .. Start) /\ Len(chain.cursors) \in Nat \ {0} /\ pager \in Pagers
  BY LenProperties DEF TableInv, Typed, Chains
<1>4. /\ c \in Chains /\ c.filter = chain.filter /\ Len(c.cursors) \in Nat
      /\ Len(c.cursors) >= Len(chain.cursors)
      /\ \A i \in 1 .. Len(c.cursors) :
            \/ i <= Len(chain.cursors) /\ c.cursors[i] = chain.cursors[i]
            \/ q.answer.next # None /\ i = Len(chain.cursors) + 1 /\ c.cursors[i] = q.answer.next
  <2> HIDE DEF q
  <2>1. CASE q.answer.next # None
    <3>1. q.answer.next \in 1 .. Start
      BY <1>2, <2>1, RowsAssumption DEF None, Start
    <3>2. /\ Append(chain.cursors, q.answer.next) \in Seq(1 .. Start)
          /\ Len(Append(chain.cursors, q.answer.next)) = Len(chain.cursors) + 1
          /\ \A i \in 1 .. Len(chain.cursors) : Append(chain.cursors, q.answer.next)[i] = chain.cursors[i]
          /\ Append(chain.cursors, q.answer.next)[Len(chain.cursors) + 1] = q.answer.next
      BY <1>3, <3>1, AppendProperties
    <3>3. c.cursors = Append(chain.cursors, q.answer.next) /\ c.filter = chain.filter /\ c \in Chains
      BY <1>3, <2>1, <3>2 DEF Chains
    <3> HIDE DEF c
    <3> QED
      BY <1>3, <2>1, <3>2, <3>3
  <2>2. CASE q.answer.next = None
    <3>1. c.cursors = chain.cursors /\ c.filter = chain.filter /\ c \in Chains
      BY <1>3, <2>2 DEF Chains
    <3> HIDE DEF c
    <3> QED
      BY <1>3, <3>1
  <2> QED
    BY <2>1, <2>2
<1>5. r.answer = Waiting /\ r.want = q.want /\ r.step = Goal(c, q.want).step
  BY DEF Request
<1> HIDE DEF c, r
<1>6. r.step = "gap" => Len(c.cursors) < r.want
  BY <1>2, <1>4, <1>5, GoalGap
<1>7. asked'[s] = r /\ \A t \in Slots : t # s => asked'[t] = asked[t]
  BY <1>1 DEF TableInv, Typed
<1>8. Answers'
  <2>1. \A t \in Slots : Runs(t)' => (Runs(t) /\ asked'[t] = asked[t]) \/ asked'[t].answer = Waiting
    BY <1>5, <1>7 DEF Runs
  <2>2. log' \in SUBSET (1 .. MaxRow)
    BY <1>1, RowsAssumption DEF TableInv, Typed
  <2> QED
    BY <1>1, <2>1, <2>2, AnswersStay DEF TurnInv
<1>9. ASSUME ~mixed
      PROVE  /\ Joins'
             /\ LinksFull(chain', log', tablePage.removes, still')
             /\ ScreenJoins(pager', chain', pageRef', tablePage.removes, still')
  <2>1. /\ LinksFull(chain, log, tablePage.removes, still) /\ ScreenJoins(pager, chain, pageRef, tablePage.removes, still)
        /\ Stands(q, chain) /\ q.want = pageRef /\ AnswerJoins(q, chain, log, tablePage.removes, still)
        /\ AnswerDown(q, log, tablePage.removes)
        /\ \A t \in Slots : Runs(t) => t = s
    BY <1>1, <1>9 DEF TurnInv, Joins, Answers, TableInv, WindowInv, Alone
  <2>2. \A t \in Slots : Runs(t)' => t = s
    BY <1>7, <2>1 DEF Runs
  <2>3. Joins'
    BY <1>1, <1>5, <1>6, <1>7, <2>1, <2>2 DEF Joins, AnswerJoins
  <2> HIDE DEF q
  <2>4. q.filter = chain.filter /\ q.cursor = chain.cursors[Len(chain.cursors)]
    BY <1>1, <2>1 DEF Stands
  <2>5. ASSUME q.answer.next # None
        PROVE  LinkFits(chain, q.answer.next)
    BY <1>1, <2>1, <2>4, <2>5 DEF AnswerDown, AnswerJoins, LinkFits
  <2>6. LinksFull(c, log, tablePage.removes, still)
    BY <1>2, <1>3, <1>4, <2>1, <2>5, LinkFills
  <2>7. ASSUME pager.filter # NoWindow, pager.hasMore
        PROVE  c.cursors[pager.page + 1] = chain.cursors[pager.page + 1]
    <3>1. pager.page \in Nat /\ Len(chain.cursors) > pager.page
      BY <1>3, <1>9, <2>7 DEF TableInv, WindowInv, Pagers
    <3>2. pager.page + 1 \in 1 .. Len(c.cursors) /\ pager.page + 1 # Len(chain.cursors) + 1
      BY <1>3, <1>4, <3>1
    <3> QED
      BY <1>4, <3>2
  <2>8. ScreenJoins(pager, c, pageRef, tablePage.removes, still)
    BY <2>1, <2>7 DEF ScreenJoins
  <2> QED
    BY <1>1, <2>3, <2>6, <2>8
<1> QED
  BY <1>1, <1>8, <1>9 DEF TurnInv

\* The wanted page comes up.
LEMMA PageTurns == ASSUME TableInv, TurnInv, NEW s \in Slots, ShowPage(s) PROVE TurnInv'
<1> DEFINE q == asked[s]
           d == ChainAfterPage(chain, q.want, q.answer.next)
<1>1. /\ Runs(s) /\ q.answer # Waiting /\ q.step = "page"
      /\ chain' = d /\ pager' = Shown(q, q.answer.rows, q.answer.next # None)
      /\ asked' = [asked EXCEPT ![s] = Idle]
      /\ UNCHANGED <<tablePage, log, newest, pageRef, mixed, still>>
  BY DEF ShowPage, Answered
<1>2. /\ q \in Asks /\ q.want \in Nat \ {0} /\ q.answer.next \in 0 .. Start
      /\ q.answer.next = None \/ (q.answer.next \in Hits[q.filter] /\ q.answer.next < q.cursor)
  BY <1>1 DEF TableInv, Typed, Asks, AskFits, Runs, Fits
<1>3. chain \in Chains /\ Len(chain.cursors) \in Nat \ {0}
  BY LenProperties DEF TableInv, Typed, Chains
<1>4. q.answer.next # None => q.answer.next \in 1 .. Start
  BY <1>2, RowsAssumption DEF None, Start
<1> HIDE DEF q
<1>5. /\ d \in Chains /\ d.filter = chain.filter /\ Len(d.cursors) > 0
      /\ (q.answer.next # None /\ q.want <= Len(chain.cursors)) => Len(d.cursors) > q.want
      /\ \A i \in 1 .. Len(d.cursors) :
            \/ i <= Len(chain.cursors) /\ d.cursors[i] = chain.cursors[i]
            \/ q.answer.next # None /\ i = q.want + 1 /\ i = Len(chain.cursors) + 1 /\ d.cursors[i] = q.answer.next
  <2>1. Prolongs(d, chain, q.want, q.answer.next)
    BY <1>2, <1>3, <1>4, PageKeepsChain
  <2> QED
    BY <2>1 DEF Prolongs
<1>6. /\ pager'.page = q.want /\ (pager'.hasMore <=> q.answer.next # None)
      /\ pager'.rows = q.answer.rows
  BY <1>1 DEF Shown
<1> HIDE DEF d
<1>7. ASSUME ~mixed
      PROVE  /\ LinksFull(d, log, tablePage.removes, still)
             /\ ScreenJoins(pager', d, pageRef, tablePage.removes, still)
  <2>1. /\ LinksFull(chain, log, tablePage.removes, still)
        /\ Stands(q, chain) /\ q.want = pageRef /\ AnswerJoins(q, chain, log, tablePage.removes, still)
        /\ AnswerDown(q, log, tablePage.removes)
    BY <1>1, <1>7 DEF TurnInv, Joins, Answers, TableInv, WindowInv, q
  <2>2. q.filter = chain.filter /\ q.cursor = chain.cursors[q.want] /\ q.want <= Len(chain.cursors)
    BY <1>1, <2>1 DEF Stands
  <2>3. LinksFull(d, log, tablePage.removes, still)
    <3>0. /\ chain \in Chains /\ d \in Chains /\ Len(chain.cursors) > 0 /\ d.filter = chain.filter
          /\ LinksFull(chain, log, tablePage.removes, still) /\ q.answer.next \in 0 .. Start
      BY <1>2, <1>3, <1>5, <2>1
    <3>1. CASE q.want = Len(chain.cursors)
      <4>1. ASSUME q.answer.next # None
            PROVE  LinkFits(chain, q.answer.next)
        BY <1>1, <2>1, <2>2, <3>1, <4>1 DEF AnswerDown, AnswerJoins, LinkFits
      <4>2. \A i \in 1 .. Len(d.cursors) :
              \/ i <= Len(chain.cursors) /\ d.cursors[i] = chain.cursors[i]
              \/ q.answer.next # None /\ i = Len(chain.cursors) + 1 /\ d.cursors[i] = q.answer.next
        BY <1>5
      <4> QED
        BY <3>0, <4>1, <4>2, LinkFills
    <3>2. CASE q.want # Len(chain.cursors)
      <4>1. \A i \in 1 .. Len(d.cursors) : i <= Len(chain.cursors) /\ d.cursors[i] = chain.cursors[i]
        BY <1>2, <1>3, <1>5, <3>2
      <4>2. None \in 0 .. Start
        BY RowsAssumption DEF None, Start
      <4> QED
        BY <3>0, <4>1, <4>2, LinkFills
    <3> QED
      BY <3>1, <3>2
  <2>4. ASSUME q.answer.next # None
        PROVE  /\ ~tablePage.removes \/ still => \A r \in q.answer.rows : d.cursors[q.want + 1] <= r
               /\ still => d.cursors[q.want + 1] \in q.answer.rows
    <3>1. q.want + 1 \in 1 .. Len(d.cursors) /\ Len(d.cursors) \in Nat
      <4>1. Len(d.cursors) \in Nat /\ Len(d.cursors) > q.want
        BY <1>2, <1>5, <2>2, <2>4, LenProperties DEF Chains
      <4> QED
        BY <1>2, <4>1
    <3>2. q.answer.next \in q.answer.rows /\ \A r \in q.answer.rows : q.answer.next <= r
      BY <1>1, <2>1, <2>4 DEF AnswerDown
    <3>3. CASE d.cursors[q.want + 1] = q.answer.next
      BY <3>2, <3>3
    <3>4. CASE q.want + 1 <= Len(chain.cursors) /\ d.cursors[q.want + 1] = chain.cursors[q.want + 1]
      <4>1. /\ q.want + 1 \in 1 .. Len(chain.cursors) /\ q.want \in 1 .. Len(chain.cursors)
            /\ q.want < Len(chain.cursors)
        BY <1>2, <1>3, <3>4
      <4>2. ~tablePage.removes => \A r \in q.answer.rows : chain.cursors[q.want + 1] <= r
        BY <1>1, <2>1, <4>1 DEF AnswerJoins
      <4>3. ASSUME still PROVE chain.cursors[q.want + 1] = q.answer.next
        <5>1. q.answer = ListedIn(log, chain.filter, chain.cursors[q.want])
          BY <1>1, <2>1, <2>2, <4>3 DEF AnswerJoins
        <5> QED
          BY <2>1, <4>1, <4>3, <5>1 DEF LinksFull
      <4> QED
        BY <3>2, <3>4, <4>2, <4>3
    <3> QED
      BY <1>5, <3>1, <3>3, <3>4
  <2>5. ScreenJoins(pager', d, pageRef, tablePage.removes, still)
    BY <1>2, <1>6, <2>1, <2>4 DEF ScreenJoins
  <2> QED
    BY <2>3, <2>5
<1> QED
  BY <1>1, <1>7, EndTurns DEF q

(* Every step keeps what the tables show and have asked for in line.       *)
LEMMA TurnSteps == TableInv /\ TurnInv /\ [TableNext]_tableVars => TurnInv'
<1> SUFFICES ASSUME TableInv, TurnInv, [TableNext]_tableVars PROVE TurnInv'
  OBVIOUS
<1>1. /\ log \in SUBSET (1 .. MaxRow) /\ pageRef \in Nat \ {0}
      /\ pager \in Pagers /\ pager.page \in Nat \ {0} /\ chain.filter \in Filters \cup {NoWindow}
  BY RowsAssumption DEF TableInv, Typed, Chains, Pagers
<1>2. ASSUME NEW f \in Filters, Submit(f) PROVE TurnInv'
  <2>1. Begin(f, pageRef) /\ log' = log /\ (still' <=> (still \/ f # chain.filter))
    BY <1>2 DEF Submit
  <2>2. (f = chain.filter /\ still') => still
    BY <2>1
  <2> QED
    BY <1>1, <2>1, <2>2, BeginTurns
<1>3. CASE Reload
  BY <1>1, <1>3, BeginTurns DEF Reload
<1>4. CASE GoBack
  <2>1. chain.filter \in Filters /\ pager.page > 1
    BY <1>1, <1>4 DEF TableInv, NothingYet, GoBack
  <2>2. PICK p \in {1, pager.page - 1} : Begin(chain.filter, p)
    BY <1>4 DEF GoBack
  <2>3. p \in Nat \ {0} /\ p <= pager.page
    BY <1>1, <2>1, <2>2
  <2> QED
    BY <1>1, <1>4, <2>1, <2>2, <2>3, BeginTurns DEF GoBack
<1>5. CASE GoNext
  <2>1. chain.filter \in Filters /\ pager.hasMore
    BY <1>1, <1>5 DEF TableInv, NothingYet, GoNext
  <2>2. pager.page + 1 \in Nat \ {0}
    BY <1>1
  <2> QED
    BY <1>1, <1>5, <2>1, <2>2, BeginTurns DEF GoNext
<1>6. ASSUME NEW r \in 1 .. MaxRow, RemoveRow(r) PROVE TurnInv'
  <2>1. chain.filter \in Filters
    BY <1>1, <1>6 DEF TableInv, NothingYet, RemoveRow
  <2>2. log' \in SUBSET (1 .. MaxRow)
    BY <1>1, <1>6 DEF RemoveRow
  <2> QED
    BY <1>1, <1>6, <2>1, <2>2, BeginTurns DEF RemoveRow
<1>7. ASSUME NEW s \in Slots, Serve(s) \/ TableAnswers(s) PROVE TurnInv'
  BY <1>7, ServeTurns, WalkTurns, PageTurns, GapTurns, FailTurns DEF TableAnswers
<1>8. CASE UNCHANGED tableVars
  BY <1>8 DEF tableVars, TurnInv, Answers, Joins, Runs
<1> QED
  BY <1>2, <1>3, <1>4, <1>5, <1>6, <1>7, <1>8, NewRowTurns DEF TableNext

(* A page that comes up after the one before it is the answer to its entry *)
(* cursor in the chain, where the page before it ended.                    *)
LEMMA ForwardIsAnswer ==
    ASSUME TableInv, TurnInv, [TableNext]_tableVars, TurnsForward
    PROVE  /\ pager.hasMore /\ log' = log
           /\ LET cursor == chain.cursors[pager.page + 1] IN
              /\ ~tablePage.removes \/ still => \A r \in pager.rows : cursor <= r
              /\ still => cursor \in pager.rows /\ pager'.rows = ListedIn(log, pager.filter, cursor).rows
              /\ cursor \in 1 .. Start
              /\ \A r \in pager'.rows : r < cursor
<1>1. pager \in Pagers /\ pager.page \in Nat \ {0} /\ pager'.page # pager.page /\ Len(chain.cursors) \in Nat
  BY LenProperties DEF TableInv, Typed, Pagers, TurnsForward, Chains
<1>2. ASSUME NEW f, NEW page, Begin(f, page) PROVE FALSE
  <2>1. pager' = [pager EXCEPT !.loading = TRUE, !.filter = pager'.filter]
    BY <1>1, <1>2 DEF Begin, Pagers
  <2> QED
    BY <1>1, <2>1 DEF Pagers
<1>3. UNCHANGED pager \/ \E s \in Slots : ShowPage(s) \/ ShowGap(s) \/ TableFail(s)
  BY <1>2 DEF TableNext, TableAnswers, Submit, Reload, GoBack, GoNext, RemoveRow, NewRow, Serve, Walk, tableVars
<1>4. PICK s \in Slots : ShowPage(s) \/ ShowGap(s)
  <2>1. ASSUME NEW s \in Slots, TableFail(s) PROVE pager'.page = pager.page
    BY <1>1, <2>1 DEF TableFail, Pagers
  <2> QED
    BY <1>1, <1>3, <2>1
<1>5. /\ Runs(s) /\ Stands(asked[s], chain) /\ asked[s].want = pageRef
      /\ AnswerJoins(asked[s], chain, log, tablePage.removes, still)
      /\ AnswerDown(asked[s], log, tablePage.removes)
      /\ ScreenJoins(pager, chain, pageRef, tablePage.removes, still)
  BY <1>4 DEF ShowPage, ShowGap, Answered, TurnsForward, TableInv, WindowInv, TurnInv, Joins, Answers
<1>6. pager'.page = asked[s].want /\ pager'.filter = asked[s].filter
  BY <1>4 DEF ShowPage, ShowGap, Shown
<1>7. pager.hasMore /\ Len(chain.cursors) > pager.page /\ asked[s].want = pager.page + 1
  BY <1>1, <1>5, <1>6 DEF TurnsForward, ScreenJoins, TableInv, WindowInv
<1>8. ShowPage(s)
  <2>1. ASSUME ShowGap(s) PROVE Len(chain.cursors) < asked[s].want
    <3>1. asked[s].step = "gap"
      BY <2>1 DEF ShowGap
    <3> QED
      BY <1>5, <3>1 DEF AnswerJoins
  <2> QED
    BY <1>1, <1>4, <1>7, <2>1
<1>9. /\ asked[s].step = "page" /\ asked[s].answer # Waiting
      /\ pager'.rows = asked[s].answer.rows /\ log' = log
  BY <1>8 DEF ShowPage, Answered, Shown
<1>10. asked[s].cursor = chain.cursors[pager.page + 1]
  BY <1>5, <1>7, <1>9 DEF Stands
<1>11. chain.cursors[pager.page + 1] \in 1 .. Start
  <2>1. chain.cursors \in Seq(1 .. Start) /\ pager.page + 1 \in 1 .. Len(chain.cursors)
    BY <1>1, <1>7 DEF TableInv, Typed, Chains
  <2> QED
    BY <2>1, LenProperties
<1>12. /\ ~tablePage.removes \/ still => \A r \in pager.rows : chain.cursors[pager.page + 1] <= r
       /\ still => chain.cursors[pager.page + 1] \in pager.rows
  BY <1>5, <1>7 DEF ScreenJoins, TurnsForward
<1>13. still => pager'.rows = ListedIn(log, pager.filter, chain.cursors[pager.page + 1]).rows
  BY <1>5, <1>6, <1>9, <1>10 DEF AnswerJoins, TurnsForward
<1>14. \A r \in pager'.rows : r < chain.cursors[pager.page + 1]
  BY <1>5, <1>9, <1>10 DEF AnswerDown
<1> QED
  BY <1>7, <1>9, <1>11, <1>12, <1>13, <1>14

-----------------------------------------------------------------------------
(* Walking an audit log forward never shows a row again, whatever comes in *)
(* between, fails or is asked twice, for any page size.                    *)
THEOREM LogShowsNoRowTwice == TableSpec => NoRowTwice
<1>1. ASSUME TableInv, TurnInv, [TableNext]_tableVars, TurnsForward, ~tablePage.removes
      PROVE  \A old \in pager.rows, new \in pager'.rows : new < old
  <2>1. /\ pager.rows \subseteq Nat /\ pager'.rows \subseteq Nat /\ Start \in Nat
        /\ chain.cursors[pager.page + 1] \in 1 .. Start
        /\ \A r \in pager.rows : chain.cursors[pager.page + 1] <= r
        /\ \A r \in pager'.rows : r < chain.cursors[pager.page + 1]
    <3>1. pager.rows \subseteq Nat /\ Start \in Nat
      BY <1>1, RowsAssumption DEF TableInv, Typed, Pagers, Start
    <3>2. pager'.rows \subseteq Nat
      BY <1>1, TableSteps, RowsAssumption DEF TableInv, Typed, Pagers
    <3> QED
      BY <1>1, <3>1, <3>2, ForwardIsAnswer
  <2> QED
    BY <2>1
<1>2. TableInv /\ TurnInv /\ [TableNext]_tableVars
      => [TurnsForward /\ ~tablePage.removes => \A old \in pager.rows, new \in pager'.rows : new < old]_pager
  BY <1>1
<1> QED
  BY <1>2, TableStarts, TableSteps, TurnsStart, TurnSteps, PTL DEF TableSpec, NoRowTwice

(* In a list nobody changed, the next page is exactly the next rows.       *)
THEOREM NextPageIsNext == TableSpec => NextPageFollows
<1> DEFINE Below == {r \in log \cap Hits[pager.filter] : \A old \in pager.rows : r < old}
<1>1. ASSUME TableInv, TurnInv, [TableNext]_tableVars, TurnsForward, still
      PROVE  pager'.rows = Newest(Below)
  <2> DEFINE cursor == chain.cursors[pager.page + 1]
  <2>1. /\ \A r \in pager.rows : cursor <= r
        /\ cursor \in pager.rows /\ pager'.rows = ListedIn(log, pager.filter, cursor).rows
        /\ cursor \in 1 .. Start
    BY <1>1, ForwardIsAnswer
  <2>2. pager.rows \subseteq Nat /\ log \subseteq Nat /\ Start \in Nat
    BY <1>1, RowsAssumption DEF TableInv, Typed, Pagers, Start
  <2>3. Below = {r \in Window(log, pager.filter) : r < cursor}
    <3> HIDE DEF cursor
    <3>1. ASSUME NEW r \in log \cap Hits[pager.filter]
          PROVE  (\A old \in pager.rows : r < old) <=> r < cursor
      <4>1. r \in Nat /\ cursor \in Nat
        BY <2>1, <2>2, <3>1
      <4> QED
        BY <2>1, <2>2, <4>1
    <3> QED
      BY <3>1 DEF Window
  <2>4. ListedIn(log, pager.filter, cursor).rows = Newest({r \in Window(log, pager.filter) : r < cursor})
    BY DEF ListedIn
  <2> QED
    BY <2>1, <2>3, <2>4
<1>2. TableInv /\ TurnInv /\ [TableNext]_tableVars => [TurnsForward /\ still => pager'.rows = Newest(Below)]_pager
  BY <1>1
<1> QED
  BY <1>2, TableStarts, TableSteps, TurnsStart, TurnSteps, PTL DEF TableSpec, NextPageFollows
=============================================================================
