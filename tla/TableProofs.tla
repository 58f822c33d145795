----------------------------- MODULE TableProofs -----------------------------
(***************************************************************************)
(* Proofs about the paged tables, for any rows, filters, page size and any *)
(* number of requests that run at once: the chain of cursors stays one of  *)
(* its window as long as the requests of the window do not meet.           *)
(***************************************************************************)
EXTENDS CursorTable, FiniteSetTheorems, SequenceTheorems, WellFoundedInduction, TLAPS

-----------------------------------------------------------------------------
(* A list that is cut short has a last row: its cursor.                    *)
LEMMA LeastRow ==
    ASSUME NEW S \in SUBSET Nat, S # {}
    PROVE  \E r \in S : \A q \in S : r <= q
<1>1. PICK r \in S : \A q \in S : <<q, r>> \notin OpToRel(<, Nat)
  BY NatLessThanWellFounded, WFMin, Zenon
<1>2. \A q \in S : ~(q < r)
  BY <1>1, Zenon DEF OpToRel
<1>3. \A q \in S : r <= q
  <2> TAKE q \in S
  <2>1. ~(q < r)
    BY <1>2
  <2>2. q \in Nat /\ r \in Nat
    OBVIOUS
  <2> QED
    BY <2>1, <2>2
<1> QED
  BY <1>3

\* A set of rows has a newest one.
LEMMA GreatestRow ==
    ASSUME NEW S \in SUBSET (1 .. MaxRow), S # {}
    PROVE  \E r \in S : \A q \in S : q <= r
<1> DEFINE T == {MaxRow - r : r \in S}
<1>1. T \in SUBSET Nat /\ T # {}
  <2>1. \A r \in S : MaxRow - r \in Nat
    BY RowsAssumption
  <2> QED
    BY <2>1
<1>2. PICK n \in T : \A m \in T : n <= m
  BY <1>1, LeastRow
<1>3. PICK r \in S : n = MaxRow - r
  BY <1>2
<1>4. \A q \in S : MaxRow - r <= MaxRow - q
  BY <1>2, <1>3
<1> QED
  BY <1>4, RowsAssumption

\* What a list RPC may answer to a cursor.
Fits(f, c, a) ==
    /\ a \in [rows : SUBSET (1 .. MaxRow), next : 0 .. Start]
    /\ a = Waiting \/ a.next = None \/ (a.next \in Hits[f] /\ a.next < c)

\* What the service answers fits the window and cursor it was asked for.
LEMMA ListedFits ==
    ASSUME log \subseteq 1 .. MaxRow, NEW f \in Filters, NEW c \in 0 .. Start
    PROVE  Fits(f, c, Listed(f, c))
<1> DEFINE older == {r \in log \cap Hits[f] : r < c}
           rows  == Newest(older)
           next  == IF rows = older THEN None ELSE CHOOSE r \in rows : \A q \in rows : r <= q
<1>1. older \subseteq 1 .. MaxRow /\ rows \subseteq older
  BY DEF Newest
<1>2. ASSUME rows # older PROVE rows # {}
  <2>1. older # {}
    BY <1>1, <1>2
  <2>2. PICK r \in older : \A q \in older : q <= r
    BY <1>1, <2>1, GreatestRow
  <2>3. {q \in older : q > r} = {}
    BY <1>1, <2>2, RowsAssumption
  <2>4. Cardinality({q \in older : q > r}) = 0
    BY <2>3, FS_EmptySet
  <2> HIDE DEF older
  <2>5. r \in Newest(older)
    BY <2>2, <2>4, RowsAssumption DEF Newest
  <2> QED
    BY <2>5
<1>3. ASSUME rows # older PROVE next \in rows
  <2>1. rows \in SUBSET Nat /\ rows # {}
    BY <1>1, <1>2, <1>3, RowsAssumption
  <2>2. \E r \in rows : \A q \in rows : r <= q
    BY <2>1, LeastRow
  <2> HIDE DEF rows, older
  <2> QED
    BY <1>3, <2>2
<1>4. next = None \/ (next \in Hits[f] /\ next < c /\ next \in 1 .. MaxRow)
  BY <1>1, <1>3
<1>5. Listed(f, c) = [rows |-> rows, next |-> next]
  BY DEF Listed
<1>6. rows \in SUBSET (1 .. MaxRow)
  BY <1>1
<1> HIDE DEF rows, next
<1>7. next \in 0 .. Start
  BY <1>4, RowsAssumption DEF None, Start
<1> QED
  BY <1>4, <1>5, <1>6, <1>7 DEF Fits

-----------------------------------------------------------------------------
(* The state of a table.                                                   *)
Chains == [cursors : Seq(1 .. Start), filter : Filters \cup {NoWindow}, ended : BOOLEAN]
Asks   == [filter : Filters \cup {NoWindow}, want : Nat \ {0}, step : {"walk", "page", "gap", "idle"},
           cursor : 0 .. Start, answer : [rows : SUBSET (1 .. MaxRow), next : 0 .. Start]]
Pagers == [page : Nat \ {0}, hasMore : BOOLEAN, loading : BOOLEAN, rows : SUBSET (1 .. MaxRow),
           filter : Filters \cup {NoWindow}, loaded : Nat]

Typed ==
    /\ tablePage \in TablePages
    /\ newest \in 0 .. MaxRow /\ log \subseteq 1 .. newest
    /\ pageRef \in Nat \ {0}
    /\ chain \in Chains /\ Len(chain.cursors) > 0
    /\ pager \in Pagers
    /\ asked \in [Slots -> Asks]
    /\ mixed \in BOOLEAN /\ still \in BOOLEAN

\* A chain leads from newer to older rows of its window.
Descends(c) ==
    \A i \in 2 .. Len(c.cursors) :
        c.cursors[i] < c.cursors[i - 1] /\ c.cursors[i] \in Hits[c.filter]

\* A request that runs is for filters, and its answer fits its cursor.
AskFits(q) == q = Idle \/ (/\ q.filter \in Filters /\ q.step # "idle"
                           /\ Fits(q.filter, q.cursor, q.answer))

\* Where a request of the window stands on its chain.
Stands(q, c) ==
    /\ q.filter = c.filter
    /\ q.step = "walk" => q.cursor = c.cursors[Len(c.cursors)]
    /\ q.step = "page" => q.want <= Len(c.cursors) /\ q.cursor = c.cursors[q.want]

Alone == \A s, t \in Slots : Runs(s) /\ Runs(t) => s = t

WindowInv ==
    ~mixed => /\ Alone
              /\ \A s \in Slots : Runs(s) => Stands(asked[s], chain)
              /\ Descends(chain)
              /\ pager.filter # NoWindow /\ pager.hasMore => Len(chain.cursors) > pager.page

\* Nothing was asked for before the first window opened.
NothingYet ==
    chain.filter = NoWindow => /\ ~pager.hasMore /\ pager.page = 1 /\ pager.rows = {}
                               /\ Len(chain.cursors) = 1
                               /\ \A s \in Slots : ~Runs(s)

TableInv == Typed /\ (\A s \in Slots : AskFits(asked[s])) /\ WindowInv /\ NothingYet

\* A fresh table has the chain of no window.
LEMMA TableStarts == TableInit => TableInv
<1> SUFFICES ASSUME TableInit PROVE TableInv
  OBVIOUS
<1> USE DEF TableInit
<1>1. PICK n \in 0 .. MaxRow : FirstRows = 1 .. n
  BY HitsAssumption
<1>2. newest = n
  BY <1>1, FS_Interval, RowsAssumption
<1>3. <<Start>> \in Seq(1 .. Start) /\ Len(<<Start>>) = 1
  BY RowsAssumption DEF Start
<1>4. Idle \in Asks
  BY RowsAssumption DEF Idle, Request, Asks, Waiting, None, Start
<1>5. Typed
  <2>1. tablePage \in TablePages /\ newest \in 0 .. MaxRow /\ log \subseteq 1 .. newest
    BY <1>1, <1>2
  <2>2. chain \in Chains /\ Len(chain.cursors) > 0
    BY <1>3 DEF Chains
  <2>3. pager \in Pagers
    BY DEF Pagers
  <2>4. asked \in [Slots -> Asks]
    BY <1>4
  <2>5. pageRef \in Nat \ {0}
    OBVIOUS
  <2>6. mixed \in BOOLEAN /\ still \in BOOLEAN
    BY Zenon
  <2> HIDE DEF TableInit
  <2> QED
    BY <2>1, <2>2, <2>3, <2>4, <2>5, <2>6 DEF Typed
<1>6. \A s \in Slots : asked[s] = Idle
  OBVIOUS
<1>7. WindowInv /\ NothingYet
  BY <1>3, <1>6 DEF WindowInv, NothingYet, Alone, Runs, Descends
<1> QED
  BY <1>5, <1>6, <1>7 DEF TableInv, AskFits

-----------------------------------------------------------------------------
(* Where a request goes next stands on the chain.                          *)
LEMMA GoalStands ==
    ASSUME NEW c \in Chains, Len(c.cursors) > 0, NEW want \in Nat \ {0}
    PROVE  /\ Goal(c, want).step \in {"walk", "page", "gap"} /\ Goal(c, want).cursor \in 0 .. Start
           /\ Stands(Request(c.filter, want, Goal(c, want)), c)
<1>1. /\ c.cursors \in Seq(1 .. Start) /\ Len(c.cursors) \in Nat
      /\ \A i \in 1 .. Len(c.cursors) : c.cursors[i] \in 1 .. Start
  BY LenProperties DEF Chains
<1>2. CASE ~c.ended /\ Len(c.cursors) < want
  <2>1. Goal(c, want) = [step |-> "walk", cursor |-> c.cursors[Len(c.cursors)]]
    BY <1>2 DEF Goal, Last
  <2> QED
    BY <1>1, <2>1 DEF Stands, Request
<1>3. CASE ~(~c.ended /\ Len(c.cursors) < want) /\ want <= Len(c.cursors)
  <2>1. Goal(c, want) = [step |-> "page", cursor |-> c.cursors[want]]
    BY <1>3 DEF Goal
  <2> QED
    BY <1>1, <1>3, <2>1 DEF Stands, Request
<1>4. CASE ~(~c.ended /\ Len(c.cursors) < want) /\ ~(want <= Len(c.cursors))
  <2>1. Goal(c, want) = [step |-> "gap", cursor |-> None]
    BY <1>4 DEF Goal
  <2> QED
    BY <2>1, RowsAssumption DEF Stands, Request, None, Start
<1> QED
  BY <1>2, <1>3, <1>4

\* What a request asks for fits its window.
LEMMA RequestFits ==
    ASSUME NEW f \in Filters, NEW want \in Nat \ {0}, NEW g,
           g.step \in {"walk", "page", "gap"}, g.cursor \in 0 .. Start
    PROVE  /\ Request(f, want, g) \in Asks /\ AskFits(Request(f, want, g)) /\ Request(f, want, g) # Idle
<1>1. Waiting \in [rows : SUBSET (1 .. MaxRow), next : 0 .. Start]
  BY RowsAssumption DEF Waiting, Start
<1> QED
  BY <1>1 DEF Request, Asks, AskFits, Fits, Idle

(* A request that begins.                                                  *)
LEMMA BeginKeeps ==
    ASSUME TableInv, NEW f \in Filters, NEW page \in Nat \ {0}, Begin(f, page),
           log' \subseteq 1 .. newest, still' \in BOOLEAN
    PROVE  TableInv'
<1> DEFINE fresh == f # chain.filter
           c     == IF fresh THEN FreshChain(f) ELSE chain
           want  == IF fresh THEN 1 ELSE page
           quiet == \A s \in Slots : ~Runs(s)
           q     == Request(f, want, Goal(c, want))
<1>1. PICK s \in Slots :
        /\ ~Runs(s)
        /\ asked' = [asked EXCEPT ![s] = q]
        /\ chain' = c
        /\ pageRef' = want
        /\ pager' = [pager EXCEPT !.loading = TRUE, !.filter = IF fresh THEN NoWindow ELSE @]
        /\ mixed' = (~quiet \/ (mixed /\ ~fresh))
        /\ UNCHANGED <<tablePage, newest>>
  BY DEF Begin
<1>2. <<Start>> \in Seq(1 .. Start) /\ Len(<<Start>>) = 1
  BY RowsAssumption DEF Start
<1>3. c \in Chains /\ Len(c.cursors) > 0 /\ c.filter = f /\ want \in Nat \ {0}
  BY <1>2 DEF TableInv, Typed, Chains, FreshChain
<1>4. Stands(q, c) /\ q \in Asks /\ AskFits(q) /\ q # Idle
  <2> HIDE DEF c, want
  <2> QED
    BY <1>3, GoalStands, RequestFits
<1>5. fresh => Descends(c)
  BY <1>2 DEF Descends, FreshChain
<1>6. f # NoWindow
  BY HitsAssumption
<1> HIDE DEF q, c, want
<1>7. Typed'
  BY <1>1, <1>3, <1>4 DEF TableInv, Typed, Pagers
<1>8. \A t \in Slots : AskFits(asked[t])'
  BY <1>1, <1>4 DEF TableInv, Typed, AskFits
<1>9. NothingYet'
  BY <1>1, <1>3, <1>6 DEF NothingYet
<1>10. ASSUME ~mixed' PROVE WindowInv'
  <2>1. quiet
    BY <1>1, <1>10
  <2>2. \A t \in Slots : Runs(t)' => t = s
    BY <1>1, <2>1 DEF TableInv, Typed, Runs
  <2>3. asked'[s] = q /\ chain' = c
    BY <1>1 DEF TableInv, Typed
  <2>4. Descends(c) /\ (pager'.filter # NoWindow /\ pager'.hasMore => Len(c.cursors) > pager'.page)
    <3>1. CASE fresh
      BY <1>1, <1>5, <3>1 DEF TableInv, Typed, Pagers
    <3>2. CASE ~fresh
      BY <1>1, <1>10, <3>2 DEF TableInv, Typed, Pagers, WindowInv, c
    <3> QED
      BY <3>1, <3>2
  <2> QED
    BY <1>4, <2>2, <2>3, <2>4 DEF WindowInv, Alone
<1> QED
  BY <1>7, <1>8, <1>9, <1>10 DEF TableInv, WindowInv

-----------------------------------------------------------------------------
(* What a request does when a fetch comes back.                            *)
Prolongs(d, c, want, next) ==
    /\ d \in Chains /\ d.filter = c.filter /\ Len(d.cursors) > 0
    /\ (next # None /\ want <= Len(c.cursors)) => Len(d.cursors) > want
    /\ \A i \in 1 .. Len(d.cursors) :
          \/ i <= Len(c.cursors) /\ d.cursors[i] = c.cursors[i]
          \/ next # None /\ i = want + 1 /\ i = Len(c.cursors) + 1 /\ d.cursors[i] = next

\* A page that came up cuts the chain, keeps it or adds its own link.
LEMMA PageKeepsChain ==
    ASSUME NEW c \in Chains, Len(c.cursors) > 0, NEW want \in Nat \ {0},
           NEW next \in 0 .. Start, next # None => next \in 1 .. Start
    PROVE  Prolongs(ChainAfterPage(c, want, next), c, want, next)
<1> DEFINE d == ChainAfterPage(c, want, next)
<1> HIDE DEF d
<1> SUFFICES Prolongs(d, c, want, next)
  BY DEF d
<1> DEFINE n == Len(c.cursors)
<1>1. /\ c.cursors \in Seq(1 .. Start) /\ n \in Nat
      /\ \A i \in 1 .. n : c.cursors[i] \in 1 .. Start
  BY LenProperties DEF Chains
<1>2. CASE next # None
  <2>1. d = [c EXCEPT !.cursors = IF n = want THEN Append(c.cursors, next) ELSE c.cursors, !.ended = FALSE]
    BY <1>2 DEF d, ChainAfterPage
  <2>2. CASE n = want
    <3>1. d.cursors = Append(c.cursors, next) /\ d.filter = c.filter /\ d.ended = FALSE
      BY <2>1, <2>2 DEF Chains
    <3>2. /\ d.cursors \in Seq(1 .. Start) /\ Len(d.cursors) = n + 1 /\ d.cursors[n + 1] = next
          /\ \A i \in 1 .. n : d.cursors[i] = c.cursors[i]
      BY <1>1, <1>2, <3>1, AppendProperties
    <3>3. d \in Chains
      BY <2>1, <2>2, <3>1, <3>2 DEF Chains
    <3> QED
      BY <1>1, <1>2, <2>2, <3>1, <3>2, <3>3 DEF Prolongs
  <2>3. CASE n # want
    <3>1. d.cursors = c.cursors /\ d.filter = c.filter /\ d \in Chains
      BY <1>1, <2>1, <2>3 DEF Chains
    <3> QED
      BY <1>1, <1>2, <2>3, <3>1 DEF Prolongs
  <2> QED
    BY <2>2, <2>3
<1>3. CASE next = None
  <2> DEFINE m == IF n < want THEN n ELSE want
  <2>1. d = [c EXCEPT !.cursors = SubSeq(c.cursors, 1, m), !.ended = TRUE]
    BY <1>3 DEF d, ChainAfterPage
  <2>2. m \in Nat /\ 1 <= m /\ m <= n
    BY <1>1
  <2> HIDE DEF m
  <2>3. /\ SubSeq(c.cursors, 1, m) \in Seq(1 .. Start) /\ Len(SubSeq(c.cursors, 1, m)) = m
        /\ \A i \in 1 .. m : SubSeq(c.cursors, 1, m)[i] = c.cursors[i]
    <3>1. \A i \in 1 .. m : c.cursors[i] \in 1 .. Start
      BY <1>1, <2>2
    <3>2. /\ SubSeq(c.cursors, 1, m) \in Seq(1 .. Start)
          /\ Len(SubSeq(c.cursors, 1, m)) = IF 1 <= m THEN m - 1 + 1 ELSE 0
          /\ \A i \in 1 .. m - 1 + 1 : SubSeq(c.cursors, 1, m)[i] = c.cursors[1 + i - 1]
      BY <2>2, <3>1, SubSeqProperties
    <3> QED
      BY <2>2, <3>2
  <2>4. d.cursors = SubSeq(c.cursors, 1, m) /\ d.filter = c.filter /\ d \in Chains
    BY <2>1, <2>3 DEF Chains
  <2> QED
    BY <1>1, <1>3, <2>2, <2>3, <2>4 DEF Prolongs
<1> QED
  BY <1>2, <1>3

(* A request that ended, with the chain and the pager it left behind.      *)
LEMMA EndKeeps ==
    ASSUME TableInv, NEW s \in Slots, Runs(s), asked' = [asked EXCEPT ![s] = Idle],
           UNCHANGED <<tablePage, log, newest, pageRef, mixed, still>>,
           chain' \in Chains, Len(chain'.cursors) > 0, chain'.filter = chain.filter, pager' \in Pagers,
           ~mixed => /\ Descends(chain')
                     /\ pager'.filter # NoWindow /\ pager'.hasMore => Len(chain'.cursors) > pager'.page
    PROVE  TableInv'
<1>1. Idle \in Asks
  BY RowsAssumption DEF Idle, Request, Asks, Waiting, None, Start
<1>2. Typed'
  BY <1>1 DEF TableInv, Typed
<1>3. \A t \in Slots : AskFits(asked[t])'
  BY DEF TableInv, Typed, AskFits
<1>4. chain.filter # NoWindow
  BY DEF TableInv, NothingYet
<1>5. NothingYet'
  BY <1>4 DEF NothingYet
<1>6. ASSUME ~mixed' PROVE WindowInv'
  <2>1. \A t \in Slots : ~Runs(t)'
    BY <1>6 DEF TableInv, Typed, WindowInv, Alone, Runs
  <2> QED
    BY <1>6, <2>1 DEF WindowInv, Alone
<1> QED
  BY <1>2, <1>3, <1>5, <1>6 DEF TableInv, WindowInv

\* A link added to the end of a descending chain keeps it descending.
LEMMA LinkDescends ==
    ASSUME NEW c \in Chains, NEW d \in Chains, Len(c.cursors) > 0, d.filter = c.filter, Descends(c),
           NEW next \in 0 .. Start, next # None => next \in Hits[c.filter] /\ next < c.cursors[Len(c.cursors)],
           \A i \in 1 .. Len(d.cursors) :
              \/ i <= Len(c.cursors) /\ d.cursors[i] = c.cursors[i]
              \/ next # None /\ i = Len(c.cursors) + 1 /\ d.cursors[i] = next
    PROVE  Descends(d)
<1>1. Len(c.cursors) \in Nat /\ Len(d.cursors) \in Nat
  BY LenProperties DEF Chains
<1>2. ASSUME NEW i \in 2 .. Len(d.cursors)
      PROVE  d.cursors[i] < d.cursors[i - 1] /\ d.cursors[i] \in Hits[d.filter]
  <2>1. i \in 1 .. Len(d.cursors) /\ i - 1 \in 1 .. Len(d.cursors)
    BY <1>1, <1>2
  <2>2. CASE i <= Len(c.cursors)
    BY <1>1, <2>1, <2>2 DEF Descends
  <2>3. CASE i = Len(c.cursors) + 1
    BY <1>1, <2>1, <2>3
  <2> QED
    BY <1>1, <2>1, <2>2, <2>3
<1> QED
  BY <1>2 DEF Descends

\* A link fetched on the way to the wanted page.
LEMMA WalkKeeps == ASSUME TableInv, NEW s \in Slots, Walk(s) PROVE TableInv'
<1> DEFINE q == asked[s]
           c == IF q.answer.next # None
                THEN [chain EXCEPT !.cursors = Append(@, q.answer.next)]
                ELSE [chain EXCEPT !.ended = TRUE]
           r == Request(q.filter, q.want, Goal(c, q.want))
<1>1. /\ Runs(s) /\ q.answer # Waiting /\ q.step = "walk"
      /\ chain' = c /\ asked' = [asked EXCEPT ![s] = r]
      /\ UNCHANGED <<tablePage, log, newest, pageRef, pager, mixed, still>>
  BY DEF Walk, Answered
<1>2. /\ q \in Asks /\ q.filter \in Filters /\ q.want \in Nat \ {0}
      /\ q.answer.next \in 0 .. Start
      /\ q.answer.next = None \/ (q.answer.next \in Hits[q.filter] /\ q.answer.next < q.cursor)
  BY <1>1 DEF TableInv, Typed, Asks, AskFits, Runs, Fits
<1>3. /\ chain \in Chains /\ chain.cursors \in Seq(1 .. Start) /\ Len(chain.cursors) \in Nat \ {0}
      /\ chain.filter # NoWindow
  BY <1>1, LenProperties DEF TableInv, Typed, Chains, NothingYet
<1>4. /\ c \in Chains /\ c.filter = chain.filter /\ Len(c.cursors) > 0
      /\ Len(c.cursors) >= Len(chain.cursors)
      /\ \A i \in 1 .. Len(c.cursors) :
            \/ i <= Len(chain.cursors) /\ c.cursors[i] = chain.cursors[i]
            \/ q.answer.next # None /\ i = Len(chain.cursors) + 1 /\ c.cursors[i] = q.answer.next
  <2> HIDE DEF q
  <2>1. CASE q.answer.next # None
    <3>1. q.answer.next \in 1 .. Start
      BY <1>2, <2>1, RowsAssumption DEF None, Start
    <3>2. /\ Append(chain.cursors, q.answer.next) \in Seq(1 .. Start)
          /\ Len(Append(chain.cursors, q.answer.next)) = Len(chain.cursors) + 1
          /\ \A i \in 1 .. Len(chain.cursors) : Append(chain.cursors, q.answer.next)[i] = chain.cursors[i]
          /\ Append(chain.cursors, q.answer.next)[Len(chain.cursors) + 1] = q.answer.next
      BY <1>3, <3>1, AppendProperties
    <3>3. c.cursors = Append(chain.cursors, q.answer.next) /\ c.filter = chain.filter /\ c \in Chains
      BY <1>3, <2>1, <3>2 DEF Chains
    <3> HIDE DEF c
    <3> QED
      BY <1>3, <2>1, <3>2, <3>3
  <2>2. CASE q.answer.next = None
    <3>1. c.cursors = chain.cursors /\ c.filter = chain.filter /\ c \in Chains
      BY <1>3, <2>2 DEF Chains
    <3> HIDE DEF c
    <3> QED
      BY <1>3, <3>1
  <2> QED
    BY <2>1, <2>2
<1> HIDE DEF c
<1>5. /\ Goal(c, q.want).step \in {"walk", "page", "gap"} /\ Goal(c, q.want).cursor \in 0 .. Start
      /\ Stands(Request(c.filter, q.want, Goal(c, q.want)), c)
  BY <1>2, <1>4, GoalStands
<1>6. r \in Asks /\ AskFits(r) /\ r # Idle
  BY <1>2, <1>5, RequestFits
<1> HIDE DEF r, q
<1>7. Typed'
  BY <1>1, <1>4, <1>6 DEF TableInv, Typed
<1>8. \A t \in Slots : AskFits(asked[t])'
  BY <1>1, <1>6 DEF TableInv, Typed, AskFits
<1>9. NothingYet'
  BY <1>1, <1>3, <1>4 DEF NothingYet
<1>10. ASSUME ~mixed' PROVE WindowInv'
  <2>1. /\ \A t \in Slots : Runs(t)' => t = s
        /\ asked'[s] = r
    BY <1>1, <1>10 DEF TableInv, Typed, WindowInv, Alone, Runs
  <2>2. q.filter = chain.filter /\ q.cursor = chain.cursors[Len(chain.cursors)] /\ Descends(chain)
    BY <1>1, <1>10 DEF TableInv, WindowInv, Stands, q
  <2>3. Descends(c)
    BY <1>2, <1>3, <1>4, <2>2, LinkDescends
  <2>4. pager'.filter # NoWindow /\ pager'.hasMore => Len(c.cursors) > pager'.page
    <3>1. Len(c.cursors) \in Nat
      BY <1>4, LenProperties DEF Chains
    <3> QED
      BY <1>1, <1>3, <1>4, <1>10, <3>1 DEF TableInv, Typed, Pagers, WindowInv
  <2>5. Stands(r, c)
    BY <1>4, <1>5, <2>2 DEF r
  <2> QED
    BY <1>1, <2>1, <2>3, <2>4, <2>5 DEF WindowInv, Alone
<1> QED
  BY <1>7, <1>8, <1>9, <1>10 DEF TableInv, WindowInv

\* What is shown after an answer.
LEMMA ShownIsPager ==
    ASSUME NEW q, q.want \in Nat \ {0}, q.filter \in Filters, NEW rows \in SUBSET (1 .. MaxRow), NEW more \in BOOLEAN
    PROVE  Shown(q, rows, more) \in Pagers
<1>1. Cardinality(rows) \in Nat
  <2>1. IsFiniteSet(1 .. MaxRow)
    BY FS_Interval, RowsAssumption
  <2>2. IsFiniteSet(rows)
    BY <2>1, FS_Subset
  <2> QED
    BY <2>2, FS_CardinalityType
<1>2. (q.want - 1) * PageSize \in Nat
  BY RowsAssumption
<1>3. (q.want - 1) * PageSize + Cardinality(rows) \in Nat
  BY <1>1, <1>2
<1> QED
  BY <1>3 DEF Shown, Pagers

\* The wanted page comes up.
LEMMA PageKeeps == ASSUME TableInv, NEW s \in Slots, ShowPage(s) PROVE TableInv'
<1> DEFINE q == asked[s]
           d == ChainAfterPage(chain, q.want, q.answer.next)
<1>1. /\ Runs(s) /\ q.answer # Waiting /\ q.step = "page"
      /\ chain' = d /\ pager' = Shown(q, q.answer.rows, q.answer.next # None)
      /\ asked' = [asked EXCEPT ![s] = Idle]
      /\ UNCHANGED <<tablePage, log, newest, pageRef, mixed, still>>
  BY DEF ShowPage, Answered
<1>2. /\ q \in Asks /\ q.filter \in Filters /\ q.want \in Nat \ {0}
      /\ q.answer.next \in 0 .. Start /\ q.answer.rows \in SUBSET (1 .. MaxRow)
      /\ q.answer.next = None \/ (q.answer.next \in Hits[q.filter] /\ q.answer.next < q.cursor)
  BY <1>1 DEF TableInv, Typed, Asks, AskFits, Runs, Fits
<1>3. chain \in Chains /\ Len(chain.cursors) \in Nat \ {0}
  BY LenProperties DEF TableInv, Typed, Chains
<1>4. q.answer.next # None => q.answer.next \in 1 .. Start
  BY <1>2, RowsAssumption DEF None, Start
<1> HIDE DEF q
<1>5. /\ d \in Chains /\ d.filter = chain.filter /\ Len(d.cursors) > 0
      /\ (q.answer.next # None /\ q.want <= Len(chain.cursors)) => Len(d.cursors) > q.want
      /\ \A i \in 1 .. Len(d.cursors) :
            \/ i <= Len(chain.cursors) /\ d.cursors[i] = chain.cursors[i]
            \/ q.answer.next # None /\ i = q.want + 1 /\ i = Len(chain.cursors) + 1 /\ d.cursors[i] = q.answer.next
  <2>1. Prolongs(d, chain, q.want, q.answer.next)
    BY <1>2, <1>3, <1>4, PageKeepsChain
  <2> QED
    BY <2>1 DEF Prolongs
<1>6. pager' \in Pagers /\ pager'.page = q.want /\ pager'.hasMore = (q.answer.next # None)
  BY <1>1, <1>2, ShownIsPager DEF Shown
<1>7. ASSUME ~mixed
      PROVE  /\ Descends(chain')
             /\ pager'.filter # NoWindow /\ pager'.hasMore => Len(chain'.cursors) > pager'.page
  <2>1. q.filter = chain.filter /\ q.want <= Len(chain.cursors) /\ q.cursor = chain.cursors[q.want] /\ Descends(chain)
    BY <1>1, <1>7 DEF TableInv, WindowInv, Stands, q
  <2>2. CASE q.want = Len(chain.cursors)
    <3> HIDE DEF d
    <3>1. Descends(d)
      BY <1>2, <1>3, <1>5, <2>1, <2>2, LinkDescends
    <3> QED
      BY <1>1, <1>5, <1>6, <2>1, <3>1
  <2>3. CASE q.want # Len(chain.cursors)
    <3> HIDE DEF d
    <3>1. \A i \in 1 .. Len(d.cursors) : i <= Len(chain.cursors) /\ d.cursors[i] = chain.cursors[i]
      BY <1>2, <1>3, <1>5, <2>3
    <3>2. Descends(d)
      <4>1. None \in 0 .. Start
        BY RowsAssumption DEF None, Start
      <4> QED
        BY <1>3, <1>5, <2>1, <3>1, <4>1, LinkDescends
    <3> QED
      BY <1>1, <1>5, <1>6, <2>1, <3>2
  <2> QED
    BY <2>2, <2>3
<1> QED
  BY <1>1, <1>5, <1>6, <1>7, EndKeeps DEF q

\* The list ended before the wanted page.
LEMMA GapKeeps == ASSUME TableInv, NEW s \in Slots, ShowGap(s) PROVE TableInv'
<1> DEFINE q == asked[s]
<1>1. /\ Runs(s) /\ pager' = Shown(q, {}, FALSE) /\ asked' = [asked EXCEPT ![s] = Idle]
      /\ UNCHANGED <<tablePage, log, newest, pageRef, chain, mixed, still>>
  BY DEF ShowGap
<1>2. q.filter \in Filters /\ q.want \in Nat \ {0}
  BY <1>1 DEF TableInv, Typed, Asks, AskFits, Runs
<1>3. pager' \in Pagers /\ ~pager'.hasMore
  BY <1>1, <1>2, ShownIsPager DEF Shown
<1> HIDE DEF q
<1> QED
  BY <1>1, <1>3, EndKeeps DEF TableInv, Typed, WindowInv

\* A fetch fails: the chain stays as far as it was walked.
LEMMA FailKeeps == ASSUME TableInv, NEW s \in Slots, TableFail(s) PROVE TableInv'
<1>1. /\ Runs(s) /\ asked' = [asked EXCEPT ![s] = Idle] /\ pager' = [pager EXCEPT !.loading = FALSE]
      /\ UNCHANGED <<tablePage, log, newest, pageRef, chain, mixed, still>>
  BY DEF TableFail
<1>2. pager' \in Pagers /\ pager'.hasMore = pager.hasMore /\ pager'.page = pager.page /\ pager'.filter = pager.filter
  BY <1>1 DEF TableInv, Typed, Pagers
<1> QED
  BY <1>1, <1>2, EndKeeps DEF TableInv, Typed, WindowInv

\* The service answers a fetch.
LEMMA ServeKeeps == ASSUME TableInv, NEW s \in Slots, Serve(s) PROVE TableInv'
<1> DEFINE a == Listed(asked[s].filter, asked[s].cursor)
<1>1. /\ Runs(s) /\ asked' = [asked EXCEPT ![s].answer = a]
      /\ UNCHANGED <<tablePage, log, newest, pageRef, chain, pager, mixed, still>>
  BY DEF Serve
<1>2. asked[s] \in Asks /\ asked[s].filter \in Filters /\ asked[s].step # "idle"
  BY <1>1 DEF TableInv, Typed, AskFits, Runs
<1>3. Fits(asked[s].filter, asked[s].cursor, a)
  BY <1>2, ListedFits, RowsAssumption DEF TableInv, Typed, Asks
<1> HIDE DEF a
<1> DEFINE r == [asked[s] EXCEPT !.answer = a]
<1>4. /\ r \in Asks /\ r.filter = asked[s].filter /\ r.want = asked[s].want /\ r.step = asked[s].step
      /\ r.cursor = asked[s].cursor /\ r.answer = a
  BY <1>2, <1>3 DEF Asks, Fits
<1>5. asked' = [asked EXCEPT ![s] = r]
  BY <1>1
<1>6. r # Idle
  BY <1>2, <1>4 DEF Idle, Request
<1> HIDE DEF r
<1>7. Typed'
  BY <1>1, <1>4, <1>5 DEF TableInv, Typed
<1>8. \A t \in Slots : AskFits(asked[t])'
  BY <1>2, <1>3, <1>4, <1>5 DEF TableInv, Typed, AskFits
<1>9. NothingYet'
  BY <1>1 DEF TableInv, NothingYet
<1>10. ASSUME ~mixed' PROVE WindowInv'
  <2>1. \A t \in Slots : Runs(t)' <=> Runs(t)
    BY <1>1, <1>5, <1>6 DEF TableInv, Typed, Runs
  <2>2. \A t \in Slots : Runs(t) => Stands(asked'[t], chain)
    BY <1>1, <1>4, <1>5, <1>10 DEF TableInv, Typed, WindowInv, Stands
  <2> QED
    BY <1>1, <1>10, <2>1, <2>2 DEF TableInv, WindowInv, Alone
<1> QED
  BY <1>7, <1>8, <1>9, <1>10 DEF TableInv, WindowInv

(* Every step keeps the chain of an undisturbed window.                    *)
LEMMA TableSteps == TableInv /\ [TableNext]_tableVars => TableInv'
<1> SUFFICES ASSUME TableInv, [TableNext]_tableVars PROVE TableInv'
  OBVIOUS
<1>1. /\ log \subseteq 1 .. newest /\ newest \in 0 .. MaxRow /\ pageRef \in Nat \ {0} /\ still \in BOOLEAN
      /\ pager \in Pagers /\ chain.filter \in Filters \cup {NoWindow} /\ tablePage \in TablePages
  BY DEF TableInv, Typed, Chains
<1>2. ASSUME NEW f \in Filters, Submit(f) PROVE TableInv'
  <2>1. (still \/ f # chain.filter) \in BOOLEAN
    OBVIOUS
  <2> QED
    BY <1>1, <1>2, <2>1, BeginKeeps DEF Submit
<1>3. CASE Reload
  BY <1>1, <1>3, BeginKeeps DEF Reload
<1>4. CASE GoBack
  <2>1. pager.page \in Nat \ {0} /\ pager.page > 1
    BY <1>1, <1>4 DEF GoBack, Pagers
  <2>2. chain.filter \in Filters
    BY <1>1, <2>1 DEF TableInv, NothingYet
  <2>3. PICK p \in {1, pager.page - 1} : Begin(chain.filter, p)
    BY <1>4 DEF GoBack
  <2>4. p \in Nat \ {0}
    BY <2>1, <2>3
  <2> QED
    BY <1>1, <1>4, <2>2, <2>3, <2>4, BeginKeeps DEF GoBack
<1>5. CASE GoNext
  <2>1. pager.page \in Nat \ {0} /\ pager.hasMore
    BY <1>1, <1>5 DEF GoNext, Pagers
  <2>2. chain.filter \in Filters
    BY <1>1, <2>1 DEF TableInv, NothingYet
  <2>3. pager.page + 1 \in Nat \ {0}
    BY <2>1
  <2> QED
    BY <1>1, <1>5, <2>2, <2>3, BeginKeeps DEF GoNext
<1>6. ASSUME NEW r \in 1 .. MaxRow, RemoveRow(r) PROVE TableInv'
  <2>1. chain.filter \in Filters
    BY <1>1, <1>6 DEF TableInv, NothingYet, RemoveRow
  <2> QED
    BY <1>1, <1>6, <2>1, BeginKeeps DEF RemoveRow
<1>7. CASE NewRow
  <2>1. /\ log' = log \cup {newest + 1} /\ newest' = newest + 1 /\ still' = FALSE /\ newest < MaxRow
        /\ UNCHANGED <<tablePage, pageRef, chain, pager, asked, mixed>>
    BY <1>7 DEF NewRow
  <2>2. newest' \in 0 .. MaxRow /\ log' \subseteq 1 .. newest'
    BY <1>1, <2>1, RowsAssumption
  <2>3. Typed'
    BY <2>1, <2>2 DEF TableInv, Typed
  <2> QED
    BY <2>1, <2>3 DEF TableInv, AskFits, Fits, WindowInv, Alone, Runs, Stands, Descends, NothingYet
<1>8. ASSUME NEW s \in Slots, Serve(s) \/ TableAnswers(s) PROVE TableInv'
  BY <1>8, ServeKeeps, WalkKeeps, PageKeeps, GapKeeps, FailKeeps DEF TableAnswers
<1>9. CASE UNCHANGED tableVars
  BY <1>9 DEF tableVars, TableInv, Typed, AskFits, Fits, WindowInv, Alone, Runs, Stands, Descends, NothingYet
<1> QED
  BY <1>2, <1>3, <1>4, <1>5, <1>6, <1>7, <1>8, <1>9 DEF TableNext

(* The chain is one of the current window, in whatever order pages are     *)
(* visited, requests fail and rows come and go.                            *)
THEOREM ChainKeepsWindow == TableSpec => []ChainOfWindow
<1>1. TableInv => ChainOfWindow
  BY DEF TableInv, WindowInv, Descends, ChainOfWindow
<1> QED
  BY <1>1, TableStarts, TableSteps, PTL DEF TableSpec
=============================================================================
