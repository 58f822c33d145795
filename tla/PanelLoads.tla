------------------------------ MODULE PanelLoads ------------------------------
(***************************************************************************)
(* The panels of the console that show the answer to one question: pick a  *)
(* region, a country, an owner, a record, a tab, and the service's answer  *)
(* is put under its name.  Picks may follow faster than answers come, and  *)
(* the panels differ in what they do about it.                             *)
(***************************************************************************)
EXTENDS Integers, FiniteSets

CONSTANTS Panels,     \* the panels a run looks at, records of the form below
          Topics,     \* what can be asked for
          Calls,      \* bound: questions that are out at once
          MaxQuestions   \* bound: questions asked in all

VARIABLES panel,      \* the panel on the screen
          pick,       \* what its control holds
          caption,    \* what the answer is shown under
          answer,     \* the topic whose answer is shown
          spin,       \* the loading flag
          calls,      \* the questions that are out
          latest,     \* the last question asked
          questions   \* bound counter

panelVars == <<panel, pick, caption, answer, spin, calls, latest, questions>>

Nil    == "nil"

\* What a panel may be: only an effect can be cancelled, and it names its pick.
ASSUME PanelAssumption ==
    /\ MaxQuestions \in Nat /\ Nil \notin Topics
    /\ \A p \in Panels :
         /\ p.guarded \in BOOLEAN /\ p.effect \in BOOLEAN /\ p.flag \in BOOLEAN
         /\ p.guarded => p.effect
         /\ p.effect => p.names = "pick" /\ p.failed = "keeps" /\ ~p.saves /\ ~p.single
         /\ p.single => p.failed # "row"

NoCall == [topic |-> Nil, live |-> FALSE, write |-> FALSE]

(***************************************************************************)
(* The panels.  effect: a pick asks by itself, otherwise a button, the     *)
(* Enter key or the page's opening does; guarded: a new pick cancels the   *)
(* continuation of the one before; clears: it takes the old answer away;   *)
(* single: the control waits while the flag is up; names: when the caption *)
(* follows, with the pick or with the answer; failed: what a failure does  *)
(* to the answer (keeps it, clears it, or shows the row of the table       *)
(* instead); saves: a save answers with the new data too; empty: the       *)
(* control can be cleared; flag: is there a loading flag?                  *)
(***************************************************************************)
EffectPanel(guarded, clears) ==
    [effect |-> TRUE, guarded |-> guarded, clears |-> clears, single |-> FALSE,
     names |-> "pick", failed |-> "keeps", saves |-> FALSE, empty |-> TRUE, flag |-> TRUE]
ButtonPanel(single, names, failed, saves) ==
    [effect |-> FALSE, guarded |-> FALSE, clears |-> FALSE, single |-> single,
     names |-> names, failed |-> failed, saves |-> saves, empty |-> FALSE, flag |-> TRUE]
\* The detail drawer or dialogue of a table row, opened by the answer; no flag.
DetailPanel == [ButtonPanel(FALSE, "answer", "keeps", FALSE) EXCEPT !.flag = FALSE]

RegionsPanel     == EffectPanel(TRUE, TRUE)
CascadePanel     == [EffectPanel(TRUE, FALSE) EXCEPT !.flag = FALSE]
FillPanel        == EffectPanel(TRUE, FALSE)
DirectoryPanel   == [EffectPanel(TRUE, FALSE) EXCEPT !.empty = FALSE]
RegionDrawer     == EffectPanel(FALSE, TRUE)
DashboardPanel   == ButtonPanel(TRUE, "answer", "keeps", FALSE)
StorageStatsPanel == ButtonPanel(TRUE, "answer", "keeps", FALSE)
OwnerQuotaPanel  == ButtonPanel(TRUE, "answer", "keeps", TRUE)
ConfigStatsPanel == ButtonPanel(TRUE, "pick", "clears", FALSE)
PhonePanel       == ButtonPanel(FALSE, "pick", "keeps", FALSE)
DialPhonePanel   == ButtonPanel(FALSE, "pick", "keeps", FALSE)
DecomposePanel   == ButtonPanel(FALSE, "pick", "keeps", FALSE)
EmailDetail      == DetailPanel
SMSDetail        == DetailPanel
KeyDetail        == [DetailPanel EXCEPT !.failed = "row"]

Out == {c \in Calls : calls[c] # NoCall}
\* Only live continuations see their answer; a cancelled one still takes it.
Cancelled == [c \in Calls |-> IF panel.guarded THEN [calls[c] EXCEPT !.live = FALSE] ELSE calls[c]]

AskFor(t, write) ==
    /\ questions < MaxQuestions
    /\ questions' = questions + 1
    /\ \E c \in Calls \ Out :
          calls' = [Cancelled EXCEPT ![c] = [topic |-> t, live |-> TRUE, write |-> write]]

\* Slip: the old answer stays up while the new one is awaited.
PickAsksKept(t) ==
    /\ panel.effect /\ t # pick
    /\ AskFor(t, FALSE)
    /\ pick' = t /\ latest' = t
    /\ caption' = t
    /\ spin' = panel.flag
    /\ UNCHANGED <<panel, answer>>

\* The control of an effect panel: the effect runs again for the new pick.
PickAsks(t) ==
    /\ panel.effect /\ t # pick
    /\ AskFor(t, FALSE)
    /\ pick' = t /\ latest' = t
    /\ caption' = t
    /\ answer' = IF panel.clears THEN Nil ELSE answer
    /\ spin' = panel.flag
    /\ UNCHANGED panel

\* Nothing is picked any more (the control cleared, the drawer closed): the effect
\* takes the answer away and returns before it touches the loading flag.
ClearPick ==
    /\ panel.effect /\ panel.empty /\ pick # Nil
    /\ pick' = Nil /\ caption' = Nil /\ latest' = Nil
    /\ answer' = Nil
    /\ calls' = Cancelled
    /\ UNCHANGED <<panel, spin, questions>>

\* The control of a button panel only remembers; the button asks.
TypeTopic(t) ==
    /\ ~panel.effect /\ t # pick
    /\ pick' = t
    /\ caption' = IF panel.names = "pick" THEN t ELSE caption
    /\ UNCHANGED <<panel, answer, spin, calls, latest, questions>>

\* A button that shows that it loads does not ask again.
PressAsk ==
    /\ ~panel.effect /\ pick # Nil
    /\ panel.single => ~spin
    /\ AskFor(pick, FALSE)
    /\ latest' = pick
    /\ spin' = panel.flag
    /\ UNCHANGED <<panel, pick, caption, answer>>

\* The drawer of a record is closed; an answer on its way opens it again.
CloseDetail ==
    /\ ~panel.effect /\ ~panel.flag /\ answer # Nil
    /\ answer' = Nil /\ caption' = Nil
    /\ UNCHANGED <<panel, pick, spin, calls, latest, questions>>

\* The save of the quota form: for the owner of the caption, with a flag of its own.
PressSave ==
    /\ panel.saves /\ answer # Nil /\ caption # Nil
    /\ \A c \in Out : ~calls[c].write
    /\ AskFor(caption, TRUE)
    /\ UNCHANGED <<panel, pick, caption, answer, spin, latest>>

(***************************************************************************)
(* The answer, and the failure; the finally block lowers the flag.         *)
(***************************************************************************)
Lowered(c) == IF calls[c].live /\ ~calls[c].write THEN FALSE ELSE spin

\* Slip: the continuation forgets to look whether it was cancelled.
AnswerComesLate(c) ==
    /\ c \in Out
    /\ answer' = calls[c].topic
    /\ caption' = IF panel.names = "answer" /\ ~calls[c].write THEN calls[c].topic ELSE caption
    /\ spin' = Lowered(c)
    /\ calls' = [calls EXCEPT ![c] = NoCall]
    /\ UNCHANGED <<panel, pick, latest, questions>>

AnswerComes(c) ==
    /\ c \in Out
    /\ IF calls[c].live
       THEN /\ answer' = calls[c].topic
            /\ caption' = IF panel.names = "answer" /\ ~calls[c].write THEN calls[c].topic ELSE caption
       ELSE UNCHANGED <<answer, caption>>
    /\ spin' = Lowered(c)
    /\ calls' = [calls EXCEPT ![c] = NoCall]
    /\ UNCHANGED <<panel, pick, latest, questions>>

AnswerFails(c) ==
    /\ c \in Out
    /\ answer' = CASE panel.failed = "row"    -> calls[c].topic
                   [] panel.failed = "clears" -> Nil
                   [] OTHER                   -> answer
    /\ caption' = IF panel.failed = "row" THEN calls[c].topic ELSE caption
    /\ spin' = Lowered(c)
    /\ calls' = [calls EXCEPT ![c] = NoCall]
    /\ UNCHANGED <<panel, pick, latest, questions>>

PanelInit ==
    /\ panel \in Panels
    /\ pick = Nil /\ caption = Nil /\ answer = Nil /\ latest = Nil
    /\ spin = FALSE
    /\ calls = [c \in Calls |-> NoCall]
    /\ questions = 0

PanelNext ==
    \/ \E t \in Topics : PickAsks(t) \/ TypeTopic(t)
    \/ ClearPick \/ PressAsk \/ PressSave \/ CloseDetail
    \/ \E c \in Calls : AnswerComes(c) \/ AnswerFails(c)

PanelSpec == PanelInit /\ [][PanelNext]_panelVars

(***************************************************************************)
(* Properties.                                                             *)
(***************************************************************************)
\* What each variable may hold.
PanelTypeOK ==
    /\ panel \in Panels
    /\ pick \in Topics \cup {Nil} /\ caption \in Topics \cup {Nil} /\ answer \in Topics \cup {Nil}
    /\ spin \in BOOLEAN /\ latest \in Topics \cup {Nil}
    /\ calls \in [Calls -> [topic : Topics \cup {Nil}, live : BOOLEAN, write : BOOLEAN]]

\* The panels that take care: they drop late answers and the old data, or take one
\* question at a time and name the answer when it comes, with no second writer.
Careful == (panel.guarded /\ panel.clears) \/ (panel.single /\ panel.names = "answer" /\ ~panel.saves)

\* A careful panel never shows one topic's data under another's name, whatever the
\* order the answers come in and whichever of them fail.
NameFitsAnswer == Careful /\ answer # Nil => answer = caption

\* An answer that comes after a newer pick is never put up by a guarded panel, in
\* whichever order the answers come and whichever of them fail.
LateAnswerDropped ==
    [][panel.guarded /\ answer' # answer /\ answer' # Nil => answer' = latest]_panelVars
=============================================================================
