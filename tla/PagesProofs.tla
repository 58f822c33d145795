----------------------------- MODULE PagesProofs -----------------------------
(***************************************************************************)
(* Proofs about the console's pages, for any pages, topics, rows, files    *)
(* and bounds.                                                             *)
(***************************************************************************)
EXTENDS ConsolePages, TurnProofs, RegistryProofs

-----------------------------------------------------------------------------
(* Panels.  What a cancelled question would answer is of no account; the   *)
(* one that is not cancelled is the last one asked.                        *)
LiveIsLatest ==
    panel.guarded => \A c \in Calls : calls[c].live => calls[c].topic = latest /\ caption = latest

\* Only a panel with a save has a question out that is one.
WritesAreSaves == \A c \in Calls : calls[c].write => panel.saves

PanelInv == PanelTypeOK /\ LiveIsLatest /\ WritesAreSaves /\ NameFitsAnswer

\* An empty panel is a consistent one.
LEMMA PanelStarts == PanelInit => PanelInv
<1> SUFFICES ASSUME PanelInit PROVE PanelInv
  OBVIOUS
<1>1. PanelTypeOK
  BY DEF PanelInit, PanelTypeOK, NoCall
<1>2. LiveIsLatest
  BY DEF PanelInit, LiveIsLatest, NoCall
<1>3. NameFitsAnswer
  BY DEF PanelInit, NameFitsAnswer
<1>4. WritesAreSaves
  BY DEF PanelInit, WritesAreSaves, NoCall
<1> QED
  BY <1>1, <1>2, <1>3, <1>4 DEF PanelInv

(* Every step keeps a panel well typed.                                    *)
LEMMA PanelTyped == PanelTypeOK /\ [PanelNext]_panelVars => PanelTypeOK'
<1> SUFFICES ASSUME PanelTypeOK, [PanelNext]_panelVars PROVE PanelTypeOK'
  OBVIOUS
<1> USE DEF PanelTypeOK
<1>1. Cancelled \in [Calls -> [topic : Topics \cup {Nil}, live : BOOLEAN, write : BOOLEAN]]
  BY DEF Cancelled
<1>2. ASSUME NEW t \in Topics \cup {Nil}, NEW w \in BOOLEAN, AskFor(t, w)
      PROVE  calls' \in [Calls -> [topic : Topics \cup {Nil}, live : BOOLEAN, write : BOOLEAN]]
  BY <1>1, <1>2 DEF AskFor
<1>3. panel \in Panels /\ panel.flag \in BOOLEAN
  BY PanelAssumption
<1>4. ASSUME NEW t \in Topics, PickAsks(t) PROVE PanelTypeOK'
  BY <1>2, <1>3, <1>4 DEF PickAsks
<1>5. ASSUME NEW t \in Topics, TypeTopic(t) PROVE PanelTypeOK'
  BY <1>5 DEF TypeTopic
<1>6. CASE ClearPick
  BY <1>1, <1>6 DEF ClearPick
<1>7. CASE PressAsk
  BY <1>2, <1>3, <1>7 DEF PressAsk
<1>8. CASE PressSave
  BY <1>2, <1>8 DEF PressSave
<1>9. CASE CloseDetail
  BY <1>9 DEF CloseDetail
<1>10. ASSUME NEW c \in Calls, AnswerComes(c) \/ AnswerFails(c) PROVE PanelTypeOK'
  <2>1. Nil \in Topics \cup {Nil} /\ Lowered(c) \in BOOLEAN
    BY DEF Lowered
  <2>2. calls[c] \in [topic : Topics \cup {Nil}, live : BOOLEAN, write : BOOLEAN]
    OBVIOUS
  <2>3. calls[c].topic \in Topics \cup {Nil}
    BY <2>2
  <2>4. calls' \in [Calls -> [topic : Topics \cup {Nil}, live : BOOLEAN, write : BOOLEAN]]
    <3>1. calls' = [calls EXCEPT ![c] = NoCall]
      BY <1>10 DEF AnswerComes, AnswerFails
    <3>2. NoCall \in [topic : Topics \cup {Nil}, live : BOOLEAN, write : BOOLEAN]
      BY DEF NoCall
    <3> QED
      BY <3>1, <3>2
  <2>5. CASE AnswerComes(c)
    BY <2>1, <2>3, <2>4, <2>5 DEF AnswerComes
  <2>6. CASE AnswerFails(c)
    BY <2>1, <2>3, <2>4, <2>6 DEF AnswerFails
  <2> QED
    BY <1>10, <2>5, <2>6
<1>11. CASE UNCHANGED panelVars
  BY <1>11 DEF panelVars
<1> HIDE DEF PanelTypeOK
<1> QED
  BY <1>4, <1>5, <1>6, <1>7, <1>8, <1>9, <1>10, <1>11 DEF PanelNext

(* Every step keeps the last question the only one that is listened to,    *)
(* and the answer under its name.                                          *)
LEMMA PanelSteps == PanelInv /\ [PanelNext]_panelVars => PanelInv'
<1> SUFFICES ASSUME PanelInv, [PanelNext]_panelVars PROVE LiveIsLatest' /\ WritesAreSaves' /\ NameFitsAnswer'
  BY PanelTyped DEF PanelInv
<1> USE DEF PanelInv, PanelTypeOK, LiveIsLatest, WritesAreSaves, NameFitsAnswer, Careful
<1>1. /\ panel \in Panels
      /\ panel.guarded => panel.effect
      /\ panel.effect => panel.names = "pick" /\ panel.failed = "keeps" /\ ~panel.saves /\ ~panel.single
      /\ panel.single => panel.failed # "row"
  BY PanelAssumption
<1>2. panel.guarded => \A c \in Calls : ~Cancelled[c].live
  BY DEF Cancelled
<1>3. ASSUME NEW t \in Topics, PickAsks(t) PROVE LiveIsLatest' /\ WritesAreSaves' /\ NameFitsAnswer'
  BY <1>1, <1>2, <1>3 DEF PickAsks, AskFor, Cancelled
<1>4. ASSUME NEW t \in Topics, TypeTopic(t) PROVE LiveIsLatest' /\ WritesAreSaves' /\ NameFitsAnswer'
  BY <1>1, <1>4 DEF TypeTopic
<1>5. CASE ClearPick
  BY <1>1, <1>2, <1>5 DEF ClearPick, Cancelled
<1>6. CASE PressAsk
  BY <1>1, <1>6 DEF PressAsk, AskFor, Cancelled
<1>7. CASE PressSave
  BY <1>1, <1>7 DEF PressSave, AskFor, Cancelled, Out
<1>8. CASE CloseDetail
  BY <1>1, <1>8 DEF CloseDetail
<1>9. ASSUME NEW c \in Calls, AnswerComes(c) PROVE LiveIsLatest' /\ WritesAreSaves' /\ NameFitsAnswer'
  BY <1>1, <1>9 DEF AnswerComes, NoCall, Out
<1>10. ASSUME NEW c \in Calls, AnswerFails(c) PROVE LiveIsLatest' /\ WritesAreSaves' /\ NameFitsAnswer'
  <2>1. \A d \in Calls : calls'[d].live \/ calls'[d].write => calls'[d] = calls[d]
    BY <1>10 DEF AnswerFails, NoCall
  <2>2. panel' = panel /\ latest' = latest
    BY <1>10 DEF AnswerFails
  <2>3. CASE panel.failed = "row"
    BY <1>1, <1>10, <2>1, <2>2, <2>3 DEF AnswerFails
  <2>4. CASE panel.failed # "row"
    <3>1. caption' = caption /\ answer' \in {answer, Nil}
      BY <1>10, <2>4 DEF AnswerFails
    <3> QED
      BY <2>1, <2>2, <3>1
  <2> QED
    BY <2>3, <2>4
<1>11. CASE UNCHANGED panelVars
  BY <1>11 DEF panelVars
<1> HIDE DEF PanelInv, PanelTypeOK, LiveIsLatest, WritesAreSaves, NameFitsAnswer, Careful
<1> QED
  BY <1>3, <1>4, <1>5, <1>6, <1>7, <1>8, <1>9, <1>10, <1>11 DEF PanelNext

(* No panel that takes care shows one topic's data under another's name.   *)
THEOREM AnswerFitsItsName == PanelSpec => []NameFitsAnswer
<1>1. PanelInv => NameFitsAnswer
  BY DEF PanelInv
<1> QED
  BY <1>1, PanelStarts, PanelSteps, PTL DEF PanelSpec

(* No guarded panel puts up a late answer.                                 *)
THEOREM LateAnswersAreDropped == PanelSpec => LateAnswerDropped
<1>1. ASSUME PanelInv, [PanelNext]_panelVars
      PROVE  [panel.guarded /\ answer' # answer /\ answer' # Nil => answer' = latest]_panelVars
  <2> USE <1>1 DEF PanelInv, PanelTypeOK, LiveIsLatest
  <2>1. panel \in Panels /\ (panel.guarded => panel.effect /\ panel.failed = "keeps")
    BY PanelAssumption
  <2>2. ASSUME NEW t \in Topics, PickAsks(t) \/ TypeTopic(t)
        PROVE  answer' = answer \/ answer' = Nil
    BY <2>2 DEF PickAsks, TypeTopic
  <2>3. CASE ClearPick \/ PressAsk \/ PressSave \/ CloseDetail
    BY <2>3 DEF ClearPick, PressAsk, PressSave, CloseDetail
  <2>4. ASSUME NEW c \in Calls, AnswerComes(c) \/ AnswerFails(c)
        PROVE  panel.guarded /\ answer' # answer /\ answer' # Nil => answer' = latest
    BY <2>1, <2>4 DEF AnswerComes, AnswerFails
  <2> QED
    BY <2>2, <2>3, <2>4 DEF PanelNext
<1> QED
  BY <1>1, PanelStarts, PanelSteps, PTL DEF PanelSpec, LateAnswerDropped

-----------------------------------------------------------------------------
(* Files.  The flag of the drop zone is up while one upload runs; the      *)
(* dialogue comes and goes without touching it.                            *)
FileInv == /\ DropZoneWaits
           /\ uploading \in BOOLEAN
           /\ uploads \in [Files -> Steps \cup {NoUpload}]

\* The drop zone starts free.
LEMMA FileStarts == FileInit => FileInv
  BY DEF FileInit, FileInv, DropZoneWaits, Running

\* A file that gets on keeps the zone as it was, over every step of every upload.
LEMMA FileSteps == FileInv /\ [FileNext]_fileVars => FileInv'
<1> SUFFICES ASSUME FileInv, [FileNext]_fileVars PROVE FileInv'
  OBVIOUS
<1> USE DEF FileInv, DropZoneWaits, Running
<1>1. CASE OpenDialog \/ CloseDialog \/ FilesArrive \/ FilesDeleted \/ FilesKept
  BY <1>1 DEF OpenDialog, CloseDialog, FilesArrive, FilesDeleted, FilesKept
<1>2. ASSUME NEW f \in Files, ChooseFile(f) PROVE FileInv'
  <2>1. \A g \in Files : uploads[g] = NoUpload
    BY <1>2 DEF ChooseFile
  <2>2. uploads' = [uploads EXCEPT ![f] = "credential"] /\ uploading' = TRUE
    BY <1>2 DEF ChooseFile
  <2> QED
    BY <2>1, <2>2 DEF Steps, NoUpload
<1>3. ASSUME NEW f \in Files, Granted(f) \/ PutDone(f) \/ ConfirmServed(f) PROVE FileInv'
  <2>1. uploading' = uploading /\ uploads[f] # NoUpload
    BY <1>3 DEF Granted, PutDone, ConfirmServed, NoUpload
  <2>2. PICK n \in Steps : uploads' = [uploads EXCEPT ![f] = n]
    BY <1>3 DEF Granted, PutDone, ConfirmServed, Steps
  <2> QED
    BY <2>1, <2>2 DEF Steps, NoUpload
<1>4. ASSUME NEW f \in Files, UploadDone(f) \/ UploadFails(f) PROVE FileInv'
  <2>1. uploads[f] # NoUpload
    BY <1>4 DEF UploadDone, UploadFails, NoUpload
  <2>2. uploads' = [uploads EXCEPT ![f] = NoUpload] /\ uploading' = FALSE
    BY <1>4 DEF UploadDone, UploadFails
  <2> QED
    BY <2>1, <2>2
<1>5. ASSUME NEW f \in Files, PickFile(f) PROVE FileInv'
  BY <1>5 DEF PickFile
<1>6. ASSUME NEW S \in SUBSET Files, AskDelete(S) \/ FilesGo(S) PROVE FileInv'
  BY <1>6 DEF AskDelete, FilesGo
<1>7. CASE UNCHANGED fileVars
  BY <1>7 DEF fileVars
<1> HIDE DEF FileInv
<1> QED
  BY <1>1, <1>2, <1>3, <1>4, <1>5, <1>6, <1>7 DEF FileNext

(* However the dialogue is closed and opened, one upload runs at a time    *)
(* and the drop zone is disabled exactly while it does.                    *)
THEOREM OneUploadAtATime == FileSpec => []DropZoneWaits
<1>1. FileInv => DropZoneWaits
  BY DEF FileInv
<1> QED
  BY <1>1, FileStarts, FileSteps, PTL DEF FileSpec

-----------------------------------------------------------------------------
(* Codes.  The button takes one of three: nothing out and no interval, one *)
(* request, or one interval that counts down; each of the form that is     *)
(* open, whatever a form left earlier has still out.                       *)
OneAsked == \A s, t \in Asking : s = t

SendRecord == [to : Addresses \cup {NoAddress}, known : BOOLEAN, here : BOOLEAN]

CodeInv ==
    /\ countdown \in Nat /\ timers \in Nat
    /\ sends \in [SendSlots -> SendRecord]
    /\ address \in Addresses \cup {NoAddress}
    /\ codeForm.waits =>
         /\ timers = IF countdown = 0 THEN 0 ELSE 1
         /\ OneAsked /\ (Asking # {} => timers = 0)

\* No request is out and no interval runs at first.
LEMMA CodeStarts == CodeInit => CodeInv
  BY DEF CodeInit, CodeInv, OneAsked, Asking, Sending, FreeSend, SendRecord

\* A form that is left leaves no request and no interval to the next one.
LEMMA LeavingForgets == ASSUME CodeInv, NEW forgot, FormCloses(forgot), UNCHANGED codeForm PROVE CodeInv'
<1> USE DEF CodeInv
<1>1. address' \in Addresses \cup {NoAddress}
  BY DEF FormCloses
<1>2. CASE forgot = Everything
  <2>1. countdown' = 0 /\ timers' = 0
    BY <1>2 DEF FormCloses
  <2>2. sends' = [s \in SendSlots |-> [sends[s] EXCEPT !.here = FALSE]]
    BY <1>2 DEF FormCloses
  <2>3. sends' \in [SendSlots -> SendRecord]
    BY <2>2 DEF SendRecord
  <2>4. Asking' = {}
    BY <2>2 DEF Asking, Sending, SendRecord
  <2> QED
    BY <1>1, <2>1, <2>3, <2>4 DEF OneAsked
<1>3. CASE forgot # Everything
  BY <1>1, <1>3 DEF FormCloses, OneAsked, Asking, Sending
<1> QED
  BY <1>2, <1>3

\* Request, countdown and interval follow each other, over every step.
LEMMA CodeSteps == CodeInv /\ [CodeNext]_codeVars => CodeInv'
<1> SUFFICES ASSUME CodeInv, [CodeNext]_codeVars PROVE CodeInv'
  OBVIOUS
<1> USE DEF CodeInv, OneAsked, Asking, Sending
<1>1. ASSUME NEW a \in Addresses, TypeAddress(a) \/ TypeCode(a) PROVE CodeInv'
  BY <1>1 DEF TypeAddress, TypeCode
<1>2. CASE SendCode
  <2>1. PICK s \in SendSlots \ Sending :
           sends' = [sends EXCEPT ![s] = [to |-> address, known |-> FALSE, here |-> TRUE]]
    BY <1>2 DEF SendCode
  <2>2. Asking' \subseteq Asking \cup {s}
    BY <2>1
  <2>3. codeForm.waits => Asking = {} /\ countdown = 0
    BY <1>2 DEF SendCode
  <2>4. sends' \in [SendSlots -> SendRecord]
    BY <2>1 DEF SendRecord
  <2>5. UNCHANGED <<codeForm, address, countdown, timers>>
    BY <1>2 DEF SendCode
  <2> QED
    BY <2>2, <2>3, <2>4, <2>5
<1>3. CASE Tick
  BY <1>3 DEF Tick
<1>4. CASE SubmitCode \/ SubmitRefused
  BY <1>4 DEF SubmitCode, SubmitRefused
<1>5. CASE LeaveForm \/ SubmitAccepted
  BY <1>5, LeavingForgets DEF LeaveForm, SubmitAccepted
<1>6. ASSUME NEW s \in SendSlots, IssueCode(s) PROVE CodeInv'
  <2>1. s \in Sending /\ sends' = [sends EXCEPT ![s].known = TRUE]
        /\ UNCHANGED <<codeForm, address, countdown, timers>>
    BY <1>6 DEF IssueCode
  <2>2. sends' \in [SendSlots -> SendRecord]
    BY <2>1 DEF SendRecord
  <2>3. \A t \in SendSlots : sends'[t].to = sends[t].to /\ sends'[t].here = sends[t].here
    BY <2>1 DEF SendRecord
  <2>4. Asking' = Asking
    BY <2>3
  <2> QED
    BY <2>1, <2>2, <2>4
<1>7. ASSUME NEW s \in SendSlots, CodeSent(s) PROVE CodeInv'
  <2>1. s \in Sending /\ sends' = [sends EXCEPT ![s] = FreeSend] /\ UNCHANGED <<codeForm, address>>
    BY <1>7 DEF CodeSent
  <2>2. Asking' = Asking \ {s}
    BY <2>1 DEF FreeSend
  <2>3. sends' \in [SendSlots -> SendRecord]
    BY <2>1 DEF FreeSend, SendRecord
  <2>4. CASE codeForm.waits /\ sends[s].here
    <3>1. Asking' = {} /\ timers = 0
      BY <2>1, <2>2, <2>4
    <3>2. countdown' = Wait /\ timers' = timers + 1
      BY <1>7, <2>4 DEF CodeSent
    <3> QED
      BY <2>1, <2>3, <3>1, <3>2, CodeAssumption
  <2>5. CASE ~(codeForm.waits /\ sends[s].here)
    <3>1. UNCHANGED <<countdown, timers>>
      BY <1>7, <2>5 DEF CodeSent
    <3> QED
      BY <2>1, <2>2, <2>3, <3>1
  <2> QED
    BY <2>4, <2>5
<1>8. ASSUME NEW s \in SendSlots, CodeNotSent(s) PROVE CodeInv'
  <2>1. s \in Sending /\ sends' = [sends EXCEPT ![s] = FreeSend]
        /\ UNCHANGED <<codeForm, address, countdown, timers>>
    BY <1>8 DEF CodeNotSent
  <2>2. Asking' \subseteq Asking /\ sends' \in [SendSlots -> SendRecord]
    BY <2>1 DEF FreeSend, SendRecord
  <2> QED
    BY <2>1, <2>2
<1>9. CASE UNCHANGED codeVars
  BY <1>9 DEF codeVars
<1> HIDE DEF CodeInv
<1> QED
  BY <1>1, <1>2, <1>3, <1>4, <1>5, <1>6, <1>7, <1>8, <1>9 DEF CodeNext

(* The registration form never has two requests or two intervals running,  *)
(* however often it was left and opened before.                            *)
THEOREM OneCodeAtATime == CodeSpec => []OneIntervalPerVisit
<1>1. CodeInv => OneIntervalPerVisit
  <2> SUFFICES ASSUME CodeInv, codeForm.waits PROVE Cardinality(Asking) + timers <= 1
    BY Zenon DEF CodeInv, OneIntervalPerVisit
  <2>1. CASE Asking = {}
    <3>1. Cardinality(Asking) = 0
      BY <2>1, FS_EmptySet
    <3>2. timers \in {0, 1}
      BY DEF CodeInv
    <3> QED
      BY <3>1, <3>2
  <2>2. CASE Asking # {}
    <3>1. PICK s : s \in Asking
      BY <2>2
    <3>2. Asking = {s}
      BY <3>1 DEF CodeInv, OneAsked
    <3>3. Cardinality(Asking) = 1
      BY <3>2, FS_Singleton
    <3>4. timers = 0
      BY <2>2 DEF CodeInv
    <3> QED
      BY <3>3, <3>4
  <2> QED
    BY <2>1, <2>2
<1> QED
  BY <1>1, CodeStarts, CodeSteps, PTL DEF CodeSpec

-----------------------------------------------------------------------------
(* Rows.  On a keyed page every value that is held, shown, typed or sent   *)
(* for a row is that row's own.                                            *)
Own(r, v) == editPage.keyed => \A f \in DOMAIN v : v[f].of = r

RowTable(t) == DOMAIN t \subseteq Ids /\ \A r \in DOMAIN t : t[r] \in [Fields -> Values] /\ Own(r, t[r])

FormInv ==
    /\ form = [row |-> form.row, store |-> form.store]
    /\ form.row \in Ids \cup {NoRow}
    /\ form.row = NoRow => form.store \in {<<>>} \cup [Fields -> Values] /\ (editPage.keyed => form.store = <<>>)
    /\ form.row # NoRow => form.store \in [Fields -> Values] /\ Own(form.row, form.store)

SaveOK(q) ==
    q = NoSave \/ (/\ q \in [row : Ids, vals : [editPage.sends -> Values], applied : BOOLEAN]
                   /\ Own(q.row, q.vals))

SavesInv == DOMAIN saves = SaveSlots /\ \A s \in SaveSlots : SaveOK(saves[s])

EditInv == editPage \in EditPages /\ RowTable(rec) /\ RowTable(listed) /\ FormInv /\ SavesInv

\* Every row holds its own values at first, and no form is open.
LEMMA EditStarts == EditInit => EditInv
<1> SUFFICES ASSUME EditInit PROVE EditInv
  OBVIOUS
<1>1. RowTable(rec)
  BY DEF EditInit, RowTable, Own, NewRecord, Val, Values, Ids
<1>2. RowTable(listed)
  BY DEF EditInit, RowTable
<1>3. FormInv
  BY DEF EditInit, FormInv, NoForm
<1>4. SavesInv
  BY DEF EditInit, SavesInv, SaveOK
<1> QED
  BY <1>1, <1>2, <1>3, <1>4 DEF EditInv, EditInit

(* What the service holds, over every step.                                *)
LEMMA RecSteps == EditInv /\ [EditNext]_editVars => RowTable(rec)'
<1> SUFFICES ASSUME EditInv, [EditNext]_editVars PROVE RowTable(rec)'
  OBVIOUS
<1> USE DEF RowTable, Own, Fields
<1>1. ASSUME UNCHANGED <<editPage, rec>> PROVE RowTable(rec)'
  BY <1>1 DEF EditInv
<1>2. CASE RowsArrive \/ CancelEdit
  BY <1>1, <1>2 DEF RowsArrive, CancelEdit
<1>3. ASSUME NEW r \in Ids, EditRow(r) PROVE RowTable(rec)'
  BY <1>1, <1>3 DEF EditRow
<1>4. ASSUME NEW r \in Ids, CreateRow(r) PROVE RowTable(rec)'
  <2>1. NewRecord(r) \in [Fields -> Values] /\ \A f \in Fields : NewRecord(r)[f].of = r
    BY DEF NewRecord, Val, Values
  <2>2. rec' = [x \in Alive \cup {r} |-> IF x = r THEN NewRecord(r) ELSE rec[x]] /\ editPage' = editPage
    BY <1>4 DEF CreateRow
  <2> QED
    BY <2>1, <2>2 DEF EditInv, Alive
<1>5. ASSUME NEW r \in Ids, DeleteRow(r) PROVE RowTable(rec)'
  BY <1>5 DEF DeleteRow, EditInv, Alive
<1>6. ASSUME NEW f \in Fields, TypeField(f) PROVE RowTable(rec)'
  BY <1>1, <1>6 DEF TypeField
<1>7. ASSUME NEW f \in Fields, NEW r \in Ids, OtherWrites(r, f) PROVE RowTable(rec)'
  <2> DEFINE v == IF f = "flag" THEN Flip(rec[r][f]) ELSE Val(r, "other")
  <2>1. r \in DOMAIN rec /\ editPage' = editPage /\ rec' = [rec EXCEPT ![r][f] = v]
    BY <1>7 DEF OtherWrites, Alive
  <2>2. v \in Values /\ (editPage.keyed => v.of = r)
    BY <2>1 DEF EditInv, Flip, Val, Values
  <2> HIDE DEF v
  <2> QED
    BY <2>1, <2>2 DEF EditInv
<1>8. ASSUME NEW s \in SaveSlots, SaveStep(s) PROVE RowTable(rec)'
  <2>1. CASE SubmitEdit(s) \/ SaveDone(s) \/ SaveFails(s) \/ \E r \in Ids : QuickSave(s, r)
    BY <1>1, <2>1 DEF SubmitEdit, SaveDone, SaveFails, QuickSave, Send
  <2>2. CASE ApplySave(s)
    <3> DEFINE q == saves[s]
               new == Overwritten(rec[q.row], q.vals)
    <3>1. q.row \in DOMAIN rec /\ q # NoSave /\ editPage' = editPage /\ rec' = [rec EXCEPT ![q.row] = new]
      BY <2>2 DEF ApplySave, Alive
    <3>2. q.vals \in [editPage.sends -> Values] /\ (editPage.keyed => \A f \in editPage.sends : q.vals[f].of = q.row)
      BY <3>1 DEF EditInv, SavesInv, SaveOK
    <3>3. rec[q.row] \in [Fields -> Values] /\ (editPage.keyed => \A f \in Fields : rec[q.row][f].of = q.row)
      BY <3>1 DEF EditInv
    <3>4. new = [f \in DOMAIN rec[q.row] |-> IF f \in DOMAIN q.vals THEN q.vals[f] ELSE rec[q.row][f]]
      BY DEF Overwritten
    <3> HIDE DEF new, q
    <3>5. new \in [Fields -> Values] /\ (editPage.keyed => \A f \in Fields : new[f].of = q.row)
      BY <3>2, <3>3, <3>4
    <3> QED
      BY <3>1, <3>5 DEF EditInv
  <2> QED
    BY <1>8, <2>1, <2>2 DEF SaveStep
<1>9. CASE UNCHANGED editVars
  BY <1>1, <1>9 DEF editVars
<1> HIDE DEF RowTable
<1> QED
  BY <1>2, <1>3, <1>4, <1>5, <1>6, <1>7, <1>8, <1>9 DEF EditNext

(* What the table shows was held by the service.                           *)
LEMMA ListedSteps == EditInv /\ [EditNext]_editVars => RowTable(listed)' /\ editPage' \in EditPages
<1> SUFFICES ASSUME EditInv, [EditNext]_editVars PROVE RowTable(listed)' /\ editPage' \in EditPages
  OBVIOUS
<1> USE DEF RowTable, Own, Fields
<1>1. editPage' = editPage /\ (listed' = listed \/ listed' = rec)
  <2>1. CASE RowsArrive \/ CancelEdit
    BY <2>1 DEF RowsArrive, CancelEdit
  <2>2. ASSUME NEW r \in Ids, EditRow(r) \/ CreateRow(r) \/ DeleteRow(r)
        PROVE  editPage' = editPage /\ listed' = listed
    BY <2>2 DEF EditRow, CreateRow, DeleteRow
  <2>3. ASSUME NEW f \in Fields, TypeField(f) PROVE editPage' = editPage /\ listed' = listed
    BY <2>3 DEF TypeField
  <2>4. ASSUME NEW f \in Fields, NEW r \in Ids, OtherWrites(r, f) PROVE editPage' = editPage /\ listed' = listed
    BY <2>4 DEF OtherWrites
  <2>5. ASSUME NEW s \in SaveSlots, SaveStep(s) PROVE editPage' = editPage /\ listed' = listed
    BY <2>5 DEF SaveStep, SubmitEdit, ApplySave, SaveDone, SaveFails, QuickSave, Send
  <2>6. CASE UNCHANGED editVars
    BY <2>6 DEF editVars
  <2> QED
    BY <2>1, <2>2, <2>3, <2>4, <2>5, <2>6 DEF EditNext
<1> QED
  BY <1>1 DEF EditInv

(* What the form holds for a row is that row's, on a keyed page.           *)
LEMMA FormSteps == EditInv /\ [EditNext]_editVars => FormInv'
<1> SUFFICES ASSUME EditInv, [EditNext]_editVars PROVE FormInv'
  OBVIOUS
<1> USE DEF FormInv, Own, Fields
<1>1. ASSUME UNCHANGED <<editPage, form>> PROVE FormInv'
  BY <1>1 DEF EditInv
<1>2. ASSUME CloseForm, UNCHANGED editPage PROVE FormInv'
  BY <1>2 DEF EditInv, CloseForm
<1>3. CASE RowsArrive
  BY <1>1, <1>3 DEF RowsArrive
<1>4. CASE CancelEdit
  BY <1>2, <1>4 DEF CancelEdit
<1>5. ASSUME NEW r \in Ids, EditRow(r) PROVE FormInv'
  <2>1. form' = [row |-> r, store |-> Filled(r)] /\ editPage' = editPage /\ r \in DOMAIN listed /\ form.row = NoRow
    BY <1>5 DEF EditRow
  <2>2. Filled(r) \in [Fields -> Values] /\ (editPage.keyed => \A f \in Fields : Filled(r)[f].of = r)
    BY <2>1 DEF EditInv, RowTable, Filled
  <2>3. r # NoRow
    BY EditAssumption
  <2> QED
    BY <2>1, <2>2, <2>3
<1>6. ASSUME NEW r \in Ids, CreateRow(r) \/ DeleteRow(r) PROVE FormInv'
  BY <1>1, <1>6 DEF CreateRow, DeleteRow
<1>7. ASSUME NEW f \in Fields, TypeField(f) PROVE FormInv'
  <2>1. form.row \in Ids /\ form.row # NoRow /\ editPage' = editPage /\ form.store \in [Fields -> Values]
    BY <1>7 DEF TypeField, EditInv
  <2>2. Val(form.row, "typed") \in Values /\ Val(form.row, "typed").of = form.row
    BY <2>1 DEF Val, Values
  <2>3. form' = [row |-> form.row, store |-> [form.store EXCEPT ![f] = Val(form.row, "typed")]]
    BY <1>7 DEF TypeField, EditInv
  <2> QED
    BY <2>1, <2>2, <2>3 DEF EditInv
<1>8. ASSUME NEW f \in Fields, NEW r \in Ids, OtherWrites(r, f) PROVE FormInv'
  BY <1>1, <1>8 DEF OtherWrites
<1>9. ASSUME NEW s \in SaveSlots, SubmitEdit(s) \/ ApplySave(s) \/ SaveFails(s) PROVE FormInv'
  BY <1>1, <1>9 DEF SubmitEdit, ApplySave, SaveFails, Send
<1>10. ASSUME NEW s \in SaveSlots, NEW r \in Ids, QuickSave(s, r) PROVE FormInv'
  BY <1>1, <1>10 DEF QuickSave, Send
<1>11. ASSUME NEW s \in SaveSlots, SaveDone(s) PROVE FormInv'
  BY <1>1, <1>2, <1>11 DEF SaveDone
<1>12. CASE UNCHANGED editVars
  BY <1>1, <1>12 DEF editVars
<1> HIDE DEF FormInv
<1> QED
  BY <1>3, <1>4, <1>5, <1>6, <1>7, <1>8, <1>9, <1>10, <1>11, <1>12 DEF EditNext, SaveStep

(* What is sent for a row is that row's, on a keyed page.                  *)
LEMMA SavesSteps == EditInv /\ [EditNext]_editVars => SavesInv'
<1> SUFFICES ASSUME EditInv, [EditNext]_editVars PROVE SavesInv'
  OBVIOUS
<1> USE DEF SavesInv, SaveOK, Own, Fields
<1>1. ASSUME UNCHANGED <<editPage, saves>> PROVE SavesInv'
  BY <1>1 DEF EditInv
<1>2. ASSUME NEW s \in SaveSlots, saves' = [saves EXCEPT ![s] = NoSave], UNCHANGED editPage PROVE SavesInv'
  BY <1>2 DEF EditInv
<1>3. ASSUME NEW s \in SaveSlots, NEW r \in Ids, NEW vals \in [editPage.sends -> Values], Send(s, r, vals),
             editPage.keyed => \A f \in editPage.sends : vals[f].of = r
      PROVE  SavesInv'
  BY <1>3 DEF EditInv, Send
<1>4. editPage.sends \subseteq Fields
  BY EditAssumption DEF EditInv
<1>5. ASSUME NEW s \in SaveSlots, SubmitEdit(s) PROVE SavesInv'
  <2>1. form.row \in Ids /\ form.store \in [Fields -> Values]
        /\ (editPage.keyed => \A f \in Fields : form.store[f].of = form.row)
    BY <1>5 DEF SubmitEdit, EditInv, FormInv
  <2> DEFINE dropped == IF "channel" \in Fields /\ form.store["channel"].how = "typed"
                        THEN editPage.drops ELSE {}
  <2>2. FormVals = [f \in editPage.sends |-> IF f \in dropped THEN Val(form.row, "none") ELSE form.store[f]]
    BY DEF FormVals
  <2>3. Val(form.row, "none") \in Values /\ Val(form.row, "none").of = form.row
    BY <2>1 DEF Val, Values
  <2> HIDE DEF dropped
  <2>4. FormVals \in [editPage.sends -> Values]
        /\ (editPage.keyed => \A f \in editPage.sends : FormVals[f].of = form.row)
    BY <1>4, <2>1, <2>2, <2>3
  <2> QED
    BY <1>3, <1>5, <2>1, <2>4 DEF SubmitEdit
<1>6. ASSUME NEW s \in SaveSlots, NEW r \in Ids, QuickSave(s, r) PROVE SavesInv'
  <2>1. listed[r] \in [Fields -> Values] /\ (editPage.keyed => \A f \in Fields : listed[r][f].of = r)
    BY <1>6 DEF QuickSave, EditInv, RowTable
  <2>2. \A f \in Fields : Flip(listed[r][f]) \in Values /\ Flip(listed[r][f]).of = listed[r][f].of
    BY <2>1 DEF Flip, Values
  <2>3. QuickVals(r) = [f \in editPage.sends |-> IF f = "flag" THEN Flip(listed[r][f]) ELSE listed[r][f]]
    BY DEF QuickVals
  <2>4. QuickVals(r) \in [editPage.sends -> Values]
        /\ (editPage.keyed => \A f \in editPage.sends : QuickVals(r)[f].of = r)
    BY <1>4, <2>1, <2>2, <2>3
  <2> QED
    BY <1>3, <1>6, <2>4 DEF QuickSave
<1>7. ASSUME NEW s \in SaveSlots, ApplySave(s) PROVE SavesInv'
  <2>1. saves' = [saves EXCEPT ![s].applied = TRUE] /\ editPage' = editPage /\ saves[s] # NoSave
    BY <1>7 DEF ApplySave
  <2> QED
    BY <2>1 DEF EditInv
<1>8. ASSUME NEW s \in SaveSlots, SaveDone(s) \/ SaveFails(s) PROVE SavesInv'
  BY <1>2, <1>8 DEF SaveDone, SaveFails
<1>9. CASE RowsArrive \/ CancelEdit
  BY <1>1, <1>9 DEF RowsArrive, CancelEdit
<1>10. ASSUME NEW r \in Ids, EditRow(r) \/ CreateRow(r) \/ DeleteRow(r) PROVE SavesInv'
  BY <1>1, <1>10 DEF EditRow, CreateRow, DeleteRow
<1>11. ASSUME NEW f \in Fields, TypeField(f) PROVE SavesInv'
  BY <1>1, <1>11 DEF TypeField
<1>12. ASSUME NEW f \in Fields, NEW r \in Ids, OtherWrites(r, f) PROVE SavesInv'
  BY <1>1, <1>12 DEF OtherWrites
<1>13. CASE UNCHANGED editVars
  BY <1>1, <1>13 DEF editVars
<1> HIDE DEF SavesInv
<1> QED
  BY <1>5, <1>6, <1>7, <1>8, <1>9, <1>10, <1>11, <1>12, <1>13 DEF EditNext, SaveStep

(* Records, list, form and saves together.                                 *)
LEMMA EditSteps == EditInv /\ [EditNext]_editVars => EditInv'
  BY RecSteps, ListedSteps, FormSteps, SavesSteps DEF EditInv

(* A keyed page never carries a value of one row into another.             *)
THEOREM RowsAreApart == EditSpec => []RowsKeepApart
<1>1. EditInv => RowsKeepApart
  BY DEF EditInv, RowTable, Own, RowsKeepApart, Alive, Fields
<1> QED
  BY <1>1, EditStarts, EditSteps, PTL DEF EditSpec

-----------------------------------------------------------------------------
(* One-time secrets.  The secret on its way to a dialogue is the one the   *)
(* service accepts, as long as no second request for its key ran beside it *)
(* and no answer was lost; a service that adds secrets keeps them all.     *)
SecretTypes ==
    /\ minted \in Nat
    /\ HasKeys \subseteq Keys
    /\ mints \in [MintSlots -> {NoMint} \cup [key : Keys, what : {"create", "renew"}, secret : Nat]]
    /\ dialogues \in Seq([key : Keys, secret : Nat])

LastAt(k, i) == i \in ShownAt(k) /\ \A j \in ShownAt(k) : i >= j

Unmixed  == HasKeys \ (lost \cup crossed)
SoleMint == \A k \in Keys \ crossed : \A m, n \in OutFor(k) : m = n
HasLast  == \A k \in Keys : ShownAt(k) # {} => \E i \in ShownAt(k) : LastAt(k, i)

Replaced ==
    /\ \A k \in Unmixed :
          ShownAt(k) # {} /\ (\A m \in OutFor(k) : mints[m].secret = NoSecret) =>
             valid[k] = {LastShown(k)}
    /\ \A m \in MintSlots : mints[m].secret # NoSecret /\ mints[m].key \in Unmixed =>
          valid[mints[m].key] = {mints[m].secret}

Accepted(k, s) == s \in revoked \/ (k \in HasKeys /\ s \in valid[k])

Added ==
    /\ \A i \in DOMAIN dialogues : Accepted(dialogues[i].key, dialogues[i].secret)
    /\ \A m \in MintSlots : mints[m].secret # NoSecret => Accepted(mints[m].key, mints[m].secret)

SecretInv ==
    /\ SecretTypes /\ SoleMint /\ HasLast
    /\ issuer.replaces => Replaced
    /\ ~issuer.replaces => Added

(* Nothing is out, nothing was shown.                                      *)
LEMMA SecretStarts == SecretInit => SecretInv
<1> SUFFICES ASSUME SecretInit PROVE SecretInv
  OBVIOUS
<1>1. /\ HasKeys = {} /\ dialogues = <<>> /\ DOMAIN dialogues = {} /\ minted = 0
      /\ mints = [m \in MintSlots |-> NoMint] /\ NoMint.secret = NoSecret /\ NoMint.key = "-"
  BY DEF SecretInit, HasKeys, NoMint, NoSecret
<1>2. SecretTypes
  BY <1>1 DEF SecretTypes
<1>3. \A k \in Keys : OutFor(k) = {} /\ ShownAt(k) = {}
  BY <1>1, SecretAssumption DEF OutFor, ShownAt
<1> QED
  BY <1>1, <1>2, <1>3 DEF SecretInv, SoleMint, HasLast, Replaced, Added, Unmixed

(* A request that is sent.                                                 *)
LEMMA SecretAsks ==
    ASSUME SecretInv, NEW k \in Keys, NEW what \in {"create", "renew"}, AskMint(k, what),
           UNCHANGED <<issuer, valid, dialogues, minted, revoked, lost>>
    PROVE  SecretInv'
<1>1. PICK m \in MintSlots :
         mints[m] = NoMint
         /\ mints' = [mints EXCEPT ![m] = [key |-> k, what |-> what, secret |-> NoSecret]]
  BY DEF AskMint
<1>2. /\ mints'[m].key = k /\ mints'[m].secret = NoSecret /\ mints[m].key = "-"
      /\ mints[m].secret = NoSecret
      /\ \A n \in MintSlots \ {m} : mints'[n] = mints[n]
  BY <1>1 DEF SecretInv, SecretTypes, NoMint, NoSecret
<1>3. SecretTypes'
  BY <1>1 DEF SecretInv, SecretTypes, HasKeys, NoMint, NoSecret
<1>4. \A h \in Keys : OutFor(h)' = IF h = k THEN OutFor(h) \cup {m} ELSE OutFor(h)
  BY <1>2, SecretAssumption DEF OutFor
<1>5. SoleMint' /\ crossed \subseteq crossed' /\ Unmixed' \subseteq Unmixed
  BY <1>4 DEF SecretInv, SoleMint, AskMint, Unmixed, HasKeys
<1>6. HasLast' /\ \A h : ShownAt(h)' = ShownAt(h) /\ LastShown(h)' = LastShown(h)
  BY DEF SecretInv, HasLast, ShownAt, LastAt, LastShown
<1>7. ASSUME issuer.replaces PROVE Replaced'
  <2>1. ASSUME NEW h \in Unmixed', (\A n \in OutFor(h) : mints[n].secret = NoSecret)', ShownAt(h)' # {}
        PROVE  (valid[h] = {LastShown(h)})'
    <3>1. h \in Unmixed /\ h \in Keys
      BY <1>5, <2>1 DEF Unmixed, SecretInv, SecretTypes
    <3>2. \A n \in OutFor(h) : mints[n].secret = NoSecret
      BY <1>2, <1>4, <2>1, <3>1 DEF OutFor
    <3> QED
      BY <1>6, <1>7, <2>1, <3>1, <3>2 DEF SecretInv, Replaced
  <2>2. ASSUME NEW n \in MintSlots, mints'[n].secret # NoSecret, mints'[n].key \in Unmixed'
        PROVE  valid'[mints'[n].key] = {mints'[n].secret}
    BY <1>2, <1>5, <1>7, <2>2 DEF SecretInv, Replaced
  <2> QED
    BY <2>1, <2>2 DEF Replaced
<1>8. ASSUME ~issuer.replaces PROVE Added'
  BY <1>2, <1>8 DEF SecretInv, Added, Accepted, HasKeys
<1> QED
  BY <1>3, <1>5, <1>6, <1>7, <1>8 DEF SecretInv

(* Nothing of it matters that touches no request, dialogue or secret.      *)
LEMMA SecretStays ==
    ASSUME SecretInv, UNCHANGED <<issuer, valid, mints, dialogues, minted, revoked, lost, crossed>>
    PROVE  SecretInv'
  BY DEF SecretInv, SecretTypes, SoleMint, HasLast, Replaced, Added, Unmixed, HasKeys,
         OutFor, ShownAt, LastShown, LastAt, Accepted

(* A secret or a key is withdrawn.                                         *)
LEMMA SecretGoes ==
    ASSUME SecretInv, UNCHANGED <<issuer, mints, dialogues, minted, lost, crossed>>,
           \/ \E k \in Keys, s \in 1 .. MaxSecrets : RevokeSecret(k, s)
           \/ \E k \in Keys : DeleteKey(k)
    PROVE  SecretInv'
<1>1. SecretTypes' /\ SoleMint' /\ HasLast'
  <2>1. HasKeys' \subseteq HasKeys
    BY DEF RevokeSecret, DeleteKey, HasKeys
  <2> QED
    BY <2>1 DEF SecretInv, SecretTypes, SoleMint, HasLast, OutFor, ShownAt, LastAt
<1>2. ASSUME issuer.replaces PROVE Replaced'
  <2>1. PICK k \in Keys : valid' = [h \in HasKeys \ {k} |-> valid[h]]
    BY <1>2 DEF RevokeSecret, DeleteKey
  <2>2. Unmixed' \subseteq Unmixed /\ \A h \in Unmixed' : valid'[h] = valid[h]
    BY <2>1 DEF Unmixed, HasKeys
  <2>3. \A h : OutFor(h)' = OutFor(h) /\ ShownAt(h)' = ShownAt(h) /\ LastShown(h)' = LastShown(h)
    BY DEF OutFor, ShownAt, LastShown
  <2> QED
    BY <1>2, <2>2, <2>3 DEF SecretInv, Replaced
<1>3. \A k, s : Accepted(k, s) => s \in revoked' \/ (k \in HasKeys' /\ s \in valid'[k])
  <2>1. CASE \E h \in Keys, r \in 1 .. MaxSecrets : RevokeSecret(h, r)
    BY <2>1 DEF RevokeSecret, Accepted, HasKeys
  <2>2. CASE \E h \in Keys : DeleteKey(h)
    BY <2>2 DEF DeleteKey, Accepted, HasKeys
  <2> QED
    BY <2>1, <2>2
<1>4. ASSUME ~issuer.replaces PROVE Added'
  <2>1. \A i \in DOMAIN dialogues : Accepted(dialogues[i].key, dialogues[i].secret)
    BY <1>4 DEF SecretInv, Added
  <2>2. \A m \in MintSlots : mints[m].secret # NoSecret => Accepted(mints[m].key, mints[m].secret)
    BY <1>4 DEF SecretInv, Added
  <2>3. \A i \in DOMAIN dialogues' : Accepted(dialogues[i].key, dialogues[i].secret)'
    BY <1>3, <2>1 DEF Accepted
  <2>4. \A m \in MintSlots :
           mints'[m].secret # NoSecret => Accepted(mints[m].key, mints[m].secret)'
    BY <1>3, <2>2 DEF Accepted
  <2> QED
    BY <2>3, <2>4 DEF Added
<1> QED
  BY <1>1, <1>2, <1>4 DEF SecretInv

(* The service mints.                                                      *)
LEMMA SecretMinted ==
    ASSUME SecretInv, NEW m \in MintSlots, Mint(m)
    PROVE  SecretInv'
<1> DEFINE q == mints[m]
           new == minted + 1
<1>1. /\ q \in [key : Keys, what : {"create", "renew"}, secret : Nat] /\ q.secret = NoSecret
      /\ mints' = [mints EXCEPT ![m].secret = new] /\ new \in Nat /\ new # NoSecret
      /\ UNCHANGED <<issuer, dialogues, revoked, lost, crossed>>
  BY DEF Mint, SecretInv, SecretTypes, NoSecret
<1>2. /\ mints'[m].key = q.key /\ mints'[m].secret = new
      /\ \A n \in MintSlots \ {m} : mints'[n] = mints[n]
  BY <1>1 DEF SecretInv, SecretTypes
<1>3. /\ HasKeys' = HasKeys \cup {q.key}
      /\ \A h \in HasKeys \ {q.key} : valid'[h] = valid[h]
      /\ new \in valid'[q.key]
      /\ issuer.replaces => valid'[q.key] = {new}
      /\ ~issuer.replaces /\ q.key \in HasKeys => valid[q.key] \subseteq valid'[q.key]
  BY DEF Mint, HasKeys
<1>4. SecretTypes'
  BY <1>1, <1>3 DEF SecretInv, SecretTypes, Mint
<1>5. \A h : OutFor(h)' = OutFor(h) /\ ShownAt(h)' = ShownAt(h) /\ LastShown(h)' = LastShown(h)
  BY <1>1, <1>2 DEF OutFor, ShownAt, LastShown
<1>6. SoleMint' /\ HasLast'
  BY <1>1, <1>5 DEF SecretInv, SoleMint, HasLast, LastAt
<1>7. ASSUME issuer.replaces PROVE Replaced'
  <2>1. ASSUME NEW h \in Unmixed', (\A n \in OutFor(h) : mints[n].secret = NoSecret)', ShownAt(h)' # {}
        PROVE  (valid[h] = {LastShown(h)})'
    <3>1. h # q.key
      BY <1>1, <1>2, <2>1 DEF OutFor
    <3>2. h \in Unmixed /\ valid'[h] = valid[h]
      BY <1>1, <1>3, <2>1, <3>1 DEF Unmixed
    <3>3. \A n \in OutFor(h) : mints[n].secret = NoSecret
      BY <1>2, <1>5, <2>1, <3>1 DEF OutFor
    <3> QED
      BY <1>5, <1>7, <2>1, <3>2, <3>3 DEF SecretInv, Replaced
  <2>2. ASSUME NEW n \in MintSlots, mints'[n].secret # NoSecret, mints'[n].key \in Unmixed'
        PROVE  valid'[mints'[n].key] = {mints'[n].secret}
    <3>1. CASE n = m
      BY <1>2, <1>3, <1>7, <3>1
    <3>2. CASE n # m
      <4>1. mints[n].key # q.key
        BY <1>1, <1>2, <2>2, <3>2 DEF SecretInv, SoleMint, OutFor, Unmixed
      <4>2. mints'[n] = mints[n] /\ mints[n].key \in Unmixed
        BY <1>1, <1>2, <1>3, <2>2, <3>2, <4>1 DEF Unmixed
      <4>3. valid[mints[n].key] = {mints[n].secret}
        BY <1>7, <2>2, <4>2 DEF SecretInv, Replaced
      <4> QED
        BY <1>3, <4>1, <4>2, <4>3 DEF Unmixed
    <3> QED
      BY <3>1, <3>2
  <2> QED
    BY <2>1, <2>2 DEF Replaced
<1>8. ASSUME ~issuer.replaces PROVE Added'
  <2>1. \A k, s : Accepted(k, s) => s \in revoked' \/ (k \in HasKeys' /\ s \in valid'[k])
    BY <1>1, <1>3, <1>8 DEF Accepted
  <2>2. \A i \in DOMAIN dialogues : Accepted(dialogues[i].key, dialogues[i].secret)
    BY <1>8 DEF SecretInv, Added
  <2>3. \A n \in MintSlots : mints[n].secret # NoSecret => Accepted(mints[n].key, mints[n].secret)
    BY <1>8 DEF SecretInv, Added
  <2>4. \A i \in DOMAIN dialogues' : Accepted(dialogues[i].key, dialogues[i].secret)'
    BY <1>1, <2>1, <2>2 DEF Accepted
  <2>5. \A n \in MintSlots :
           mints'[n].secret # NoSecret => Accepted(mints[n].key, mints[n].secret)'
    BY <1>2, <1>3, <2>1, <2>3 DEF Accepted
  <2> QED
    BY <2>4, <2>5 DEF Added
<1> QED
  BY <1>1, <1>4, <1>6, <1>7, <1>8 DEF SecretInv

(* A dialogue on top of the others is the last one of its key.             *)
LEMMA ShowAppends ==
    ASSUME SecretTypes, HasLast, NEW d \in [key : Keys, secret : Nat],
           dialogues' = Append(dialogues, d)
    PROVE  /\ HasLast' /\ LastShown(d.key)' = d.secret
           /\ \A k \in Keys \ {d.key} :
                 ShownAt(k)' = ShownAt(k) /\ (ShownAt(k) # {} => LastShown(k)' = LastShown(k))
<1> DEFINE top == Len(dialogues) + 1
<1>1. /\ DOMAIN dialogues = 1 .. Len(dialogues) /\ DOMAIN dialogues' = 1 .. top
      /\ Len(dialogues) \in Nat /\ dialogues'[top] = d
      /\ \A i \in DOMAIN dialogues : dialogues'[i] = dialogues[i]
  BY DEF SecretTypes
<1>2. /\ \A k \in Keys \ {d.key} : ShownAt(k)' = ShownAt(k)
      /\ ShownAt(d.key)' = ShownAt(d.key) \cup {top}
  BY <1>1 DEF ShownAt
<1>3. \A i \in ShownAt(d.key) : i \in Nat /\ top > i
  BY <1>1 DEF ShownAt
<1>4. HasLast'
  <2>1. \A j \in ShownAt(d.key)' : top >= j
    BY <1>1, <1>2, <1>3
  <2> QED
    BY <1>2, <2>1 DEF HasLast, LastAt
<1>5. LastShown(d.key)' = d.secret
  <2> DEFINE last == CHOOSE i \in ShownAt(d.key)' : \A j \in ShownAt(d.key)' : i >= j
  <2>1. last = top
    BY <1>1, <1>2, <1>3
  <2> QED
    BY <1>1, <2>1 DEF LastShown
<1>6. ASSUME NEW k \in Keys \ {d.key}, ShownAt(k) # {}
      PROVE  LastShown(k)' = LastShown(k)
  <2> DEFINE last == CHOOSE i \in ShownAt(k) : \A j \in ShownAt(k) : i >= j
  <2>1. last \in ShownAt(k)
    BY <1>6 DEF HasLast, LastAt
  <2>2. dialogues'[last] = dialogues[last]
    BY <1>1, <2>1 DEF ShownAt
  <2> QED
    BY <1>2, <2>2 DEF LastShown
<1> QED
  BY <1>2, <1>4, <1>5, <1>6

(* The answer comes, or does not.                                          *)
LEMMA SecretAnswers ==
    ASSUME SecretInv, NEW m \in MintSlots, MintAnswered(m) \/ MintFails(m)
    PROVE  SecretInv'
<1> DEFINE q == mints[m]
           d == [key |-> q.key, secret |-> q.secret]
<1>1. /\ q \in [key : Keys, what : {"create", "renew"}, secret : Nat]
      /\ mints' = [mints EXCEPT ![m] = NoMint]
      /\ UNCHANGED <<issuer, valid, minted, revoked, crossed>> /\ lost \subseteq lost'
      /\ NoMint.secret = NoSecret /\ NoMint.key \notin Keys
  BY SecretAssumption DEF MintAnswered, MintFails, SecretInv, SecretTypes, NoMint, NoSecret
<1>2. mints'[m] = NoMint /\ \A n \in MintSlots \ {m} : mints'[n] = mints[n]
  BY <1>1 DEF SecretInv, SecretTypes
<1>3. d \in [key : Keys, secret : Nat] /\ d.key = q.key /\ d.secret = q.secret
  BY <1>1
<1> HIDE DEF d
<1>4. dialogues' = Append(dialogues, d) \/ dialogues' = dialogues
  BY DEF MintAnswered, MintFails, d
<1>5. SecretTypes'
  <2>1. dialogues' \in Seq([key : Keys, secret : Nat])
    <3> DEFINE D == [key : Keys, secret : Nat]
    <3>1. dialogues \in Seq(D) /\ d \in D
      BY <1>3 DEF SecretInv, SecretTypes
    <3> HIDE DEF D
    <3>2. dialogues' \in Seq(D)
      BY <1>4, <3>1
    <3> QED
      BY <3>2 DEF D
  <2> QED
    BY <1>1, <2>1 DEF SecretInv, SecretTypes, HasKeys
<1>6. \A k \in Keys : OutFor(k)' = OutFor(k) \ {m}
  BY <1>1, <1>2 DEF OutFor
<1>7. SoleMint' /\ Unmixed' \subseteq Unmixed
  BY <1>1, <1>6 DEF SecretInv, SoleMint, Unmixed, HasKeys
<1>8. HasLast'
  BY <1>3, <1>4, ShowAppends DEF SecretInv, HasLast, LastAt, ShownAt
<1>9. ASSUME issuer.replaces PROVE Replaced'
  <2>1. \A n \in MintSlots : mints[n].secret # NoSecret /\ mints[n].key \in Unmixed =>
           valid[mints[n].key] = {mints[n].secret}
    BY <1>9 DEF SecretInv, Replaced
  <2>2. \A n \in MintSlots : mints'[n].secret # NoSecret /\ mints'[n].key \in Unmixed' =>
           valid'[mints'[n].key] = {mints'[n].secret}
    BY <1>1, <1>2, <1>7, <2>1
  <2>3. ASSUME NEW h \in Unmixed', (\A n \in OutFor(h) : mints[n].secret = NoSecret)', ShownAt(h)' # {}
        PROVE  (valid[h] = {LastShown(h)})'
    <3>1. h \in Unmixed /\ h \in Keys
      BY <1>7, <2>3 DEF Unmixed, SecretInv, SecretTypes
    <3>2. ASSUME \A n \in OutFor(h) : mints[n].secret = NoSecret, ShownAt(h) # {}
          PROVE  valid[h] = {LastShown(h)}
      BY <1>9, <3>1, <3>2 DEF SecretInv, Replaced
    <3>3. \A n \in OutFor(h) \ {m} : mints[n].secret = NoSecret
      BY <1>2, <1>6, <2>3, <3>1 DEF OutFor
    <3>4. CASE MintAnswered(m) /\ h = q.key
      <4>1. dialogues' = Append(dialogues, d) /\ q.secret # NoSecret
        BY <3>4 DEF MintAnswered, d
      <4>2. LastShown(h)' = q.secret
        BY <1>3, <3>4, <4>1, ShowAppends DEF SecretInv
      <4> QED
        BY <1>1, <2>1, <3>1, <3>4, <4>1, <4>2
    <3>5. CASE MintAnswered(m) /\ h # q.key
      <4>1. dialogues' = Append(dialogues, d)
        BY <3>5 DEF MintAnswered, d
      <4>2. ShownAt(h)' = ShownAt(h) /\ (ShownAt(h) # {} => LastShown(h)' = LastShown(h))
        BY <1>3, <3>1, <3>5, <4>1, ShowAppends DEF SecretInv
      <4>3. m \notin OutFor(h)
        BY <3>5 DEF OutFor
      <4> QED
        BY <1>1, <2>3, <3>2, <3>3, <4>2, <4>3
    <3>6. CASE MintFails(m)
      <4>1. ShownAt(h)' = ShownAt(h) /\ LastShown(h)' = LastShown(h)
        BY <3>6 DEF MintFails, ShownAt, LastShown
      <4>2. m \in OutFor(h) => q.secret = NoSecret
        BY <2>3, <3>6 DEF MintFails, Unmixed, OutFor
      <4> QED
        BY <1>1, <2>3, <3>2, <3>3, <4>1, <4>2
    <3> QED
      BY <3>4, <3>5, <3>6
  <2> QED
    BY <2>2, <2>3 DEF Replaced
<1>10. ASSUME ~issuer.replaces PROVE Added'
  <2>1. \A k, s : Accepted(k, s) => s \in revoked' \/ (k \in HasKeys' /\ s \in valid'[k])
    BY <1>1 DEF Accepted, HasKeys
  <2>2. \A i \in DOMAIN dialogues : Accepted(dialogues[i].key, dialogues[i].secret)
    BY <1>10 DEF SecretInv, Added
  <2>3. \A n \in MintSlots : mints[n].secret # NoSecret => Accepted(mints[n].key, mints[n].secret)
    BY <1>10 DEF SecretInv, Added
  <2>4. \A i \in DOMAIN dialogues' : Accepted(dialogues'[i].key, dialogues'[i].secret)
    <3>1. CASE MintAnswered(m)
      <4>1. /\ dialogues' = Append(dialogues, d) /\ Accepted(d.key, d.secret)
        BY <1>3, <2>3, <3>1 DEF MintAnswered, d
      <4> QED
        BY <1>3, <2>2, <4>1 DEF SecretInv, SecretTypes
    <3>2. CASE MintFails(m)
      BY <2>2, <3>2 DEF MintFails
    <3> QED
      BY <3>1, <3>2
  <2>5. \A i \in DOMAIN dialogues' : Accepted(dialogues[i].key, dialogues[i].secret)'
    BY <2>1, <2>4 DEF Accepted
  <2>6. \A n \in MintSlots :
           mints'[n].secret # NoSecret => Accepted(mints[n].key, mints[n].secret)'
    BY <1>1, <1>2, <2>1, <2>3 DEF Accepted
  <2> QED
    BY <2>5, <2>6 DEF Added
<1> QED
  BY <1>1, <1>5, <1>7, <1>8, <1>9, <1>10 DEF SecretInv

(* Every step of the page and of the service.                              *)
LEMMA SecretSteps == SecretInv /\ [SecretNext]_secretVars => SecretInv'
<1> SUFFICES ASSUME SecretInv, [SecretNext]_secretVars PROVE SecretInv'
  OBVIOUS
<1>1. CASE KeysArrive
  BY <1>1, SecretStays DEF KeysArrive
<1>2. ASSUME NEW k \in Keys, AskCreate(k) PROVE SecretInv'
  BY <1>2, SecretAsks DEF AskCreate
<1>3. ASSUME NEW k \in Keys, AskRenew(k) PROVE SecretInv'
  BY <1>3, SecretAsks DEF AskRenew
<1>4. ASSUME NEW k \in Keys, SwitchKey(k) PROVE SecretInv'
  BY <1>4, SecretStays DEF SwitchKey
<1>5. ASSUME NEW k \in Keys, DeleteKey(k) PROVE SecretInv'
  BY <1>5, SecretGoes DEF DeleteKey
<1>6. ASSUME NEW k \in Keys, NEW s \in 1 .. MaxSecrets, RevokeSecret(k, s) PROVE SecretInv'
  BY <1>6, SecretGoes DEF RevokeSecret
<1>7. ASSUME NEW m \in MintSlots, Mint(m) \/ MintAnswered(m) \/ MintFails(m) PROVE SecretInv'
  BY <1>7, SecretMinted, SecretAnswers
<1>8. CASE UNCHANGED secretVars
  BY <1>8, SecretStays DEF secretVars
<1> QED
  BY <1>1, <1>2, <1>3, <1>4, <1>5, <1>6, <1>7, <1>8 DEF SecretNext

(* "the old secret is invalid at once" (Credentials.tsx:142) and the new   *)
(* one is shown only once: whoever kept the dialogue's secret has the one  *)
(* that works, unless requests for the key crossed or an answer was lost.  *)
THEOREM SecretsWork == SecretSpec => []ShownSecretsWork
<1>1. SecretInv => ShownSecretsWork
  <2> SUFFICES ASSUME SecretInv PROVE ShownSecretsWork
    OBVIOUS
  <2>1. ASSUME issuer.replaces, NEW k \in HasKeys \ (lost \cup crossed),
               ShownAt(k) # {}, OutFor(k) = {}
        PROVE  valid[k] = {LastShown(k)}
    BY <2>1 DEF SecretInv, Replaced, Unmixed
  <2>2. ASSUME ~issuer.replaces, NEW i \in DOMAIN dialogues
        PROVE  Accepted(dialogues[i].key, dialogues[i].secret)
    BY <2>2 DEF SecretInv, Added
  <2> QED
    BY <2>1, <2>2 DEF ShownSecretsWork, Accepted
<1> QED
  BY <1>1, SecretStarts, SecretSteps, PTL DEF SecretSpec

-----------------------------------------------------------------------------
(* Routes.  What the menu offers opens, entry by entry of the table; so do *)
(* the landing page and the way home.                                      *)

\* A path of one or two segments, with one more under it.
LEMMA UnderPath ==
    /\ \A a, n : <<a>> \o <<n>> = <<a, n>>
    /\ \A a, b, n : <<a, b>> \o <<n>> = <<a, b, n>>
<1>1. ASSUME NEW a, NEW n PROVE <<a>> \o <<n>> = <<a, n>>
  <2> DEFINE S == {a, n}
  <2>1. <<a>> \in Seq(S) /\ <<n>> \in Seq(S) /\ <<a, n>> \in Seq(S)
    OBVIOUS
  <2>2. Len(<<a>>) = 1 /\ Len(<<n>>) = 1 /\ Len(<<a, n>>) = 2
    OBVIOUS
  <2> DEFINE s == <<a>> \o <<n>>
  <2>3. s \in Seq(S) /\ Len(s) = 2 /\ s[1] = a /\ s[2] = n
    <3>1. \A i \in 1 .. Len(<<a>>) + Len(<<n>>) : s[i] = IF i <= Len(<<a>>) THEN <<a>>[i] ELSE <<n>>[i - Len(<<a>>)]
      BY <2>1, ConcatProperties
    <3>2. s \in Seq(S) /\ Len(s) = Len(<<a>>) + Len(<<n>>)
      BY <2>1, ConcatProperties
    <3> HIDE DEF s
    <3> QED
      BY <2>2, <3>1, <3>2
  <2> HIDE DEF s
  <2>4. \A i \in 1 .. Len(s) : s[i] = <<a, n>>[i]
    BY <2>3
  <2>5. s = <<a, n>>
    BY <2>1, <2>2, <2>3, <2>4, SeqEqual
  <2> QED
    BY <2>5 DEF s
<1>2. ASSUME NEW a, NEW b, NEW n PROVE <<a, b>> \o <<n>> = <<a, b, n>>
  <2> DEFINE S == {a, b, n}
  <2>1. <<a, b>> \in Seq(S) /\ <<n>> \in Seq(S) /\ <<a, b, n>> \in Seq(S)
    OBVIOUS
  <2>2. Len(<<a, b>>) = 2 /\ Len(<<n>>) = 1 /\ Len(<<a, b, n>>) = 3
    OBVIOUS
  <2> DEFINE s == <<a, b>> \o <<n>>
  <2>3. s \in Seq(S) /\ Len(s) = 3 /\ s[1] = a /\ s[2] = b /\ s[3] = n
    <3>1. \A i \in 1 .. Len(<<a, b>>) + Len(<<n>>) : s[i] = IF i <= Len(<<a, b>>) THEN <<a, b>>[i] ELSE <<n>>[i - Len(<<a, b>>)]
      BY <2>1, ConcatProperties
    <3>2. s \in Seq(S) /\ Len(s) = Len(<<a, b>>) + Len(<<n>>)
      BY <2>1, ConcatProperties
    <3> HIDE DEF s
    <3> QED
      BY <2>2, <3>1, <3>2
  <2> HIDE DEF s
  <2>4. \A i \in 1 .. Len(s) : s[i] = <<a, b, n>>[i]
    BY <2>3
  <2>5. s = <<a, b, n>>
    BY <2>1, <2>2, <2>3, <2>4, SeqEqual
  <2> QED
    BY <2>5 DEF s
<1> QED
  BY <1>1, <1>2

\* A path starts with itself and with the segments it is under.
LEMMA PathStarts ==
    /\ \A a : IsPrefix(<<a>>, <<a>>)
    /\ \A a, b : IsPrefix(<<a>>, <<a, b>>) /\ IsPrefix(<<a, b>>, <<a, b>>)
    /\ \A a, b, c : IsPrefix(<<a, b>>, <<a, b, c>>)
<1>1. ASSUME NEW a PROVE IsPrefix(<<a>>, <<a>>)
  BY DEF IsPrefix
<1>2. ASSUME NEW a, NEW b PROVE IsPrefix(<<a>>, <<a, b>>) /\ IsPrefix(<<a, b>>, <<a, b>>)
  BY DEF IsPrefix
<1>3. ASSUME NEW a, NEW b, NEW c PROVE IsPrefix(<<a, b>>, <<a, b, c>>)
  BY DEF IsPrefix
<1> QED
  BY <1>1, <1>2, <1>3

\* What the route table has to do with the other lists: a leaf is nobody's redirect, and
\* one a drilled user may see is one the fall-back leaves alone.
InStep(l) ==
    /\ \A r \in Redirects : r.from # l.path
    /\ l.path # <<"user", "login">>
    /\ l.access \in {"canUser", "canPlatform", "canTenantAdmin"}
    /\ l.access # "canPlatform" => \E v \in TenantVisible : IsPrefix(v, l.path)

\* The leaves of the home, credentials and system pages are in step.
LEMMA HomeInStep == \A l \in HomeLeaves \cup {CredentialsLeaf, SystemLeaf} : InStep(l)
<1> USE PathStarts DEF Leaf, InStep, Redirects, TenantVisible
<1>1. InStep(Leaf(<<"dashboard">>, "canPlatform")) /\ InStep(Leaf(<<"system">>, "canPlatform"))
  OBVIOUS
<1>2. InStep(Leaf(<<"tenant", "list">>, "canPlatform"))
  OBVIOUS
<1>3. InStep(Leaf(<<"tenant", "credentials">>, "canTenantAdmin"))
  <2>1. <<"tenant", "credentials">> \in TenantVisible /\ IsPrefix(<<"tenant", "credentials">>, <<"tenant", "credentials">>)
    OBVIOUS
  <2>2. \A r \in Redirects : r.from # <<"tenant", "credentials">>
    OBVIOUS
  <2> QED
    BY <2>1, <2>2, Zenon
<1> QED
  BY <1>1, <1>2, <1>3 DEF HomeLeaves, CredentialsLeaf, SystemLeaf

\* So are those of users, roles, identities and sessions,
LEMMA UserInStep == \A l \in UserLeaves : InStep(l)
<1> SUFFICES ASSUME NEW l \in UserLeaves PROVE InStep(l)
  OBVIOUS
<1>1. \/ \E n \in {"profile", "identity", "sessions"} : l = Leaf(<<n>>, "canUser")
      \/ \E n \in {"list", "login-logs"} : l = Leaf(<<"users", n>>, "canPlatform")
      \/ \E n \in {"roles", "groups", "permissions", "permission-groups", "user-roles"} :
            l = Leaf(<<"rbac", n>>, "canPlatform")
  BY UnderPath DEF UserLeaves, Under
<1> QED
  BY <1>1, PathStarts DEF Leaf, InStep, Redirects, TenantVisible

\* those of files, quotas and buckets,
LEMMA StorageInStep == \A l \in StorageLeaves : InStep(l)
<1> SUFFICES ASSUME NEW l \in StorageLeaves PROVE InStep(l)
  OBVIOUS
<1>1. \/ l \in {Leaf(<<"files", "my">>, "canUser"), Leaf(<<"tenant", "files">>, "canTenantAdmin")}
      \/ l = Leaf(<<"admin", "audit-logs">>, "canPlatform")
      \/ \E n \in {"quota", "audit"} : l = Leaf(<<"storage", n>>, "canUser")
      \/ \E n \in {"files", "quota", "stats", "providers", "buckets", "settings"} :
            l = Leaf(<<"admin", "storage", n>>, "canPlatform")
  BY UnderPath DEF StorageLeaves, Under
<1> USE PathStarts DEF Leaf, InStep, Redirects, TenantVisible
<1>2. CASE l = Leaf(<<"files", "my">>, "canUser")
  BY <1>2
<1>3. CASE l = Leaf(<<"tenant", "files">>, "canTenantAdmin")
  <2>1. <<"tenant", "files">> \in TenantVisible /\ IsPrefix(<<"tenant", "files">>, <<"tenant", "files">>)
    OBVIOUS
  <2>2. \A r \in Redirects : r.from # <<"tenant", "files">>
    OBVIOUS
  <2> QED
    BY <1>3, <2>1, <2>2, Zenon
<1>4. CASE l = Leaf(<<"admin", "audit-logs">>, "canPlatform")
  BY <1>4
<1>5. ASSUME NEW n \in {"quota", "audit"}, l = Leaf(<<"storage", n>>, "canUser") PROVE InStep(l)
  BY <1>5
<1>6. ASSUME NEW n \in {"files", "quota", "stats", "providers", "buckets", "settings"},
             l = Leaf(<<"admin", "storage", n>>, "canPlatform")
      PROVE  InStep(l)
  BY <1>6
<1> QED
  BY <1>1, <1>2, <1>3, <1>4, <1>5, <1>6

\* those of mail and text messages,
LEMMA MessageInStep == \A l \in MessageLeaves : InStep(l)
<1> SUFFICES ASSUME NEW l \in MessageLeaves PROVE InStep(l)
  OBVIOUS
<1>1. \/ \E n \in {"accounts", "signatures", "templates", "policies"} :
            l = Leaf(<<"message", "admin", n>>, "canTenantAdmin")
      \/ \E n \in {"email", "sms"} : l = Leaf(<<"message", "send", n>>, "canPlatform")
      \/ \E n \in {"emails", "sms"} : l = Leaf(<<"message", n>>, "canPlatform")
  BY UnderPath DEF MessageLeaves, Under
<1> QED
  BY <1>1, PathStarts DEF Leaf, InStep, Redirects, TenantVisible

\* and those of ids, licences, telemetry and reference data.
LEMMA RestInStep == \A l \in GidLicenseLeaves \cup TelemetryLeaves \cup ReferenceLeaves : InStep(l)
<1> SUFFICES ASSUME NEW l \in GidLicenseLeaves \cup TelemetryLeaves \cup ReferenceLeaves PROVE InStep(l)
  OBVIOUS
<1>1. \/ l = Leaf(<<"gid">>, "canPlatform")
      \/ \E n \in {"keys", "console"} : l = Leaf(<<"license", n>>, "canPlatform")
      \/ l = Leaf(<<"telemetry", "stats">>, "canPlatform") \/ l = Leaf(<<"telemetry", "tokens">>, "canTenantAdmin")
      \/ \E n \in {"directory", "regions", "examples", "phone"} : l = Leaf(<<"reference", n>>, "canPlatform")
  BY UnderPath DEF GidLicenseLeaves, TelemetryLeaves, ReferenceLeaves, Under
<1> QED
  BY <1>1, PathStarts DEF Leaf, InStep, Redirects, TenantVisible

\* The four lists agree on every entry of the menu.
LEMMA MenuInStep == \A l \in MenuLeaves : InStep(l)
  BY HomeInStep, UserInStep, StorageInStep, MessageInStep, RestInStep DEF MenuLeaves

\* An entry that may be seen, opened: its own page comes up.
LEMMA EntryOpens ==
    ASSUME NEW l \in MenuLeaves, NEW how, Arrive(l.path, how), MaySee(l.access, who', granted'),
           ~(who' = Platform /\ drilled' /\ l.access = "canPlatform")
    PROVE  content' = "page"
<1>1. InStep(l)
  BY MenuInStep
<1>2. Redirected(l.path) = l.path
  BY <1>1 DEF InStep, Redirected
<1>3. ASSUME who' = Platform, drilled' PROVE \E v \in TenantVisible : IsPrefix(v, l.path)
  BY <1>1, <1>3 DEF InStep
<1>4. place' = l.path /\ content' = ContentOf(l.path)
  BY <1>2, <1>3 DEF Arrive, Settled
<1>5. l \in Leaves
  BY DEF Leaves
<1> QED
  BY <1>4, <1>5 DEF ContentOf
\* The profile page is an entry of everybody's menu; the empty path leads there.
LEMMA HomeIsProfile ==
    /\ Leaf(<<"profile">>, "canUser") \in MenuLeaves
    /\ Redirected(<<>>) = <<"profile">> /\ Redirected(<<"profile">>) = <<"profile">>
<1>1. Leaf(<<"profile">>, "canUser") \in MenuLeaves
  BY DEF MenuLeaves, UserLeaves
<1>2. Redirected(<<"profile">>) = <<"profile">>
  BY <1>1, MenuInStep DEF InStep, Redirected, Leaf
<1>3. \A r \in Redirects : r.from = <<>> => r.to = <<"profile">>
  BY DEF Redirects
<1>4. \E r \in Redirects : r.from = <<>>
  BY DEF Redirects
<1> QED
  BY <1>1, <1>2, <1>3, <1>4 DEF Redirected

\* The landing page of a type is an entry of its menu.
LEMMA LandingOpens ==
    ASSUME NEW w \in Types, SignIn(w)
    PROVE  content' = "page"
<1>1. who' = w /\ drilled' = FALSE /\ granted' = FALSE /\ Arrive(PostLoginTarget(w), "landing")
  BY DEF SignIn
<1>2. CASE w = Platform
  <2>1. PostLoginTarget(w) = Leaf(<<"dashboard">>, "canPlatform").path
    BY <1>2 DEF PostLoginTarget, Leaf, Platform, Tenant
  <2>2. Leaf(<<"dashboard">>, "canPlatform") \in MenuLeaves
    BY DEF MenuLeaves, HomeLeaves
  <2>3. MaySee(Leaf(<<"dashboard">>, "canPlatform").access, who', granted')
    BY <1>1, <1>2 DEF MaySee, Leaf
  <2> QED
    BY <1>1, <2>1, <2>2, <2>3, EntryOpens
<1>3. CASE w = Tenant
  <2>1. PostLoginTarget(w) = CredentialsLeaf.path
    BY <1>3 DEF PostLoginTarget, Tenant, Platform
  <2>2. CredentialsLeaf \in MenuLeaves
    BY DEF MenuLeaves
  <2>3. MaySee(CredentialsLeaf.access, who', granted')
    BY <1>1, <1>3 DEF MaySee, Leaf, CredentialsLeaf
  <2> QED
    BY <1>1, <2>1, <2>2, <2>3, EntryOpens
<1>4. CASE w = EndUser
  <2>1. PostLoginTarget(w) = Leaf(<<"profile">>, "canUser").path
    BY <1>4 DEF PostLoginTarget, Leaf, Tenant, Platform, EndUser
  <2>2. MaySee(Leaf(<<"profile">>, "canUser").access, who', granted')
    BY <1>1, <1>4 DEF MaySee, Leaf, EndUser, Nobody
  <2> QED
    BY <1>1, <2>1, <2>2, HomeIsProfile, EntryOpens
<1> QED
  BY <1>2, <1>3, <1>4 DEF Types

\* The tenant switcher loads the home of the area it switches to.
LEMMA SwitchOpens == ASSUME SwitchTenant PROVE content' = "page"
<1>1. who' = Platform /\ drilled' \in BOOLEAN /\ granted' = drilled'
  BY DEF SwitchTenant
<1>2. CASE drilled'
  <2>1. Arrive(CredentialsLeaf.path, "switch") /\ CredentialsLeaf \in MenuLeaves
    BY <1>2 DEF SwitchTenant, MenuLeaves
  <2>2. CredentialsLeaf.access = "canTenantAdmin"
    BY DEF CredentialsLeaf, Leaf
  <2>3. MaySee(CredentialsLeaf.access, who', granted')
    BY <1>1, <2>2 DEF MaySee
  <2> QED
    BY <2>1, <2>2, <2>3, EntryOpens
<1>3. CASE ~drilled'
  <2> DEFINE l == Leaf(<<"dashboard">>, "canPlatform")
  <2>1. l.path = <<"dashboard">> /\ l.access = "canPlatform"
    BY DEF Leaf
  <2>2. l \in MenuLeaves
    BY DEF MenuLeaves, HomeLeaves
  <2>3. Arrive(l.path, "switch")
    BY <1>3, <2>1 DEF SwitchTenant
  <2>4. MaySee(l.access, who', granted')
    BY <1>1, <1>3, <2>1 DEF MaySee
  <2> HIDE DEF l
  <2> QED
    BY <1>3, <2>2, <2>3, <2>4, EntryOpens
<1> QED
  BY <1>2, <1>3

\* No step leads a user from the menu, the way home or a landing page elsewhere.
LEMMA MenuSteps == MenuLeads /\ [RouteNext]_routeVars => MenuLeads'
<1> SUFFICES ASSUME MenuLeads, [RouteNext]_routeVars PROVE MenuLeads'
  OBVIOUS
<1>1. ASSUME NEW w \in Types, SignIn(w) PROVE MenuLeads'
  BY <1>1, LandingOpens DEF MenuLeads
<1>2. ASSUME NEW l \in MenuLeaves, ClickMenu(l) PROVE MenuLeads'
  <2>1. /\ MaySee(l.access, who, granted) /\ who' = who /\ drilled' = drilled /\ granted' = granted
        /\ Arrive(l.path, IF granted = drilled THEN "menu" ELSE "stale menu")
    BY <1>2 DEF ClickMenu
  <2>2. CASE granted = drilled
    <3>1. MaySee(l.access, who', granted')
      BY <2>1
    <3>2. ~(who' = Platform /\ drilled' /\ l.access = "canPlatform")
      BY <2>1, <2>2 DEF MaySee
    <3> QED
      BY <2>1, <3>1, <3>2, EntryOpens DEF MenuLeads
  <2>3. CASE granted # drilled
    BY <2>1, <2>3 DEF Arrive, MenuLeads
  <2> QED
    BY <2>2, <2>3
<1>3. CASE GoHome
  <2> DEFINE l == Leaf(<<"profile">>, "canUser")
  <2>1. l.path = <<"profile">> /\ l.access = "canUser"
    BY DEF Leaf
  <2>2. who' = who /\ who # Nobody /\ Arrive(<<>>, "home")
    BY <1>3 DEF GoHome
  <2>3. Arrive(l.path, "home")
    BY <2>1, <2>2, HomeIsProfile DEF Arrive, Settled
  <2>4. MaySee(l.access, who', granted')
    BY <2>1, <2>2 DEF MaySee
  <2> HIDE DEF l
  <2> QED
    BY <2>1, <2>3, <2>4, HomeIsProfile, EntryOpens DEF MenuLeads, l
<1>4. CASE SignOut \/ \E p \in Places : OpenAddress(p)
  BY <1>4 DEF SignOut, OpenAddress, Arrive, MenuLeads
<1>6. CASE SwitchTenant
  BY <1>6, SwitchOpens DEF MenuLeads
<1>5. CASE SwitchedElsewhere \/ UNCHANGED routeVars
  BY <1>5 DEF SwitchedElsewhere, routeVars, MenuLeads
<1> QED
  BY <1>1, <1>2, <1>3, <1>4, <1>5, <1>6 DEF RouteNext

\* Whatever the menu offers it leads to, and so do signing in, the switcher and the way home.
THEOREM MenuLeadsOn == RouteSpec => []MenuLeads
<1>1. RouteInit => MenuLeads
  BY DEF RouteInit, MenuLeads
<1> QED
  BY <1>1, MenuSteps, PTL DEF RouteSpec

\* Every redirect leads to a leaf.
LEMMA RedirectsLead == \A r \in Redirects : \E l \in Leaves : r.to = l.path
<1>1. \A n \in {"profile", "identity", "sessions"} : Leaf(<<n>>, "canUser") \in Leaves
  BY DEF Leaves, MenuLeaves, UserLeaves
<1>2. /\ Leaf(<<"tenant", "list">>, "canPlatform") \in Leaves
      /\ Leaf(<<"files", "my">>, "canUser") \in Leaves
      /\ Leaf(<<"telemetry", "tokens">>, "canTenantAdmin") \in Leaves
  BY DEF Leaves, MenuLeaves, HomeLeaves, StorageLeaves, TelemetryLeaves
<1>3. /\ Leaf(<<"users", "list">>, "canPlatform") \in Leaves
      /\ Leaf(<<"rbac", "roles">>, "canPlatform") \in Leaves
  BY UnderPath DEF Leaves, MenuLeaves, UserLeaves, Under
<1>4. /\ Leaf(<<"storage", "quota">>, "canUser") \in Leaves
      /\ Leaf(<<"admin", "storage", "files">>, "canPlatform") \in Leaves
  BY UnderPath DEF Leaves, MenuLeaves, StorageLeaves, Under
<1>5. Leaf(<<"message", "admin", "accounts">>, "canTenantAdmin") \in Leaves
  BY UnderPath DEF Leaves, MenuLeaves, MessageLeaves, Under
<1>6. /\ Leaf(<<"license", "keys">>, "canPlatform") \in Leaves
      /\ Leaf(<<"reference", "directory">>, "canPlatform") \in Leaves
  BY UnderPath DEF Leaves, MenuLeaves, GidLicenseLeaves, ReferenceLeaves, Under
<1>7. \A p, a : Leaf(p, a) \in Leaves => \E l \in Leaves : p = l.path
  BY DEF Leaf
<1> QED
  BY <1>1, <1>2, <1>3, <1>4, <1>5, <1>6, <1>7 DEF Redirects

\* Wherever the tab is sent it stays in the table.
LEMMA SettledInTable == ASSUME NEW p \in Places PROVE Settled(p) \in Places
<1>1. Redirected(p) \in Places
  <2>1. CASE \E r \in Redirects : r.from = p
    <3>1. (CHOOSE r \in Redirects : r.from = p) \in Redirects
      BY <2>1
    <3> QED
      BY <2>1, <3>1, RedirectsLead DEF Redirected, Places
  <2> QED
    BY <2>1 DEF Redirected
<1> QED
  BY <1>1 DEF Settled, Places

\* What each variable of the route table may hold.
LEMMA RoutesTyped == RouteTypeOK /\ [RouteNext]_routeVars => RouteTypeOK'
<1> SUFFICES ASSUME RouteTypeOK, [RouteNext]_routeVars PROVE RouteTypeOK'
  OBVIOUS
<1>1. ASSUME NEW p \in Places, NEW how, Arrive(p, how),
             how \in {"landing", "menu", "stale menu", "address", "switch", "home", "signed out"},
             who' \in Types \cup {Nobody}, drilled' \in BOOLEAN, granted' \in BOOLEAN
      PROVE  RouteTypeOK'
  <2>1. place' \in Places /\ content' = ContentOf(Settled(p)) /\ via' = how
    BY <1>1, SettledInTable DEF Arrive
  <2>2. content' \in {"page", "403", "404"}
    BY <2>1 DEF ContentOf
  <2> QED
    BY <1>1, <2>1, <2>2 DEF RouteTypeOK
<1>2. \A l \in Leaves : l.path \in Places
  BY DEF Places
<1>3. <<>> \in Places
  BY DEF Places, Redirects
<1>4. <<"user", "login">> \in Places
  <2>1. Leaf(<<"user", "login">>, "open") \in Leaves
    BY UnderPath DEF Leaves, PublicLeaves, Under
  <2> QED
    BY <1>2, <2>1 DEF Leaf
<1>5. \A w \in Types : PostLoginTarget(w) \in Places
  <2>1. <<"dashboard">> \in Places
    <3>1. Leaf(<<"dashboard">>, "canPlatform") \in Leaves
      BY DEF Leaves, MenuLeaves, HomeLeaves
    <3> QED
      BY <1>2, <3>1 DEF Leaf
  <2>2. CredentialsLeaf.path \in Places
    BY <1>2 DEF Leaves, MenuLeaves
  <2>3. <<"profile">> \in Places
    BY <1>2, HomeIsProfile DEF Leaves, Leaf
  <2> QED
    BY <2>1, <2>2, <2>3 DEF PostLoginTarget
<1>6. ASSUME NEW w \in Types, SignIn(w) PROVE RouteTypeOK'
  BY <1>1, <1>5, <1>6 DEF SignIn
<1>7. ASSUME NEW l \in MenuLeaves, ClickMenu(l) PROVE RouteTypeOK'
  <2>1. l.path \in Places
    BY <1>2 DEF Leaves
  <2>2. /\ Arrive(l.path, IF granted = drilled THEN "menu" ELSE "stale menu")
        /\ UNCHANGED <<who, drilled, granted>>
    BY <1>7 DEF ClickMenu
  <2>3. (IF granted = drilled THEN "menu" ELSE "stale menu") \in {"menu", "stale menu"}
    OBVIOUS
  <2> QED
    BY <1>1, <2>1, <2>2, <2>3 DEF RouteTypeOK
<1>8. CASE SignOut
  BY <1>1, <1>4, <1>8 DEF SignOut
<1>9. CASE GoHome
  BY <1>1, <1>3, <1>9 DEF GoHome, RouteTypeOK
<1>10. CASE SwitchTenant
  <2>1. <<"dashboard">> \in Places /\ CredentialsLeaf.path \in Places
    BY <1>5 DEF PostLoginTarget, Types, Platform, Tenant
  <2> QED
    BY <1>1, <1>10, <2>1 DEF SwitchTenant, RouteTypeOK
<1>11. ASSUME NEW p \in Places, OpenAddress(p) PROVE RouteTypeOK'
  BY <1>1, <1>11 DEF OpenAddress, RouteTypeOK
<1>12. CASE SwitchedElsewhere
  BY <1>12 DEF SwitchedElsewhere, RouteTypeOK
<1>13. CASE UNCHANGED routeVars
  BY <1>13 DEF routeVars, RouteTypeOK
<1> QED
  BY <1>6, <1>7, <1>8, <1>9, <1>10, <1>11, <1>12, <1>13 DEF RouteNext

\* The tab starts on the sign-in page.
LEMMA RoutesStart == RouteInit => RouteTypeOK
<1>1. Leaf(<<"user", "login">>, "open") \in Leaves
  BY UnderPath DEF Leaves, PublicLeaves, Under
<1>2. <<"user", "login">> \in Places
  BY <1>1 DEF Places, Leaf
<1> QED
  BY <1>2 DEF RouteInit, RouteTypeOK

-----------------------------------------------------------------------------
(* What the pages' variables hold.  The files: an upload is at one of its  *)
(* steps.                                                                  *)
LEMMA FilesTyped == FileTypeOK /\ [FileNext]_fileVars => FileTypeOK'
<1> SUFFICES ASSUME FileTypeOK, [FileNext]_fileVars PROVE FileTypeOK'
  OBVIOUS
<1> USE DEF FileTypeOK
<1>1. CASE OpenDialog \/ CloseDialog \/ FilesArrive \/ FilesDeleted \/ FilesKept
  BY <1>1 DEF OpenDialog, CloseDialog, FilesArrive, FilesDeleted, FilesKept
<1>2. ASSUME NEW f \in Files, ChooseFile(f) PROVE FileTypeOK'
  BY <1>2 DEF ChooseFile, Steps
<1>3. ASSUME NEW f \in Files, PickFile(f) PROVE FileTypeOK'
  BY <1>3 DEF PickFile
<1>4. ASSUME NEW f \in Files, Granted(f) PROVE FileTypeOK'
  BY <1>4 DEF Granted, Steps
<1>5. ASSUME NEW f \in Files, PutDone(f) PROVE FileTypeOK'
  BY <1>5 DEF PutDone, Steps
<1>6. ASSUME NEW f \in Files, ConfirmServed(f) PROVE FileTypeOK'
  BY <1>6 DEF ConfirmServed, Steps
<1>7. ASSUME NEW f \in Files, UploadDone(f) \/ UploadFails(f) PROVE FileTypeOK'
  BY <1>7 DEF UploadDone, UploadFails
<1>8. ASSUME NEW S \in SUBSET Files, AskDelete(S) \/ FilesGo(S) PROVE FileTypeOK'
  BY <1>8 DEF AskDelete, FilesGo
<1>9. CASE UNCHANGED fileVars
  BY <1>9 DEF fileVars
<1> QED
  BY <1>1, <1>2, <1>3, <1>4, <1>5, <1>6, <1>7, <1>8, <1>9 DEF FileNext

(* The forms that prove an address: what was issued was asked for an       *)
(* address, and the countdown never leaves its minute.                     *)
LEMMA CodesTyped == CodeTypeOK /\ [CodeNext]_codeVars => CodeTypeOK'
<1> SUFFICES ASSUME CodeTypeOK, [CodeNext]_codeVars PROVE CodeTypeOK'
  OBVIOUS
<1> USE CodeAssumption DEF CodeTypeOK
<1>1. ASSUME NEW a \in Addresses, TypeAddress(a) \/ TypeCode(a) PROVE CodeTypeOK'
  BY <1>1 DEF TypeAddress, TypeCode
<1>2. CASE SendCode
  BY <1>2 DEF SendCode
<1>3. CASE Tick
  BY <1>3 DEF Tick
<1>4. CASE SubmitCode \/ SubmitRefused
  BY <1>4 DEF SubmitCode, SubmitRefused, NoSubmit
<1>5. ASSUME FormCloses(codeForm.loses)
      PROVE  /\ {address', proof', code'} \subseteq Addresses \cup {NoAddress}
             /\ sends' \in [SendSlots -> [to : Addresses \cup {NoAddress}, known : BOOLEAN, here : BOOLEAN]]
             /\ countdown' \in 0 .. Wait /\ timers' \in Nat /\ strays' \in Nat
  <2>1. {address', proof', code'} \subseteq Addresses \cup {NoAddress}
    BY <1>5 DEF FormCloses
  <2>2. CASE codeForm.loses = Everything
    <3>1. sends' = [s \in SendSlots |-> [sends[s] EXCEPT !.here = FALSE]]
      BY <1>5, <2>2 DEF FormCloses
    <3>2. sends' \in [SendSlots -> [to : Addresses \cup {NoAddress}, known : BOOLEAN, here : BOOLEAN]]
      BY <3>1
    <3>3. countdown' = 0 /\ timers' = 0
      BY <1>5, <2>2 DEF FormCloses
    <3>4. PICK n \in 0 .. timers : strays' = strays + n
      BY <1>5, <2>2 DEF FormCloses
    <3>5. strays' \in Nat
      BY <3>4
    <3> QED
      BY <2>1, <3>2, <3>3, <3>5
  <2>3. CASE codeForm.loses # Everything
    BY <1>5, <2>1, <2>3 DEF FormCloses
  <2> QED
    BY <2>2, <2>3
<1>6. CASE LeaveForm \/ SubmitAccepted
  BY <1>5, <1>6 DEF LeaveForm, SubmitAccepted, NoSubmit
<1>7. ASSUME NEW s \in SendSlots, IssueCode(s) PROVE CodeTypeOK'
  <2>1. sends[s].to \in Addresses
    BY <1>7 DEF IssueCode, Sending
  <2>2. issued' \subseteq Addresses
    BY <1>7, <2>1 DEF IssueCode
  <2>3. sends' \in [SendSlots -> [to : Addresses \cup {NoAddress}, known : BOOLEAN, here : BOOLEAN]]
    BY <1>7 DEF IssueCode
  <2> QED
    BY <1>7, <2>2, <2>3 DEF IssueCode
<1>8. ASSUME NEW s \in SendSlots, CodeSent(s) PROVE CodeTypeOK'
  BY <1>8 DEF CodeSent, FreeSend
<1>9. ASSUME NEW s \in SendSlots, CodeNotSent(s) PROVE CodeTypeOK'
  BY <1>9 DEF CodeNotSent, FreeSend
<1>10. CASE UNCHANGED codeVars
  BY <1>10 DEF codeVars
<1> QED
  BY <1>1, <1>2, <1>3, <1>4, <1>6, <1>7, <1>8, <1>9, <1>10 DEF CodeNext

(* The secrets: each was minted, belongs to a key, and only a key there is *)
(* can be switched off.                                                    *)
LEMMA SecretsTyped == SecretTypes /\ SecretTypeOK /\ [SecretNext]_secretVars => SecretTypeOK'
<1> SUFFICES ASSUME SecretTypes, SecretTypeOK, [SecretNext]_secretVars PROVE SecretTypeOK'
  OBVIOUS
<1> USE DEF SecretTypes, SecretTypeOK, HasKeys
<1>1. CASE KeysArrive
  BY <1>1 DEF KeysArrive
<1>2. ASSUME NEW k \in Keys, AskCreate(k) \/ AskRenew(k) PROVE SecretTypeOK'
  <2>1. PICK m \in MintSlots, what \in {"create", "renew"} :
           mints' = [mints EXCEPT ![m] = [key |-> k, what |-> what, secret |-> NoSecret]]
    BY <1>2 DEF AskCreate, AskRenew, AskMint
  <2>2. crossed' \subseteq Keys
    BY <1>2 DEF AskCreate, AskRenew, AskMint
  <2>3. UNCHANGED <<issuer, valid, disabled, onPage, dialogues, minted, revoked, lost>>
    BY <1>2 DEF AskCreate, AskRenew
  <2>4. \A n \in MintSlots : mints'[n].key \in Keys \cup {"-"} /\ mints'[n].secret \in 0 .. minted
    BY <2>1 DEF NoSecret
  <2> QED
    BY <2>2, <2>3, <2>4
<1>3. ASSUME NEW k \in Keys, SwitchKey(k) PROVE SecretTypeOK'
  BY <1>3 DEF SwitchKey
<1>4. ASSUME NEW k \in Keys, DeleteKey(k) PROVE SecretTypeOK'
  BY <1>4 DEF DeleteKey
<1>5. ASSUME NEW k \in Keys, NEW s \in 1 .. MaxSecrets, RevokeSecret(k, s) PROVE SecretTypeOK'
  BY <1>5 DEF RevokeSecret
<1>6. ASSUME NEW m \in MintSlots, Mint(m) PROVE SecretTypeOK'
  <2>1. /\ mints[m] \in [key : Keys, what : {"create", "renew"}, secret : Nat]
        /\ minted' = minted + 1 /\ mints' = [mints EXCEPT ![m].secret = minted + 1]
        /\ UNCHANGED <<issuer, disabled, onPage, dialogues, revoked, lost, crossed>>
    BY <1>6 DEF Mint
  <2>2. 1 .. minted \subseteq 1 .. minted' /\ 0 .. minted \subseteq 0 .. minted' /\ minted + 1 \in 1 .. minted'
    BY <2>1
  <2>3. \A n \in MintSlots : mints'[n].key \in Keys \cup {"-"} /\ mints'[n].secret \in 0 .. minted'
    BY <2>1, <2>2
  <2>4. HasKeys' = HasKeys \cup {mints[m].key} /\ \A k \in HasKeys' : valid'[k] \subseteq 1 .. minted'
    BY <1>6, <2>1, <2>2 DEF Mint
  <2>5. dialogues \in Seq([key : Keys, secret : 1 .. minted'])
    <3> DEFINE old == [key : Keys, secret : 1 .. minted]
               new == [key : Keys, secret : 1 .. minted']
    <3>1. old \subseteq new /\ dialogues \in Seq(old)
      BY <2>2
    <3> HIDE DEF old, new
    <3>2. dialogues \in Seq(new)
      BY <3>1
    <3> QED
      BY <3>2 DEF new
  <2> QED
    BY <2>1, <2>2, <2>3, <2>4, <2>5
<1>7. ASSUME NEW m \in MintSlots, MintAnswered(m) \/ MintFails(m) PROVE SecretTypeOK'
  <2>1. mints[m] \in [key : Keys, what : {"create", "renew"}, secret : Nat] /\ mints[m].secret \in 0 .. minted
    BY <1>7 DEF MintAnswered, MintFails
  <2>2. /\ mints' = [mints EXCEPT ![m] = NoMint]
        /\ UNCHANGED <<issuer, valid, disabled, onPage, minted, revoked, crossed>>
    BY <1>7 DEF MintAnswered, MintFails
  <2>3. \A n \in MintSlots : mints'[n].key \in Keys \cup {"-"} /\ mints'[n].secret \in 0 .. minted
    BY <2>2 DEF NoMint
  <2>4. lost' \subseteq Keys
    BY <1>7, <2>1 DEF MintAnswered, MintFails
  <2>5. dialogues' \in Seq([key : Keys, secret : 1 .. minted])
    <3>1. CASE MintAnswered(m)
      <4>1. [key |-> mints[m].key, secret |-> mints[m].secret] \in [key : Keys, secret : 1 .. minted]
        BY <2>1, <3>1 DEF MintAnswered, NoSecret
      <4> QED
        BY <3>1, <4>1 DEF MintAnswered
    <3>2. CASE MintFails(m)
      BY <3>2 DEF MintFails
    <3> QED
      BY <1>7, <3>1, <3>2
  <2> QED
    BY <2>2, <2>3, <2>4, <2>5
<1>8. CASE UNCHANGED secretVars
  BY <1>8 DEF secretVars
<1> QED
  BY <1>1, <1>2, <1>3, <1>4, <1>5, <1>6, <1>7, <1>8 DEF SecretNext

(* What is noted of overlapping requests is a truth value.                 *)
LEMMA TangledTyped == tangled \in BOOLEAN /\ [RegistryNext]_registryVars => tangled' \in BOOLEAN
<1> SUFFICES ASSUME tangled \in BOOLEAN, [RegistryNext]_registryVars PROVE tangled' \in BOOLEAN
  OBVIOUS
<1>1. ASSUME NEW l \in LoadSlots, ReadTenants(l) \/ ReadMembers(l) \/ ShowRows(l) \/ LoadFails(l)
      PROVE  tangled' \in BOOLEAN
  BY <1>1 DEF ReadTenants, ReadMembers, ShowRows, LoadFails
<1>2. ASSUME NEW s \in Services, ToggleCapability(s) PROVE tangled' \in BOOLEAN
  BY <1>2 DEF ToggleCapability, Change, Call
<1>3. ASSUME NEW a \in Admins, ChangeAdmin(a) PROVE tangled' \in BOOLEAN
  BY <1>3 DEF ChangeAdmin, Change, Call
<1>4. ASSUME NEW t \in AllTenants,
             ToggleTenant(t) \/ CreateTenant(t) \/ OpenDrawer(t) \/ OpenDelete(t) \/ TypeKey(t)
      PROVE  tangled' \in BOOLEAN
  BY <1>4 DEF ToggleTenant, CreateTenant, OpenDrawer, OpenDelete, TypeKey, Change, Call
<1>5. CASE CloseDrawer \/ CancelDelete \/ ConfirmDelete
  BY <1>5 DEF CloseDrawer, CancelDelete, ConfirmDelete, Change, Call
<1>6. ASSUME NEW w \in WriteSlots,
             Apply(w) \/ WriteFails(w) \/ CapAnswered(w) \/ ReloadAnswered(w)
             \/ DeleteAnswered(w) \/ BindAnswered(w) \/ MembersAnswered(w)
      PROVE  tangled' \in BOOLEAN
  BY <1>6 DEF Apply, WriteFails, CapAnswered, ReloadAnswered, DeleteAnswered, BindAnswered, MembersAnswered
<1>7. CASE UNCHANGED registryVars
  BY <1>7 DEF registryVars
<1> QED
  BY <1>1, <1>2, <1>3, <1>4, <1>5, <1>6, <1>7 DEF RegistryNext

-----------------------------------------------------------------------------
(* The console with a page open implements that page's specification, and  *)
(* the others', which stutter: what is proved of each page above holds of  *)
(* the console.                                                            *)
LEMMA ConsoleKeepsPages ==
    PagesSpec => /\ PanelSpec /\ EditSpec /\ RegistrySpec /\ CodeSpec /\ FileSpec
                 /\ TableSpec /\ SecretSpec /\ RouteSpec
<1>1. PagesInit => /\ PanelInit /\ EditInit /\ RegistryInit /\ CodeInit /\ FileInit
                   /\ TableInit /\ SecretInit /\ RouteInit
  BY DEF PagesInit
<1>2. [PagesNext]_pageVars =>
        /\ [PanelNext]_panelVars /\ [EditNext]_editVars /\ [RegistryNext]_registryVars
        /\ [CodeNext]_codeVars /\ [FileNext]_fileVars
        /\ [TableNext]_tableVars /\ [SecretNext]_secretVars /\ [RouteNext]_routeVars
  BY DEF PagesNext, pageVars
<1> QED
  BY <1>1, <1>2, PTL DEF PagesSpec, PanelSpec, EditSpec, RegistrySpec, CodeSpec, FileSpec,
                         TableSpec, SecretSpec, RouteSpec

(* The variables of every page hold what they may hold, whichever page is  *)
(* open: rows and links of a table, copies of a tenant, forms, secrets,    *)
(* codes, files and places.                                                *)
THEOREM PagesAreTyped == PagesSpec => []PagesTypeOK
<1>1. TableInv => TableTypeOK
  BY DEF TableInv, Typed, Chains, Pagers, TableTypeOK
<1>2. EditInv => EditTypeOK
  <2> SUFFICES ASSUME EditInv PROVE EditTypeOK
    OBVIOUS
  <2>1. Rows(rec) /\ Rows(listed) /\ editPage \in EditPages
    BY DEF EditInv, RowTable, Rows
  <2>2. form.row \in Ids \cup {NoRow} /\ form.store \in {<<>>} \cup [Fields -> Values]
    BY DEF EditInv, FormInv
  <2>3. ASSUME NEW s \in SaveSlots
        PROVE  saves[s] = NoSave \/ (saves[s].row \in Ids /\ saves[s].vals \in [editPage.sends -> Values])
    BY DEF EditInv, SavesInv, SaveOK
  <2> QED
    BY <2>1, <2>2, <2>3 DEF EditTypeOK
<1>3. PanelInv => PanelTypeOK
  BY DEF PanelInv
<1>4. PortalInv /\ LoadInv /\ CopyInv /\ DialogueInv /\ tangled \in BOOLEAN => RegistryTypeOK
  BY DEF PortalInv, LoadInv, CopyInv, DialogueInv, RegistryTypeOK, Drawer, Dialogue, WriteRecord
<1>5. RegistryInit => tangled \in BOOLEAN
  BY DEF RegistryInit
<1>6. PortalInv /\ LoadInv /\ CopyInv /\ DialogueInv /\ tangled \in BOOLEAN /\ [RegistryNext]_registryVars
      => PortalInv' /\ LoadInv' /\ CopyInv' /\ DialogueInv' /\ (tangled \in BOOLEAN)'
  BY PortalSteps, LoadSteps, CopySteps, DialogueSteps, TangledTyped
<1>7. SecretInv => SecretTypes
  BY DEF SecretInv
<1>8. SecretInit => SecretTypeOK
  BY DEF SecretInit, SecretTypeOK, HasKeys, NoMint
<1>9. CodeInit => CodeTypeOK
  BY CodeAssumption DEF CodeInit, CodeTypeOK, FreeSend, NoSubmit
<1>10. FileInit => FileTypeOK
  BY DEF FileInit, FileTypeOK
<1>11. PagesInit => open \in Pages
  BY DEF PagesInit
<1>12. open \in Pages /\ [PagesNext]_pageVars => (open \in Pages)'
  BY DEF PagesNext, pageVars
<1>13. PagesSpec => [](open \in Pages)
  BY <1>11, <1>12, PTL DEF PagesSpec
<1>14. TableSpec => []TableTypeOK
  BY <1>1, TableStarts, TableSteps, PTL DEF TableSpec
<1>15. EditSpec => []EditTypeOK
  BY <1>2, EditStarts, EditSteps, PTL DEF EditSpec
<1>16. PanelSpec => []PanelTypeOK
  BY <1>3, PanelStarts, PanelSteps, PTL DEF PanelSpec
<1>17. RegistrySpec => []RegistryTypeOK
  BY <1>4, <1>5, <1>6, RegistryStarts, PTL DEF RegistrySpec
<1>18. SecretSpec => []SecretTypeOK
  BY <1>7, <1>8, SecretStarts, SecretSteps, SecretsTyped, PTL DEF SecretSpec
<1>19. CodeSpec => []CodeTypeOK
  BY <1>9, CodesTyped, PTL DEF CodeSpec
<1>20. FileSpec => []FileTypeOK
  BY <1>10, FilesTyped, PTL DEF FileSpec
<1>21. RouteSpec => []RouteTypeOK
  BY RoutesStart, RoutesTyped, PTL DEF RouteSpec
<1>22. (/\ open \in Pages /\ TableTypeOK /\ EditTypeOK /\ PanelTypeOK /\ RegistryTypeOK
        /\ SecretTypeOK /\ CodeTypeOK /\ FileTypeOK /\ RouteTypeOK) => PagesTypeOK
  BY DEF PagesTypeOK
<1> QED
  BY ConsoleKeepsPages, <1>13, <1>14, <1>15, <1>16, <1>17, <1>18, <1>19, <1>20, <1>21, <1>22, PTL

(* The safety of the console's pages, in the composed specification.       *)
THEOREM PagesAreSafe ==
    PagesSpec => /\ [](NameFitsAnswer /\ RowsKeepApart /\ DeleteIsTyped /\ CopiesAgree)
                 /\ [](OneIntervalPerVisit /\ DropZoneWaits /\ ChainOfWindow /\ MenuLeads)
                 /\ []ShownSecretsWork /\ LateAnswerDropped
                 /\ NoRowTwice /\ NextPageFollows
  BY ConsoleKeepsPages, AnswerFitsItsName, RowsAreApart, DeletesAreTyped, CopiesAgreeWhenQuiet,
     SecretsWork, OneCodeAtATime, OneUploadAtATime, ChainKeepsWindow, MenuLeadsOn,
     LateAnswersAreDropped, LogShowsNoRowTwice, NextPageIsNext, PTL
=============================================================================
