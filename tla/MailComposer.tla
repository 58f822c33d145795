---------------------------- MODULE MailComposer ----------------------------
(***************************************************************************)
(* The mail composer: pages/Message/SendEmail and the RichEmailEditor it   *)
(* hosts.                                                                  *)
(*                                                                         *)
(* Three activities share the page and yield at every await: batches of    *)
(* local files are read into inline attachments; one batch of large files  *)
(* at a time is hashed, uploaded, confirmed and linked; and the user edits *)
(* the body, removes attachments and sends.  A continuation holds the      *)
(* state of the render it began in, unless it goes through a functional    *)
(* update or a ref.  A step below is one JavaScript task.                  *)
(***************************************************************************)
EXTENDS Integers, Sequences, FiniteSets, FiniteSetsExt

CONSTANTS
    Picks,        \* bound: how many batches of local files are read at a time
    Sizes,        \* the sizes of local files, in MB
    MaxInline,    \* MAX_INLINE_BYTES, in MB
    MaxTotal,     \* MAX_TOTAL_INLINE_BYTES, in MB
    Files,        \* the ids storage-service gives to large files
    Text,         \* what the user, or a template, wrote
    NoFile,       \* no file id
    MaxBatch,     \* bound: how many files are picked at a time
    MaxKeys       \* bound: how many attachments are ever made

ASSUME ComposerAssumption ==
    /\ Sizes \subseteq Nat
    /\ MaxInline \in Nat /\ MaxTotal \in Nat
    /\ MaxBatch \in Nat /\ MaxKeys \in Nat
    /\ NoFile \notin Files
    /\ Text \notin Files

VARIABLES
    inline,    \* fileAttachments: the rows of local files
    large,     \* largeAttachments: the rows of uploaded files
    nextKey,   \* the key of the next row
    pick,      \* pick[p]: a batch of local files being read
    upload,    \* the batch of large files being uploaded
    storage,   \* storage-service: which files it has, knows of, has linked
    editor,    \* RichEmailEditor: its mode and its two copies of the body
    html,      \* htmlContent, the page's copy of the body
    mail       \* the last request to send, and whether it is open

vars == <<inline, large, nextKey, pick, upload, storage, editor, html, mail>>

(* A body is what was written and the download blocks, each the link to a  *)
(* file.                                                                   *)
Bodies == SUBSET (Files \cup {Text})

Rows      == [key : Nat, size : Sizes]
LargeRows == [key : Nat, file : Files]

(* seen: fileAttachments as rendered when the files were picked.           *)
Pick == [seen : SUBSET Rows, rest : Seq(Sizes)]

Stages == {"idle", "hash", "url", "put", "confirm", "link"}

(* loading is uploadingLarge; left counts the files of the batch still to  *)
(* do, this one included.                                                  *)
Upload == [stage : Stages, file : Files \cup {NoFile}, left : Nat,
           loading : BOOLEAN]

Storage == [stored : SUBSET Files, confirmed : SUBSET Files,
            linked : SUBSET Files]

Editor == [mode : {"rich", "source"}, dom : Bodies, source : Bodies]

Mail == [open : BOOLEAN, inline : SUBSET Rows, large : SUBSET LargeRows,
         body : Bodies]

(* A type invariant of the page.                                           *)
TypeOK ==
    /\ inline \in SUBSET Rows
    /\ large \in SUBSET LargeRows
    /\ nextKey \in Nat
    /\ pick \in [Picks -> Pick]
    /\ upload \in Upload
    /\ storage \in Storage
    /\ editor \in Editor
    /\ html \in Bodies
    /\ mail \in Mail

NoPick   == [seen |-> {}, rest |-> << >>]
NoUpload == [stage |-> "idle", file |-> NoFile, left |-> 0, loading |-> FALSE]
NoMail   == [open |-> FALSE, inline |-> {}, large |-> {}, body |-> {}]

(* Storage may know files, all in order, from earlier visits.              *)
Init ==
    /\ inline = {} /\ large = {} /\ nextKey = 0
    /\ pick = [p \in Picks |-> NoPick]
    /\ upload = NoUpload
    /\ storage \in {[stored |-> known, confirmed |-> known, linked |-> {}] :
                        known \in SUBSET Files}
    /\ editor = [mode |-> "rich", dom |-> {}, source |-> {}]
    /\ html = {}
    /\ mail = NoMail

-----------------------------------------------------------------------------
(* The editor.                                                             *)

Shown(e) == IF e.mode = "rich" THEN e.dom ELSE e.source

(* What the user sees changes; the other copy is left as it was.           *)
Show(body) ==
    /\ editor' = IF editor.mode = "rich" THEN [editor EXCEPT !.dom = body]
                                         ELSE [editor EXCEPT !.source = body]
    /\ html' = body

(* Slip: the fragment goes into the hidden rich-text area in source mode.  *)
AppendHtmlHidden(file) ==
    /\ editor' = [editor EXCEPT !.dom = @ \cup {file}]
    /\ html' = editor.dom \cup {file}

(* appendHtml, as an upload's continuation calls it.                       *)
AppendHtml(file) == Show(Shown(editor) \cup {file})

TypeText ==
    /\ Show(Shown(editor) \cup {Text})
    /\ UNCHANGED <<inline, large, nextKey, pick, upload, storage, mail>>

(* Whatever the body holds, the user may delete: text or a block.          *)
Erase(part) ==
    /\ part \in Shown(editor)
    /\ Show(Shown(editor) \ {part})
    /\ UNCHANGED <<inline, large, nextKey, pick, upload, storage, mail>>

(* applyTemplate: setHtml replaces the body.                               *)
ApplyTemplate ==
    /\ Show({Text})
    /\ UNCHANGED <<inline, large, nextKey, pick, upload, storage, mail>>

(* exec, insertLink: a command of the toolbar formats the rich-text area   *)
(* and tells the page what that area holds.  The toolbar is there in       *)
(* source mode too, where the area is hidden.  (Formatting is no part of   *)
(* a body here.)                                                           *)
ToolbarCommand ==
    /\ html' = editor.dom
    /\ UNCHANGED <<inline, large, nextKey, pick, upload, storage, editor, mail>>

(* toggleMode copies the side shown to the side to be shown.               *)
ToggleMode ==
    /\ editor' = IF editor.mode = "rich"
                 THEN [editor EXCEPT !.mode = "source", !.source = editor.dom]
                 ELSE [editor EXCEPT !.mode = "rich", !.dom = editor.source]
    /\ html' = Shown(editor)
    /\ UNCHANGED <<inline, large, nextKey, pick, upload, storage, mail>>

-----------------------------------------------------------------------------
(* Local files.                                                            *)

SizeOf(rows) == MapThenSumSet(LAMBDA row : row.size, rows)

(* The limits, as the loop checks them: against the rows of the render the *)
(* files were picked in, plus this one file.                               *)
Fits(rows, size) == size <= MaxInline /\ SizeOf(rows) + size <= MaxTotal

Batches == UNION {[1..n -> Sizes] : n \in 1..MaxBatch}

RowsToCome(p) == Len(pick[p].rest)

(* The bound on keys: every file picked may still get one.                 *)
KeysLeft(n) == nextKey + n <= MaxKeys

(* handleFileChange.  A file over a limit changes nothing but for a        *)
(* warning, so only those that fit are picked here.                        *)
PickLocal(p) ==
    /\ pick[p].rest = << >>
    /\ \E batch \in Batches :
          /\ \A i \in DOMAIN batch : Fits(inline, batch[i])
          /\ KeysLeft(Len(batch))
          /\ pick' = [pick EXCEPT ![p] = [seen |-> inline, rest |-> batch]]
    /\ UNCHANGED <<inline, large, nextKey, upload, storage, editor, html, mail>>

Done(p) ==
    LET rest == Tail(pick[p].rest) IN
    pick' = [pick EXCEPT ![p] = IF rest = << >> THEN NoPick
                                ELSE [@ EXCEPT !.rest = rest]]

(* Slip: setFileAttachments([...fileAttachments, row]), the rows of the    *)
(* render instead of a functional update.                                  *)
LocalReadStale(p) ==
    /\ pick[p].rest # << >> /\ nextKey < MaxKeys
    /\ inline' = pick[p].seen \cup {[key |-> nextKey, size |-> Head(pick[p].rest)]}
    /\ nextKey' = nextKey + 1
    /\ Done(p)
    /\ UNCHANGED <<large, upload, storage, editor, html, mail>>

(* A file is read: its row joins whatever rows there are by now.           *)
LocalRead(p) ==
    /\ pick[p].rest # << >> /\ nextKey < MaxKeys
    /\ inline' = inline \cup {[key |-> nextKey, size |-> Head(pick[p].rest)]}
    /\ nextKey' = nextKey + 1
    /\ Done(p)
    /\ UNCHANGED <<large, upload, storage, editor, html, mail>>

LocalUnreadable(p) ==
    /\ pick[p].rest # << >>
    /\ Done(p)
    /\ UNCHANGED <<inline, large, nextKey, upload, storage, editor, html, mail>>

RemoveLocal(row) ==
    /\ row \in inline
    /\ inline' = inline \ {row}
    /\ UNCHANGED <<large, nextKey, pick, upload, storage, editor, html, mail>>

-----------------------------------------------------------------------------
(* Large files.                                                            *)

To(stage, file) == upload' = [upload EXCEPT !.stage = stage, !.file = file]

Following == [upload EXCEPT !.stage = "hash", !.file = NoFile, !.left = @ - 1]

(* Slip: no finally, the button is left loading.                           *)
NextFileStuck ==
    upload' = IF upload.left > 1 THEN Following
              ELSE [NoUpload EXCEPT !.loading = TRUE]

(* The end of a file, good or bad: finally, and the next of the batch.     *)
NextFile ==
    upload' = IF upload.left > 1 THEN Following ELSE NoUpload

(* The button starts no batch while it is loading.                         *)
PickLarge ==
    /\ ~upload.loading
    /\ \E n \in 1..MaxBatch :
          upload' = [stage |-> "hash", file |-> NoFile, left |-> n, loading |-> TRUE]
    /\ UNCHANGED <<inline, large, nextKey, pick, storage, editor, html, mail>>

Hashed ==
    /\ upload.stage = "hash"
    /\ To("url", NoFile) \/ NextFile
    /\ UNCHANGED <<inline, large, nextKey, pick, storage, editor, html, mail>>

(* Slip: an answer without an upload link is used all the same.            *)
UrlAnsweredBlank ==
    /\ upload.stage = "url"
    /\ \/ \E file \in storage.confirmed : To("link", file)
       \/ \E file \in (Files \ storage.confirmed) \cup {NoFile} : To("put", file)
       \/ NextFile
    /\ UNCHANGED <<inline, large, nextKey, pick, storage, editor, html, mail>>

(* generateUploadUrl: a file storage has already needs no upload.  A       *)
(* refusal, or an answer without a link, is a failure.                     *)
UrlAnswered ==
    /\ upload.stage = "url"
    /\ \/ \E file \in storage.confirmed : To("link", file)
       \/ \E file \in Files \ storage.confirmed : To("put", file)
       \/ NextFile
    /\ UNCHANGED <<inline, large, nextKey, pick, storage, editor, html, mail>>

(* Slip: the status of the PUT is not looked at.                           *)
PutAnsweredUnchecked ==
    /\ upload.stage = "put"
    /\ \/ /\ storage' = [storage EXCEPT !.stored = @ \cup {upload.file}]
          /\ To("confirm", upload.file) \/ NextFile
       \/ /\ To("confirm", upload.file)
          /\ UNCHANGED storage
    /\ UNCHANGED <<inline, large, nextKey, pick, editor, html, mail>>

(* The PUT to the object store: only an answer in the 2xx range goes on.   *)
(* An answer may be lost after the object was stored.                      *)
PutAnswered ==
    /\ upload.stage = "put"
    /\ \/ /\ storage' = [storage EXCEPT !.stored = @ \cup {upload.file}]
          /\ To("confirm", upload.file) \/ NextFile
       \/ /\ NextFile
          /\ UNCHANGED storage
    /\ UNCHANGED <<inline, large, nextKey, pick, editor, html, mail>>

(* confirmUpload: what storage-service does not object to is confirmed.    *)
ConfirmAnswered ==
    /\ upload.stage = "confirm"
    /\ \/ /\ storage' = [storage EXCEPT !.confirmed = @ \cup {upload.file}]
          /\ To("link", upload.file) \/ NextFile
       \/ /\ NextFile
          /\ UNCHANGED storage
    /\ UNCHANGED <<inline, large, nextKey, pick, editor, html, mail>>

Linked ==
    storage' = [storage EXCEPT !.linked = @ \cup {upload.file}]

(* createFileLink: the row and the block appear in one task.               *)
LinkAnswered ==
    /\ upload.stage = "link" /\ nextKey < MaxKeys
    /\ Linked
    /\ large' = large \cup {[key |-> nextKey, file |-> upload.file]}
    /\ nextKey' = nextKey + 1
    /\ AppendHtml(upload.file)
    /\ NextFile
    /\ UNCHANGED <<inline, pick, mail>>

LinkFails ==
    /\ upload.stage = "link"
    /\ Linked \/ UNCHANGED storage
    /\ NextFile
    /\ UNCHANGED <<inline, large, nextKey, pick, editor, html, mail>>

(* The tag is closed: the row goes, the block in the body stays.           *)
RemoveLarge(row) ==
    /\ row \in large
    /\ large' = large \ {row}
    /\ UNCHANGED <<inline, nextKey, pick, upload, storage, editor, html, mail>>

-----------------------------------------------------------------------------
(* Sending.                                                                *)

(* handleSend.  An invalid form or bad parameters change nothing, nor does *)
(* a mail without any body; the plain-text field can stand in for an empty *)
(* html.  The button starts nothing while it is loading.  An upload that   *)
(* is still running does not matter.                                       *)
Send ==
    /\ ~mail.open
    /\ mail' = [open |-> TRUE, inline |-> inline, large |-> large, body |-> html]
    /\ UNCHANGED <<inline, large, nextKey, pick, upload, storage, editor, html>>

(* Sent or failed: the composer keeps its content.                         *)
SendAnswered ==
    /\ mail.open
    /\ mail' = [mail EXCEPT !.open = FALSE]
    /\ UNCHANGED <<inline, large, nextKey, pick, upload, storage, editor, html>>

UploadStep ==
    Hashed \/ UrlAnswered \/ PutAnswered \/ ConfirmAnswered \/ LinkAnswered
           \/ LinkFails

UserStep ==
    \/ TypeText \/ ApplyTemplate \/ ToolbarCommand \/ ToggleMode
    \/ \E part \in Files \cup {Text} : Erase(part)
    \/ \E p \in Picks : PickLocal(p)
    \/ PickLarge
    \/ \E row \in inline : RemoveLocal(row)
    \/ \E row \in large : RemoveLarge(row)
    \/ Send

Next ==
    \/ UserStep
    \/ \E p \in Picks : LocalRead(p) \/ LocalUnreadable(p)
    \/ UploadStep
    \/ SendAnswered

Spec == Init /\ [][Next]_vars

(* Every file read, hash and request of an upload ends, well or badly.     *)
FairSpec == Spec /\ WF_vars(UploadStep)

-----------------------------------------------------------------------------
(* Properties.                                                             *)

(* No dead link (SendEmail/index.tsx:376-397): whatever step of an upload  *)
(* failed, and whatever was uploaded before it, a large file that is       *)
(* listed, or is part of a mail, is stored, confirmed and linked.          *)
LinksWork ==
    \A row \in large \cup mail.large :
        row.file \in storage.stored \cap storage.confirmed \cap storage.linked

(* The body that would be sent is the one on screen.                       *)
BodyIsShown == html = Shown(editor)

(* However uploads, templates, edits and the switch between rich text and  *)
(* source interleave (RichEmailEditor/index.tsx:110, 123-142, 180-193),    *)
(* the body that would be sent leaves the one on the screen only by a      *)
(* toolbar command in source mode, and any later edit brings it back.      *)
OnlyCommandsStray ==
    [][\/ BodyIsShown'
       \/ /\ editor'.mode = "source"
          /\ ToolbarCommand \/ UNCHANGED <<html, editor>>]_vars

(* No attachment is lost (SendEmail/index.tsx:319, 413): batches that are  *)
(* read at the same time, and the upload, add rows to what is there; a row *)
(* disappears only by the user's hand, one at a time.                      *)
RowsLeaveByHand ==
    [][/\ \A row \in inline \ inline' : RemoveLocal(row)
       /\ \A row \in large \ large' : RemoveLarge(row)]_vars

(* The upload button does not hang (SendEmail/index.tsx:419-421): whatever *)
(* fails in a batch, it comes back.                                        *)
UploadEnds == upload.loading ~> ~upload.loading

(* What the page says of local attachments (SendEmail/index.tsx:660): at   *)
(* most so much together.                                                  *)
InlineTotalBounded == SizeOf(mail.inline) <= MaxTotal

-----------------------------------------------------------------------------
(* The inductive invariant behind LinksWork: what the stage of an upload   *)
(* says of the file it is about; and behind OnlyCommandsStray: in rich     *)
(* text the page has what the area holds.                                  *)
StageTellsStorage ==
    /\ storage.confirmed \subseteq storage.stored
    /\ upload.stage \in {"put", "confirm", "link"} => upload.file \in Files
    /\ upload.stage \in {"confirm", "link"} => upload.file \in storage.stored
    /\ upload.stage = "link" => upload.file \in storage.confirmed

RichIsSent == editor.mode = "rich" => html = editor.dom

IInv == TypeOK /\ StageTellsStorage /\ LinksWork /\ RichIsSent
=============================================================================
