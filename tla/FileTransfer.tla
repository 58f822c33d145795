---------------------------- MODULE FileTransfer ----------------------------
(***************************************************************************)
(* My Files: the table with its selection, single and batch delete (Files/ *)
(* MyFiles/index.tsx), and the upload dialogue (UploadModal.tsx): a        *)
(* credential, the place of a PUT to the object store, which the code      *)
(* marks as a stub that waits and sends nothing, and a confirmation.       *)
(* Closing the dialogue does not stop an upload.                           *)
(***************************************************************************)
EXTENDS Naturals

CONSTANT Files      \* the files an operator may upload

VARIABLES stored,     \* the files the storage service lists
          shown,      \* the rows of the table
          picked,     \* selectedRowKeys
          dialog,     \* is the upload dialogue open?
          uploads,    \* the uploads that run: how far each file's is
          uploading,  \* the flag that disables the drop zone
          deletes     \* the files the delete RPC under way names

fileVars == <<stored, shown, picked, dialog, uploads, uploading, deletes>>

NoUpload == "none"
Steps    == {"credential", "put", "confirm", "confirmed"}
Running  == {f \in Files : uploads[f] # NoUpload}

OpenDialog == ~dialog /\ dialog' = TRUE
              /\ UNCHANGED <<stored, shown, picked, uploads, uploading, deletes>>

\* Slip: the flag goes with the content of the dialogue.
CloseDialogAnew == dialog /\ dialog' = FALSE /\ uploading' = FALSE
                   /\ UNCHANGED <<stored, shown, picked, uploads, deletes>>

\* The cross in the corner; the button below is a spinner while an upload runs.  What
\* the dialogue shows is destroyed, the component around it and its flag are kept.
CloseDialog == dialog /\ dialog' = FALSE
               /\ UNCHANGED <<stored, shown, picked, uploads, uploading, deletes>>

\* The drop zone takes one file and is disabled while the flag is up.
ChooseFile(f) ==
    /\ dialog /\ ~uploading
    /\ uploading' = TRUE
    /\ uploads' = [uploads EXCEPT ![f] = "credential"]
    /\ UNCHANGED <<stored, shown, picked, dialog, deletes>>

\* The credential came, with an upload token.
Granted(f) ==
    /\ uploads[f] = "credential"
    /\ uploads' = [uploads EXCEPT ![f] = "put"]
    /\ UNCHANGED <<stored, shown, picked, dialog, uploading, deletes>>

\* The stub of the PUT: it waits 50 ms and stores nothing.
PutDone(f) ==
    /\ uploads[f] = "put"
    /\ uploads' = [uploads EXCEPT ![f] = "confirm"]
    /\ UNCHANGED <<stored, shown, picked, dialog, uploading, deletes>>

ConfirmServed(f) ==
    /\ uploads[f] = "confirm"
    /\ stored' = stored \cup {f}
    /\ uploads' = [uploads EXCEPT ![f] = "confirmed"]
    /\ UNCHANGED <<shown, picked, dialog, uploading, deletes>>

\* onDone and onOpenChange(false): the selection is dropped and the dialogue closed,
\* also one opened again meanwhile, by an upload just confirmed or one the service
\* already had (every upload carries the same placeholder MD5, so any listed file is a
\* hit).
UploadDone(f) ==
    /\ uploads[f] = "confirmed" \/ (uploads[f] = "credential" /\ stored # {})
    /\ uploads' = [uploads EXCEPT ![f] = NoUpload]
    /\ uploading' = FALSE
    /\ picked' = {}
    /\ dialog' = FALSE
    /\ UNCHANGED <<stored, shown, deletes>>

\* Any of the steps fails, or its answer is lost; nothing is undone.
UploadFails(f) ==
    /\ f \in Running
    /\ uploads' = [uploads EXCEPT ![f] = NoUpload]
    /\ uploading' = FALSE
    /\ UNCHANGED <<stored, shown, picked, dialog, deletes>>

(***************************************************************************)
(* The table.                                                              *)
(***************************************************************************)
FilesArrive ==
    /\ shown # stored
    /\ shown' = stored
    /\ UNCHANGED <<stored, picked, dialog, uploads, uploading, deletes>>

PickFile(f) ==
    /\ ~dialog /\ f \in shown
    /\ picked' = IF f \in picked THEN picked \ {f} ELSE picked \cup {f}
    /\ UNCHANGED <<stored, shown, dialog, uploads, uploading, deletes>>

\* One row's delete, or the selection's.
AskDelete(S) ==
    /\ ~dialog /\ deletes = {}
    /\ S # {}
    /\ S = picked \/ \E f \in shown : S = {f}
    /\ deletes' = S
    /\ UNCHANGED <<stored, shown, picked, dialog, uploads, uploading>>

\* The service deletes the files it can.
FilesGo(gone) ==
    /\ gone \in SUBSET (deletes \cap stored) /\ gone # {}
    /\ stored' = stored \ gone
    /\ UNCHANGED <<shown, picked, dialog, uploads, uploading, deletes>>

\* The answer drops the selection, also when some files could not be deleted.
FilesDeleted ==
    /\ deletes # {}
    /\ deletes' = {}
    /\ picked' = {}
    /\ UNCHANGED <<stored, shown, dialog, uploads, uploading>>

FilesKept ==
    /\ deletes # {}
    /\ deletes' = {}
    /\ UNCHANGED <<stored, shown, picked, dialog, uploads, uploading>>

FileInit ==
    /\ stored = {} /\ shown = {} /\ picked = {}
    /\ dialog = FALSE
    /\ uploads = [f \in Files |-> NoUpload] /\ uploading = FALSE
    /\ deletes = {}

FileNext ==
    \/ OpenDialog \/ CloseDialog
    \/ \E f \in Files :
          \/ ChooseFile(f) \/ Granted(f) \/ PutDone(f) \/ ConfirmServed(f)
          \/ UploadDone(f) \/ UploadFails(f) \/ PickFile(f)
    \/ FilesArrive \/ FilesDeleted \/ FilesKept
    \/ \E S \in SUBSET Files : AskDelete(S) \/ FilesGo(S)

FileSpec == FileInit /\ [][FileNext]_fileVars

(***************************************************************************)
(* Properties.                                                             *)
(***************************************************************************)
\* What each variable may hold.
FileTypeOK ==
    /\ {stored, shown, picked, deletes} \subseteq SUBSET Files
    /\ dialog \in BOOLEAN /\ uploading \in BOOLEAN
    /\ uploads \in [Files -> Steps \cup {NoUpload}]

\* However often the dialogue is closed and opened while a file is on its way, the drop
\* zone stays disabled exactly as long as that takes: two uploads never run at once, and
\* none, failed or lost, leaves the zone disabled.
DropZoneWaits ==
    /\ \A f, g \in Running : f = g
    /\ uploading <=> Running # {}
=============================================================================
