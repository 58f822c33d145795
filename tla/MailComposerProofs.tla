------------------------- MODULE MailComposerProofs -------------------------
(***************************************************************************)
(* Proofs about MailComposer, for any number of pending batches, any       *)
(* files, sizes and limits.                                                *)
(***************************************************************************)
EXTENDS MailComposer, TLAPS

-----------------------------------------------------------------------------
(* The page starts well typed.                                             *)
LEMMA InitTyped == Init => TypeOK
BY ComposerAssumption
DEF Init, TypeOK, NoPick, NoUpload, NoMail, Pick, Upload, Stages, Storage,
    Editor, Mail, Bodies, Rows, LargeRows

(* A batch of local files is a sequence of sizes.                          *)
LEMMA BatchIsSequence ==
    ASSUME NEW batch \in Batches
    PROVE  batch \in Seq(Sizes)
BY ComposerAssumption DEF Batches

(* What is shown is a body, and showing another leaves the editor typed.   *)
LEMMA ShowTyped ==
    ASSUME TypeOK, NEW body \in Bodies, Show(body)
    PROVE  editor' \in Editor /\ html' \in Bodies
BY DEF TypeOK, Show, Editor

LEMMA ShownTyped == TypeOK => Shown(editor) \in Bodies
BY DEF TypeOK, Shown, Editor

(* The steps that only move the upload along keep it typed.                *)
LEMMA UploadTyped ==
    ASSUME TypeOK,
           \/ \E stage \in Stages, file \in Files \cup {NoFile} : To(stage, file)
           \/ NextFile
    PROVE  upload' \in Upload
<1>1. CASE \E stage \in Stages, file \in Files \cup {NoFile} : To(stage, file)
  BY <1>1 DEF TypeOK, To, Upload
<1>2. CASE NextFile
  <2>1. NoUpload \in Upload
    BY DEF NoUpload, Upload, Stages
  <2>2. upload.left > 1 => Following \in Upload
    <3>1. upload \in Upload
      BY DEF TypeOK
    <3>2. upload.left > 1 => upload.left - 1 \in Nat
      BY <3>1 DEF Upload
    <3>3. "hash" \in Stages
      BY DEF Stages
    <3> QED
      BY <3>1, <3>2, <3>3 DEF Following, Upload
  <2> QED
    BY <1>2, <2>1, <2>2 DEF NextFile
<1> QED
  BY <1>1, <1>2

(* One batch is a file shorter.                                            *)
LEMMA DoneTyped ==
    ASSUME TypeOK, NEW p \in Picks, pick[p].rest # << >>, Done(p)
    PROVE  pick' \in [Picks -> Pick]
<1>1. pick[p] \in Pick
  BY DEF TypeOK
<1>2. Tail(pick[p].rest) \in Seq(Sizes)
  BY <1>1 DEF Pick
<1>3. NoPick \in Pick
  BY DEF NoPick, Pick
<1>4. [pick[p] EXCEPT !.rest = Tail(pick[p].rest)] \in Pick
  BY <1>1, <1>2 DEF Pick
<1> QED
  BY <1>3, <1>4 DEF Done, TypeOK

-----------------------------------------------------------------------------
(* Every step keeps the page well typed.  The uploads need to know that a  *)
(* file is under way in the stages that tell storage about it.             *)
LEMMA NextTyped == TypeOK /\ StageTellsStorage /\ [Next]_vars => TypeOK'
<1> SUFFICES ASSUME TypeOK, StageTellsStorage, [Next]_vars PROVE TypeOK'
  OBVIOUS
<1>1. CASE TypeText
  <2>1. Shown(editor) \cup {Text} \in Bodies
    BY ShownTyped DEF Bodies
  <2> QED
    BY <1>1, <2>1, ShowTyped DEF TypeText, TypeOK
<1>2. CASE ApplyTemplate
  <2>1. {Text} \in Bodies
    BY DEF Bodies
  <2> QED
    BY <1>2, <2>1, ShowTyped DEF ApplyTemplate, TypeOK
<1>3. CASE ToggleMode
  BY <1>3 DEF ToggleMode, Shown, TypeOK, Editor
<1>4. ASSUME NEW part \in Files \cup {Text}, Erase(part) PROVE TypeOK'
  <2>1. Shown(editor) \ {part} \in Bodies
    BY ShownTyped DEF Bodies
  <2> QED
    BY <1>4, <2>1, ShowTyped DEF Erase, TypeOK
<1>5. ASSUME NEW p \in Picks, PickLocal(p) PROVE TypeOK'
  <2>1. pick' \in [Picks -> Pick]
    BY <1>5, BatchIsSequence DEF PickLocal, TypeOK, Pick
  <2> QED
    BY <1>5, <2>1 DEF PickLocal, TypeOK
<1>6. CASE PickLarge
  <2>1. upload' \in Upload
    BY <1>6, ComposerAssumption DEF PickLarge, Upload, Stages
  <2> QED
    BY <1>6, <2>1 DEF PickLarge, TypeOK
<1>7. ASSUME NEW row \in inline, RemoveLocal(row) PROVE TypeOK'
  BY <1>7 DEF RemoveLocal, TypeOK
<1>8. ASSUME NEW row \in large, RemoveLarge(row) PROVE TypeOK'
  BY <1>8 DEF RemoveLarge, TypeOK
<1>9. CASE Send
  BY <1>9 DEF Send, TypeOK, Mail
<1>10. ASSUME NEW p \in Picks, LocalRead(p) PROVE TypeOK'
  <2>1. Head(pick[p].rest) \in Sizes
    BY <1>10 DEF LocalRead, TypeOK, Pick
  <2>2. pick' \in [Picks -> Pick]
    BY <1>10, DoneTyped DEF LocalRead
  <2>3. inline' \in SUBSET Rows /\ nextKey' \in Nat
    BY <1>10, <2>1 DEF LocalRead, TypeOK, Rows
  <2> QED
    BY <1>10, <2>2, <2>3 DEF LocalRead, TypeOK
<1>11. ASSUME NEW p \in Picks, LocalUnreadable(p) PROVE TypeOK'
  <2>1. pick' \in [Picks -> Pick]
    BY <1>11, DoneTyped DEF LocalUnreadable
  <2> QED
    BY <1>11, <2>1 DEF LocalUnreadable, TypeOK
<1>12. CASE Hashed
  <2>1. upload' \in Upload
    BY <1>12, UploadTyped DEF Hashed, Stages
  <2> QED
    BY <1>12, <2>1 DEF Hashed, TypeOK
<1>13. CASE UrlAnswered
  <2>1. storage.confirmed \in SUBSET Files
    BY DEF TypeOK, Storage
  <2>2. upload' \in Upload
    BY <1>13, <2>1, UploadTyped DEF UrlAnswered, Stages
  <2> QED
    BY <1>13, <2>2 DEF UrlAnswered, TypeOK
<1>14. CASE PutAnswered
  <2>1. upload.file \in Files
    BY <1>14 DEF PutAnswered, StageTellsStorage
  <2>2. upload' \in Upload
    BY <1>14, <2>1, UploadTyped DEF PutAnswered, Stages
  <2>3. storage' \in Storage
    BY <1>14, <2>1 DEF PutAnswered, TypeOK, Storage
  <2> QED
    BY <1>14, <2>2, <2>3 DEF PutAnswered, TypeOK
<1>15. CASE ConfirmAnswered
  <2>1. upload.file \in Files
    BY <1>15 DEF ConfirmAnswered, StageTellsStorage
  <2>2. upload' \in Upload
    BY <1>15, <2>1, UploadTyped DEF ConfirmAnswered, Stages
  <2>3. storage' \in Storage
    BY <1>15, <2>1 DEF ConfirmAnswered, TypeOK, Storage
  <2> QED
    BY <1>15, <2>2, <2>3 DEF ConfirmAnswered, TypeOK
<1>16. CASE LinkAnswered
  <2>1. upload.file \in Files
    BY <1>16 DEF LinkAnswered, StageTellsStorage
  <2>2. upload' \in Upload
    BY <1>16, UploadTyped DEF LinkAnswered
  <2>3. storage' \in Storage
    BY <1>16, <2>1 DEF LinkAnswered, Linked, TypeOK, Storage
  <2>4. Shown(editor) \cup {upload.file} \in Bodies
    BY <2>1, ShownTyped DEF Bodies
  <2>5. editor' \in Editor /\ html' \in Bodies
    BY <1>16, <2>4, ShowTyped DEF LinkAnswered, AppendHtml
  <2>6. large' \in SUBSET LargeRows /\ nextKey' \in Nat
    BY <1>16, <2>1 DEF LinkAnswered, TypeOK, LargeRows
  <2> QED
    BY <1>16, <2>2, <2>3, <2>5, <2>6 DEF LinkAnswered, TypeOK
<1>17. CASE LinkFails
  <2>1. upload.file \in Files
    BY <1>17 DEF LinkFails, StageTellsStorage
  <2>2. upload' \in Upload
    BY <1>17, UploadTyped DEF LinkFails
  <2>3. storage' \in Storage
    BY <1>17, <2>1 DEF LinkFails, Linked, TypeOK, Storage
  <2> QED
    BY <1>17, <2>2, <2>3 DEF LinkFails, TypeOK
<1>18. CASE SendAnswered
  BY <1>18 DEF SendAnswered, TypeOK, Mail
<1>19. CASE ToolbarCommand
  BY <1>19 DEF ToolbarCommand, TypeOK, Editor
<1>20. CASE UNCHANGED vars
  BY <1>20 DEF vars, TypeOK
<1> QED
  BY <1>1, <1>2, <1>3, <1>4, <1>5, <1>6, <1>7, <1>8, <1>9, <1>10, <1>11,
     <1>12, <1>13, <1>14, <1>15, <1>16, <1>17, <1>18, <1>19, <1>20
  DEF Next, UserStep, UploadStep

-----------------------------------------------------------------------------
(* What the stage says of storage, step by step.                           *)
LEMMA NextTellsStorage ==
    TypeOK /\ StageTellsStorage /\ [Next]_vars => StageTellsStorage'
<1> SUFFICES ASSUME TypeOK, StageTellsStorage, [Next]_vars
             PROVE  StageTellsStorage'
  OBVIOUS
<1> USE DEF StageTellsStorage
<1>1. upload \in Upload /\ storage \in Storage
  BY DEF TypeOK
<1>2. NextFile => upload'.stage \in {"hash", "idle"}
  BY <1>1 DEF NextFile, Following, NoUpload, Upload
<1>3. CASE PickLarge
  BY <1>1, <1>3 DEF PickLarge, Upload
<1>4. CASE Hashed
  BY <1>1, <1>2, <1>4 DEF Hashed, To, Upload
<1>5. CASE UrlAnswered
  BY <1>1, <1>2, <1>5 DEF UrlAnswered, To, Upload, Storage
<1>6. CASE PutAnswered
  <2>1. upload.file \in Files
    BY <1>6 DEF PutAnswered
  <2>2. storage'.confirmed \subseteq storage'.stored
    BY <1>1, <1>6 DEF PutAnswered, Storage
  <2>3. CASE NextFile
    BY <1>2, <2>2, <2>3
  <2>4. CASE To("confirm", upload.file)
    <3>1. upload'.stage = "confirm" /\ upload'.file = upload.file
      BY <1>1, <2>4 DEF To, Upload
    <3>2. upload.file \in storage'.stored
      BY <1>1, <1>2, <1>6, <3>1 DEF PutAnswered, Storage
    <3> QED
      BY <2>1, <2>2, <3>1, <3>2
  <2> QED
    BY <1>6, <2>3, <2>4 DEF PutAnswered
<1>7. CASE ConfirmAnswered
  <2>1. upload.file \in Files
    BY <1>7 DEF ConfirmAnswered
  <2>2. storage'.confirmed \subseteq storage'.stored
    BY <1>1, <1>7 DEF ConfirmAnswered, Storage
  <2>3. CASE NextFile
    BY <1>2, <2>2, <2>3
  <2>4. CASE To("link", upload.file)
    <3>1. upload'.stage = "link" /\ upload'.file = upload.file
      BY <1>1, <2>4 DEF To, Upload
    <3>2. upload.file \in storage'.confirmed
      BY <1>1, <1>2, <1>7, <3>1 DEF ConfirmAnswered, Storage
    <3> QED
      BY <2>1, <2>2, <3>1, <3>2
  <2> QED
    BY <1>7, <2>3, <2>4 DEF ConfirmAnswered
<1>8. CASE LinkAnswered
  BY <1>1, <1>2, <1>8 DEF LinkAnswered, Linked, Storage
<1>9. CASE LinkFails
  BY <1>1, <1>2, <1>9 DEF LinkFails, Linked, Storage
<1>10. CASE UNCHANGED <<upload, storage>>
  BY <1>10
<1>11. \/ PickLarge \/ UploadStep
       \/ UNCHANGED <<upload, storage>>
  BY DEF Next, UserStep, vars, TypeText, ApplyTemplate, ToolbarCommand, ToggleMode, Erase,
     PickLocal, RemoveLocal, RemoveLarge, Send, LocalRead, LocalUnreadable,
     SendAnswered
<1> QED
  BY <1>3, <1>4, <1>5, <1>6, <1>7, <1>8, <1>9, <1>10, <1>11 DEF UploadStep

(* Storage forgets nothing; and what joins the list is linked.             *)
LEMMA NextLinks ==
    TypeOK /\ StageTellsStorage /\ LinksWork /\ [Next]_vars => LinksWork'
<1> SUFFICES ASSUME TypeOK, StageTellsStorage, LinksWork, [Next]_vars
             PROVE  LinksWork'
  OBVIOUS
<1> DEFINE Good(st) == st.stored \cap st.confirmed \cap st.linked
<1>1. Good(storage) \subseteq Good(storage')
  <2>1. CASE UNCHANGED storage
    BY <2>1
  <2>2. CASE UploadStep
    BY <2>2
    DEF UploadStep, Hashed, UrlAnswered, PutAnswered, ConfirmAnswered,
        LinkAnswered, LinkFails, Linked, TypeOK, Storage
  <2> QED
    BY <2>1, <2>2
    DEF Next, UserStep, vars, TypeText, ApplyTemplate, ToolbarCommand, ToggleMode, Erase,
        PickLocal, PickLarge, RemoveLocal, RemoveLarge, Send, LocalRead,
        LocalUnreadable, SendAnswered
<1>2. CASE LinkAnswered
  <2>1. upload.file \in Good(storage')
    BY <1>2 DEF LinkAnswered, Linked, StageTellsStorage, TypeOK, Storage
  <2>2. \A row \in large' \cup mail'.large :
           row \in large \cup mail.large \/ row.file = upload.file
    BY <1>2 DEF LinkAnswered
  <2> QED
    BY <1>1, <2>1, <2>2 DEF LinksWork
<1>3. CASE Send
  BY <1>1, <1>3 DEF Send, LinksWork
<1>4. CASE SendAnswered
  BY <1>1, <1>4 DEF SendAnswered, LinksWork, TypeOK, Mail
<1>5. CASE large' \subseteq large /\ UNCHANGED mail
  BY <1>1, <1>5 DEF LinksWork
<1>6. \/ LinkAnswered \/ Send \/ SendAnswered
      \/ large' \subseteq large /\ UNCHANGED mail
  BY DEF Next, UserStep, UploadStep, vars, TypeText, ApplyTemplate, ToolbarCommand, ToggleMode,
     Erase, PickLocal, PickLarge, RemoveLocal, RemoveLarge, LocalRead,
     LocalUnreadable, Hashed, UrlAnswered, PutAnswered, ConfirmAnswered,
     LinkFails
<1> QED
  BY <1>2, <1>3, <1>4, <1>5, <1>6

(* Whoever changes the editor tells the page; a toolbar command tells it   *)
(* of the rich-text area.                                                  *)
LEMMA NextShown ==
    TypeOK /\ RichIsSent /\ [Next]_vars =>
        \/ BodyIsShown'
        \/ ToolbarCommand
        \/ UNCHANGED <<html, editor>>
<1> SUFFICES ASSUME TypeOK, RichIsSent, [Next]_vars
             PROVE  \/ BodyIsShown'
                    \/ ToolbarCommand
                    \/ UNCHANGED <<html, editor>>
  OBVIOUS
<1>1. editor \in Editor
  BY DEF TypeOK
<1>2. ASSUME NEW body, Show(body) PROVE BodyIsShown'
  BY <1>1, <1>2 DEF Show, BodyIsShown, Shown, Editor
<1>3. CASE ToggleMode
  BY <1>1, <1>3 DEF ToggleMode, BodyIsShown, Shown, Editor
<1>4. \/ \E body : Show(body)
      \/ ToggleMode
      \/ ToolbarCommand
      \/ UNCHANGED <<html, editor>>
  BY DEF Next, UserStep, UploadStep, vars, TypeText, ApplyTemplate, Erase,
     PickLocal, PickLarge, RemoveLocal, RemoveLarge, Send, LocalRead,
     LocalUnreadable, SendAnswered, Hashed, UrlAnswered, PutAnswered,
     ConfirmAnswered, LinkAnswered, AppendHtml, LinkFails
<1> QED
  BY <1>2, <1>3, <1>4

(* In rich text the page has what the area holds, whoever told it.         *)
LEMMA NextRich == TypeOK /\ RichIsSent /\ [Next]_vars => RichIsSent'
<1> SUFFICES ASSUME TypeOK, RichIsSent, [Next]_vars PROVE RichIsSent'
  OBVIOUS
<1>1. CASE BodyIsShown'
  BY <1>1 DEF BodyIsShown, RichIsSent, Shown
<1>2. CASE ToolbarCommand
  BY <1>2 DEF ToolbarCommand, RichIsSent
<1>3. CASE UNCHANGED <<html, editor>>
  BY <1>3 DEF RichIsSent
<1> QED
  BY <1>1, <1>2, <1>3, NextShown

-----------------------------------------------------------------------------
(* The invariant of the composer: well typed, the stage of an upload tells *)
(* what storage has, no dead link is listed or sent, and in rich text the  *)
(* page has the body of the area (SendEmail/index.tsx:341-423,             *)
(* RichEmailEditor/index.tsx:110-193).                                     *)
THEOREM ComposerInvariant == Spec => []IInv
<1>1. Init => IInv
  <2> SUFFICES ASSUME Init PROVE IInv
    OBVIOUS
  <2>1. TypeOK
    BY InitTyped
  <2>2. StageTellsStorage /\ LinksWork /\ RichIsSent
    BY DEF Init, StageTellsStorage, LinksWork, RichIsSent, NoUpload, NoMail
  <2> QED
    BY <2>1, <2>2 DEF IInv
<1>2. IInv /\ [Next]_vars => IInv'
  BY NextTyped, NextTellsStorage, NextLinks, NextRich DEF IInv
<1> QED
  BY <1>1, <1>2, PTL DEF Spec

(* The state of the composer is always well typed.                         *)
THEOREM ComposerTyped == Spec => []TypeOK
BY ComposerInvariant, PTL DEF IInv

(* No dead link is listed or sent, whichever step of whichever upload      *)
(* failed (SendEmail/index.tsx:376-397).                                   *)
THEOREM NoDeadLinks == Spec => []LinksWork
BY ComposerInvariant, PTL DEF IInv

(* Only a toolbar command in source mode parts the body that would be sent *)
(* from the body on the screen (RichEmailEditor/index.tsx:110, 123-142,    *)
(* 144-148, 180-193).                                                      *)
THEOREM OnlyCommandsPart == Spec => OnlyCommandsStray
<1>1. IInv /\ IInv' /\ [Next]_vars =>
         [\/ BodyIsShown'
          \/ /\ editor'.mode = "source"
             /\ ToolbarCommand \/ UNCHANGED <<html, editor>>]_vars
  <2> SUFFICES ASSUME IInv, IInv', Next
               PROVE  \/ BodyIsShown'
                      \/ /\ editor'.mode = "source"
                         /\ ToolbarCommand \/ UNCHANGED <<html, editor>>
    OBVIOUS
  <2>1. editor' \in Editor /\ RichIsSent'
    BY DEF IInv, TypeOK
  <2>2. editor'.mode = "rich" => BodyIsShown'
    BY <2>1 DEF RichIsSent, BodyIsShown, Shown
  <2>3. editor'.mode \in {"rich", "source"}
    BY <2>1 DEF Editor
  <2> QED
    BY <2>2, <2>3, NextShown DEF IInv
<1> QED
  BY <1>1, ComposerInvariant, PTL DEF Spec, OnlyCommandsStray

(* A row disappears only by the user's hand, one at a time                 *)
(* (SendEmail/index.tsx:319, 413).                                         *)
THEOREM NoRowIsLost == Spec => RowsLeaveByHand
<1>1. [Next]_vars =>
         [/\ \A row \in inline \ inline' : RemoveLocal(row)
          /\ \A row \in large \ large' : RemoveLarge(row)]_vars
  <2> SUFFICES ASSUME Next
               PROVE  /\ \A row \in inline \ inline' : RemoveLocal(row)
                      /\ \A row \in large \ large' : RemoveLarge(row)
    OBVIOUS
  <2>1. CASE \E row \in inline : RemoveLocal(row)
    BY <2>1 DEF RemoveLocal
  <2>2. CASE \E row \in large : RemoveLarge(row)
    BY <2>2 DEF RemoveLarge
  <2>3. CASE inline \subseteq inline' /\ large \subseteq large'
    BY <2>3
  <2> QED
    BY <2>1, <2>2, <2>3
    DEF Next, UserStep, UploadStep, TypeText, ApplyTemplate, ToolbarCommand, ToggleMode, Erase,
        PickLocal, PickLarge, Send, LocalRead, LocalUnreadable, SendAnswered,
        Hashed, UrlAnswered, PutAnswered, ConfirmAnswered, LinkAnswered,
        LinkFails
<1> QED
  BY <1>1, PTL DEF Spec, RowsLeaveByHand
=============================================================================
