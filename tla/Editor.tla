------------------------------- MODULE Editor -------------------------------
(***************************************************************************)
(* The Content Studio: authors type into the open page, which keeps what   *)
(* is not saved (builder/BuilderClient.astro), and posts it to the save    *)
(* route (editor/content-field.ts), which bootstraps, looks for the entry, *)
(* creates it, writes the draft, repairs and writes again, or publishes.   *)
(*                                                                         *)
(* One entry is told, in the one active locale.  EmDash, which keeps it,   *)
(* is external: an update merges the fields it is given into the draft.    *)
(* Of the bootstrap the read and the write of this entry are told (module  *)
(* Bootstrap has all its statements, module ContentRelease the log).       *)
(***************************************************************************)
EXTENDS Naturals

CONSTANTS
  Pages,    \* open Content Studio pages
  Posts,    \* requests of the save route, numbered as they are sent
  Fields,   \* the editable fields of the entry
  Title,    \* the one a new entry cannot do without
  Compulsory, \* those that may not be left empty
  Text,     \* what authors type
  Edits,    \* the fields they type it in: a field and a text each
  Empty,
  Default,  \* the text of the registry
  NoText, NoField, NoPage,
  Calls     \* posts of other clients: what they change, and whether they
            \* publish it

Typed == [Fields -> Text \cup {Empty, NoText}]
Site == [Fields -> Text \cup {Empty, Default}]

ASSUME EditorIsTyped ==
  /\ Posts \subseteq Nat
  /\ Title \in Fields /\ Compulsory \subseteq Fields
  /\ NoText \notin Text \cup {Empty, Default}
  /\ Empty \notin Text \cup {Default}
  /\ NoField \notin Fields /\ NoPage \notin Pages
  /\ Edits \subseteq Fields \X (Text \cup {Empty})
  /\ Calls \subseteq [changes : Typed, publish : BOOLEAN]

VARIABLES
  exists,    \* the entry has a row
  liveText,  \* its published texts
  draftText, \* the texts the editor reads: the draft's, or else the live ones
  page,      \* what each page shows, holds unsaved, and has being edited;
             \* whether it knows of a saved draft; and, while its preview is to
             \* come, whether it began with changes of before
  post,      \* where each request is, and what it was sent
  written,   \* auxiliary: what each page's posts last wrote to the draft
  risky      \* auxiliary: fields whose text a page may lose

entryVars == <<exists, liveText, draftText>>
editorVars == <<entryVars, page, post, written, risky>>

Serving == {"auto", "read", "full", "reread", "create", "update", "repair",
            "again", "publish"}
Status == {"settled", "unsaved", "busy", "error"}

NoChange == [f \in Fields |-> NoText]

NoPost == [pc |-> "idle", page |-> NoPage, changes |-> NoChange,
           publish |-> FALSE, fill |-> {}, found |-> FALSE, heard |-> FALSE]

PageState ==
  [shown : Typed, pending : Typed, editing : Fields \cup {NoField},
   before : Text \cup {Empty, NoText}, status : Status, saved : BOOLEAN,
   fresh : {"bare", "restored", "no"}]

PostState ==
  [pc : {"idle", "ready", "failed", "over"} \cup Serving,
   page : Pages \cup {NoPage}, changes : Typed, publish : BOOLEAN,
   fill : SUBSET Fields,    \* what a bootstrap found empty and will fill
   found : BOOLEAN, heard : BOOLEAN]

EditorTypeOK ==
  /\ exists \in BOOLEAN /\ liveText \in Site /\ draftText \in Site
  /\ page \in [Pages -> PageState]
  /\ post \in [Posts -> PostState]
  /\ written \in [Pages -> Typed]
  /\ risky \in [Pages -> SUBSET Fields]

EditorInit ==
  /\ exists = FALSE
  /\ liveText = [f \in Fields |-> Empty] /\ draftText = liveText
  /\ page = [p \in Pages |-> [shown |-> NoChange, pending |-> NoChange,
                              editing |-> NoField, before |-> NoText,
                              status |-> "settled", saved |-> FALSE, fresh |-> "bare"]]
  /\ post = [r \in Posts |-> NoPost]
  /\ written = [p \in Pages |-> NoChange]
  /\ risky = [p \in Pages |-> {}]

-----------------------------------------------------------------------------
(* The page.  What it shows in a field is the author's text, or NoText for *)
(* the text it was served with.                                            *)

Shown(p, f) == page[p].shown[f]
Unsaved(p, f) == page[p].pending[f]
IsPost(r, at) == post[r].pc = at
Names(r, f) == post[r].changes[f] # NoText
Saves(r, p) == post[r].page = p /\ ~post[r].publish

(* A save of this page is still awaited by it, or still being served with  *)
(* an earlier text of the field.                                           *)
UnderWay(p, f) ==
  \E r \in Posts :
    /\ Saves(r, p)
    /\ post[r].heard \/ (post[r].pc \in Serving /\ Names(r, f))

Becomes(p, s) == page' = [page EXCEPT ![p] = s]

(* A request that has ended and that no page awaits is over.               *)
Ended(s) ==
  IF s.pc \in {"ready", "failed"} /\ ~s.heard THEN [NoPost EXCEPT !.pc = "over"] ELSE s

Moves(r, s) == post' = [post EXCEPT ![r] = Ended(s)]

(* startTextEdit                                                           *)
Edit(p, f) ==
  /\ page[p].editing = NoField
  /\ Becomes(p, [page[p] EXCEPT !.editing = f, !.before = Shown(p, f)])
  /\ UNCHANGED <<entryVars, post, written, risky>>

(* handleInput, setPendingChange                                           *)
Type(p, t) ==
  LET f == page[p].editing
  IN  /\ <<f, t>> \in Edits /\ t # page[p].before
      /\ Becomes(p, [page[p] EXCEPT !.shown = [@ EXCEPT ![f] = t],
                !.pending = [@ EXCEPT ![f] = t], !.status = "unsaved"])
      /\ risky' = [risky EXCEPT ![p] = IF UnderWay(p, f) THEN @ \cup {f} ELSE @ \ {f}]
      /\ UNCHANGED <<entryVars, post, written>>

(* clearPendingChange, when the author types the earlier text or presses   *)
(* Escape: the change is dropped, even if the earlier text is itself one   *)
(* that was not saved.                                                     *)
PutBack(p, escape) ==
  LET f == page[p].editing
      rest == [page[p].pending EXCEPT ![f] = NoText]
  IN  /\ f # NoField
      /\ Becomes(p, [page[p] EXCEPT
           !.shown = [@ EXCEPT ![f] = page[p].before], !.pending = rest,
           !.editing = IF escape THEN NoField ELSE f,
           !.before = IF escape THEN NoText ELSE @,
           !.status = IF Unsaved(p, f) = NoText THEN @
                      ELSE IF rest = NoChange THEN "settled" ELSE "unsaved"])
      /\ risky' = [risky EXCEPT ![p] =
                     IF page[p].before \in {NoText, written[p][f]} THEN @ ELSE @ \cup {f}]
      /\ UNCHANGED <<entryVars, post, written>>

(* What is being typed becomes a pending change again when the edit ends,  *)
(* also by a submission or a reload.                                       *)
Committed(p) ==
  LET f == page[p].editing
  IN  IF f # NoField /\ Shown(p, f) # page[p].before
      THEN [page[p].pending EXCEPT ![f] = Shown(p, f)] ELSE page[p].pending

(* finishTextEdit                                                          *)
Blur(p) ==
  /\ page[p].editing # NoField
  /\ Becomes(p, [page[p] EXCEPT
       !.editing = NoField, !.before = NoText, !.pending = Committed(p),
       !.status = IF Shown(p, page[p].editing) # page[p].before THEN "unsaved" ELSE @])
  /\ UNCHANGED <<entryVars, post, written, risky>>

FinishEditing(p) ==
  /\ page[p].editing = NoField
  /\ Becomes(p, [page[p] EXCEPT
       !.status = IF page[p].pending = NoChange THEN "settled" ELSE "unsaved"])
  /\ UNCHANGED <<entryVars, post, written, risky>>

(* buildDraftChanges: the draft differs from what is published.            *)
Unpublished == draftText # liveText

(* loadDraftChanges, updateLauncherDraftState                              *)
Review(p) ==
  /\ Becomes(p, [page[p] EXCEPT !.saved = Unpublished])
  /\ UNCHANGED <<entryVars, post, written, risky>>

(* hydrateSavedDraftPreview, once after the page has loaded: the texts of  *)
(* the draft replace what the page shows and does not hold unsaved.  A     *)
(* page that began without changes then says that its draft is saved,      *)
(* although the author may have typed since.                               *)
Hydrate(p) ==
  /\ page[p].fresh # "no"
  /\ Becomes(p, [page[p] EXCEPT !.fresh = "no", !.saved = @ \/ Unpublished,
       !.status = IF page[p].fresh = "bare" /\ (page[p].saved \/ Unpublished)
                  THEN "settled" ELSE @,
       !.shown = [f \in Fields |->
         IF Unsaved(p, f) = NoText /\ page[p].editing # f THEN NoText ELSE Shown(p, f)]])
  /\ UNCHANGED <<entryVars, post, written, risky>>

(* validateBuilderChanges                                                  *)
Acceptable(changes) == \A f \in Compulsory : changes[f] # Empty

Send(r, p, changes, publish) ==
  /\ \A q \in Posts : IsPost(q, "idle") <=> q >= r
  /\ Moves(r, [pc |-> IF Acceptable(changes) THEN "auto" ELSE "failed",
               page |-> p, changes |-> changes, publish |-> publish,
               fill |-> {}, found |-> FALSE, heard |-> p # NoPage])
  /\ UNCHANGED <<entryVars, written, risky>>

(* submitContent: the save button is open after an edit or an error, the   *)
(* publish button over a saved draft when nothing is unsaved or awaited.   *)
Save(p, r) ==
  /\ page[p].status \in {"unsaved", "error"}
  /\ Committed(p) # NoChange
  /\ Becomes(p, [page[p] EXCEPT !.editing = NoField, !.before = NoText,
                                !.pending = Committed(p), !.status = "busy"])
  /\ Send(r, p, Committed(p), FALSE)

PublishPage(p, r) ==
  /\ page[p].status = "settled" /\ page[p].saved /\ Committed(p) = NoChange
  /\ Becomes(p, [page[p] EXCEPT !.editing = NoField, !.before = NoText, !.status = "busy"])
  /\ Send(r, p, NoChange, TRUE)

(* Another client of the route may publish what it changes.                *)
Call(r, w) == Send(r, NoPage, w.changes, w.publish) /\ UNCHANGED page

(* The page begins anew with a draft revision or without, and              *)
(* restorePendingChanges: the storage of the tab has what was pending.     *)
(* The requests of the page go on unheard.                                 *)
Reload(p) ==
  /\ \E saved \in {Unpublished, exists} :
       Becomes(p,
         [shown |-> Committed(p), pending |-> Committed(p), editing |-> NoField,
          before |-> NoText, saved |-> saved,
          fresh |-> IF Committed(p) = NoChange THEN "bare" ELSE "restored",
          status |-> IF Committed(p) = NoChange THEN "settled" ELSE "unsaved"])
  /\ post' = [r \in Posts |-> IF post[r].page = p
                              THEN Ended([post[r] EXCEPT !.heard = FALSE]) ELSE post[r]]
  /\ UNCHANGED <<entryVars, written, risky>>

(* Mutant: an answer of either kind clears what is pending.                *)
ForgottenAnyway(p, r) == IF post[r].publish THEN page[p].pending ELSE NoChange

(* Every pending change is forgotten after a save that went well, those    *)
(* typed since included.                                                   *)
StillPending(p, r) ==
  IF IsPost(r, "ready") /\ ~post[r].publish THEN NoChange ELSE page[p].pending

(* The answer reaches the page that awaits it.                             *)
Hear(r) ==
  /\ post[r].pc \in {"ready", "failed"} /\ post[r].heard
  /\ Moves(r, [post[r] EXCEPT !.heard = FALSE])
  /\ LET p == post[r].page
     IN  Becomes(p, [page[p] EXCEPT
           !.pending = StillPending(p, r),
           !.status = IF IsPost(r, "ready") THEN "settled" ELSE "error",
           !.saved = IF IsPost(r, "ready") THEN ~post[r].publish ELSE @])
  /\ UNCHANGED <<entryVars, written, risky>>

(* The connection is lost, and the request is served all the same.         *)
LoseTouch(r) ==
  /\ post[r].heard
  /\ Moves(r, [post[r] EXCEPT !.heard = FALSE])
  /\ LET p == post[r].page
     IN  Becomes(p, [page[p] EXCEPT !.status = "error"])
  /\ UNCHANGED <<entryVars, written, risky>>

-----------------------------------------------------------------------------
(* The save route.                                                         *)

Goes(r, from, to) ==
  /\ IsPost(r, from) /\ Moves(r, [post[r] EXCEPT !.pc = to, !.fill = {}])
  /\ UNCHANGED <<page, risky>>

(* bootstrapAstroPagesEmDashContent reads the row and decides.             *)
FindEmpty(r) ==
  LET empty == {f \in Fields : liveText[f] = Empty}
  IN  /\ post[r].pc \in {"auto", "full", "repair"}
      /\ exists /\ post[r].fill = {} /\ empty # {}
      /\ Moves(r, [post[r] EXCEPT !.fill = empty])
      /\ UNCHANGED <<entryVars, page, written, risky>>

(* It ends with nothing to do or a failure, with a new row of the defaults *)
(* (slug and locale are unique), or with the UPDATE, which fills what was  *)
(* found empty and drops the draft, whatever was published or saved since. *)
Bootstrapped(r) ==
  /\ \/ UNCHANGED entryVars
     \/ /\ ~exists
        /\ exists' = TRUE /\ liveText' = [f \in Fields |-> Default] /\ draftText' = liveText'
     \/ /\ post[r].fill # {}
        /\ liveText' = [f \in Fields |-> IF f \in post[r].fill THEN Default ELSE liveText[f]]
        /\ draftText' = liveText'
        /\ UNCHANGED exists
  /\ UNCHANGED written

(* Its failure is ignored.                                                 *)
AutoBootstrap(r) == Goes(r, "auto", "read") /\ Bootstrapped(r)

PublishOnly(r) == post[r].publish /\ post[r].changes = NoChange

(* readItem finds the entry, unless EmDash answers with an error.          *)
Looks(r, at, found, to) ==
  /\ IsPost(r, at) /\ (found => exists)
  /\ Moves(r, [post[r] EXCEPT !.found = found, !.pc = to])
  /\ UNCHANGED <<entryVars, page, written, risky>>

ReadItem(r) ==
  IF PublishOnly(r)
  THEN Looks(r, "read", TRUE, "publish") \/ Looks(r, "read", FALSE, "failed")
  ELSE Looks(r, "read", TRUE, "update") \/ Looks(r, "read", FALSE, "full")

FullBootstrap(r) == Bootstrapped(r) /\ \E to \in {"reread", "create"} : Goes(r, "full", to)

RereadItem(r) == Looks(r, "reread", TRUE, "update") \/ Looks(r, "reread", FALSE, "create")

(* Mutant: every field is sent, as by mergeBuilderChanges over defaults.   *)
MergedWhole(r, base) ==
  [f \in Fields |-> IF Names(r, f) THEN post[r].changes[f] ELSE Default]

(* storageData, merged by EmDash: what changed, and the default title when *)
(* the entry was not found.                                                *)
Merged(r, base) ==
  [f \in Fields |-> IF Names(r, f) THEN post[r].changes[f]
                    ELSE IF f = Title /\ ~post[r].found THEN Default
                    ELSE base[f]]

Noting(r) ==
  written' = [p \in Pages |-> [f \in Fields |->
                IF post[r].page = p /\ Names(r, f) THEN post[r].changes[f]
                ELSE written[p][f]]]

(* The slug and locale of an entry are unique.                             *)
CreateItem(r) ==
  \/ /\ ~exists /\ Goes(r, "create", "update")
     /\ exists' = TRUE
     /\ liveText' = Merged(r, [f \in Fields |-> Empty]) /\ draftText' = liveText'
     /\ Noting(r)
  \/ Goes(r, "create", "failed") /\ UNCHANGED <<entryVars, written>>

AfterSave(r) == IF post[r].publish THEN "publish" ELSE "ready"

(* updateItem, whose answer may be lost when it was carried out            *)
WriteDraft(r, from, to) ==
  /\ Goes(r, from, to)
  /\ draftText' = Merged(r, draftText)
  /\ Noting(r)
  /\ UNCHANGED <<exists, liveText>>

UpdateItem(r) ==
  \/ WriteDraft(r, "update", AfterSave(r)) \/ WriteDraft(r, "update", "repair")
  \/ Goes(r, "update", "repair") /\ UNCHANGED <<entryVars, written>>

RepairItem(r) == Bootstrapped(r) /\ \E to \in {"again", "failed"} : Goes(r, "repair", to)

RetryUpdate(r) ==
  \/ WriteDraft(r, "again", AfterSave(r)) \/ WriteDraft(r, "again", "failed")
  \/ Goes(r, "again", "failed") /\ UNCHANGED <<entryVars, written>>

(* handleContentPublish                                                    *)
PublishDraft(r) ==
  /\ UNCHANGED <<exists, draftText, written>>
  /\ \/ \E to \in {"ready", "failed"} : Goes(r, "publish", to) /\ liveText' = draftText
     \/ Goes(r, "publish", "failed") /\ UNCHANGED liveText

(* The request is refused, or its worker ends between two steps.           *)
Dies(r) ==
  /\ post[r].pc \in Serving
  /\ Goes(r, post[r].pc, "failed") /\ UNCHANGED <<entryVars, written>>

-----------------------------------------------------------------------------
OnPage(p) ==
  \/ \E e \in Edits : Edit(p, e[1])
  \/ \E t \in Text \cup {Empty} : Type(p, t)
  \/ \E escape \in BOOLEAN : PutBack(p, escape)
  \/ Blur(p) \/ FinishEditing(p) \/ Review(p) \/ Reload(p) \/ Hydrate(p)
  \/ \E r \in Posts : Save(p, r) \/ PublishPage(p, r)

OnPost(r) ==
  \/ \E w \in Calls : Call(r, w)
  \/ Hear(r) \/ LoseTouch(r) \/ Dies(r)
  \/ FindEmpty(r) \/ AutoBootstrap(r) \/ ReadItem(r) \/ FullBootstrap(r) \/ RereadItem(r)
  \/ CreateItem(r) \/ UpdateItem(r) \/ RepairItem(r) \/ RetryUpdate(r) \/ PublishDraft(r)

EditorNext == (\E p \in Pages : OnPage(p)) \/ (\E r \in Posts : OnPost(r))

EditorSpec == EditorInit /\ [][EditorNext]_editorVars

-----------------------------------------------------------------------------
(* Properties                                                              *)

(* A text the author typed into a page is one of its unsaved changes until *)
(* a save of the page has put it in the draft, whichever requests fail,    *)
(* are served unheard or twice, and whenever the page is reloaded.  The    *)
(* exceptions are exactly two: a text typed while an earlier save of the   *)
(* page was under way, and one put back to what was not saved either.      *)
EditsAreKept ==
  \A p \in Pages : \A f \in Fields \ risky[p] :
    Shown(p, f) # NoText => Shown(p, f) \in {Unsaved(p, f), written[p][f]}

WritesDraft(r) == post[r].pc \in {"update", "again"} /\ post'[r].pc # post[r].pc

(* A bootstrap drops the draft and fills only what it had found empty.     *)
Refills(r) ==
  /\ post[r].fill # {} /\ post'[r].fill = {}
  /\ draftText' = liveText'
  /\ \A f \in Fields \ post[r].fill : liveText'[f] = liveText[f]

(* Of an entry that is there, a save changes in the draft only the fields  *)
(* it names, so that authors of different fields do not undo each other.   *)
(* The exceptions are exactly two: the save that created the entry puts    *)
(* the default title, and a bootstrap drops the draft if it had found an   *)
(* empty live field when it read the entry, which need not be empty when   *)
(* it writes.                                                              *)
OnlyNamedFieldsChange ==
  [][\A f \in Fields : exists /\ draftText'[f] # draftText[f] =>
       \/ \E r \in Posts : WritesDraft(r) /\ Names(r, f)
       \/ f = Title /\ \E r \in Posts : WritesDraft(r) /\ ~post[r].found
       \/ \E r \in Posts : Refills(r)]_editorVars
=============================================================================
