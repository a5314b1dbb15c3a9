----------------------------- MODULE PageEditor -----------------------------
(***************************************************************************)
(* The visual page editor: tabs that edit one page and save its draft by   *)
(* themselves, and the server that keeps the draft, what is published, and *)
(* one numbered revision per publication.                                  *)
(*                                                                         *)
(* A tab has at most one save in flight (savingRef of useAutoSave) and one *)
(* other call: opening the page, publishing it, or reverting its draft to  *)
(* a revision.  A call the tab has given up, because the network failed or *)
(* the tab was closed, may still reach the server later, or never.         *)
(*                                                                         *)
(* Contents are numbered in the order they are typed.                      *)
(***************************************************************************)
EXTENDS Integers, Sequences, FiniteSets

CONSTANTS
    Editors,        \* the tabs
    RevisionCap,    \* REVISION_CAP
    MaxEdits,       \* bound: contents typed
    MaxVersion,     \* bound: a tab publishes below it
    MaxFailures,    \* bound: calls that fail in the network
    MaxLate         \* bound: calls given up and still under way

ASSUME PageEditorAssumption ==
    /\ IsFiniteSet(Editors)
    /\ RevisionCap \in Nat \ {0}
    /\ MaxEdits \in Nat /\ MaxVersion \in Nat /\ MaxFailures \in Nat /\ MaxLate \in Nat

VARIABLES
    origin,     \* page_origin
    page,       \* the row of editor_pages
    revisions,  \* the rows of editor_page_revisions, oldest first
    tab,
    late,       \* calls no tab waits for, still under way
    edits,      \* contents typed so far
    failures

vars == <<origin, page, revisions, tab, late, edits, failures>>

NoContent == -1                     \* null
Blank == 0                          \* EMPTY_PUCK_DATA, and the blank template
Content == Nat
OptContent == Content \cup {NoContent}

Page == [draft : OptContent, published : OptContent,
         version : Nat,             \* published_version, 0 for null
         deleted : BOOLEAN]
Revision == [version : Nat, content : Content]

Mode == {"closed", "opening", "editing", "saving first", "publishing", "reverting"}
Tab == [mode : Mode, content : Content, dirty : BOOLEAN,
        save : {"none", "sent", "stored", "failed"}, sending : Content,
        call : {"none", "sent", "done", "failed"}, target : Nat, result : Content,
        raced : BOOLEAN]            \* history: what the tab shows may have been overtaken

LateCall == [kind : {"save"}, arg : Content] \cup [kind : {"revert"}, arg : Nat]
                \cup [kind : {"publish"}, arg : {0}]

Closed == [mode |-> "closed", content |-> Blank, dirty |-> FALSE, save |-> "none",
           sending |-> Blank, call |-> "none", target |-> 0, result |-> Blank,
           raced |-> FALSE]

Init ==
    /\ origin \in {"hand-coded", "editor-created"}
    /\ page = [draft |-> IF origin = "editor-created" THEN Blank ELSE NoContent,
               published |-> NoContent, version |-> 0, deleted |-> FALSE]
    /\ revisions = IF origin = "editor-created"
                   THEN <<[version |-> 1, content |-> Blank]>> ELSE <<>>
    /\ tab = [e \in Editors |-> Closed]
    /\ late = {}
    /\ edits = 0
    /\ failures = 0

-----------------------------------------------------------------------------
(* The service *)

\* As if there were no fallbacks for a page that has no draft.
ShownDraftOnly == page.draft

\* What a tab that opens the page shows.
Shown == IF page.draft # NoContent THEN page.draft
         ELSE IF page.published # NoContent THEN page.published
         ELSE Blank

SaveAccepted == ~page.deleted
SaveDraft(c) == page' = [page EXCEPT !.draft = c]

Recorded == {revisions[i].version : i \in DOMAIN revisions}
NextVersion == page.version + 1
PublishAccepted ==
    /\ ~page.deleted
    /\ page.draft # NoContent
    /\ NextVersion \notin Recorded      \* uq_editor_revisions_page_version

\* As if the lowest number were dropped instead of the oldest revision.
KeepHighest(revs) ==
    IF Len(revs) <= RevisionCap THEN revs
    ELSE LET lowest == CHOOSE i \in DOMAIN revs :
                           \A j \in DOMAIN revs : revs[i].version <= revs[j].version
         IN  [k \in 1..(Len(revs) - 1) |-> IF k < lowest THEN revs[k] ELSE revs[k + 1]]

\* Only the newest RevisionCap revisions are kept.
KeepNewest(revs) == IF Len(revs) > RevisionCap THEN Tail(revs) ELSE revs

PublishDraft ==
    /\ page' = [page EXCEPT !.published = page.draft, !.version = NextVersion]
    /\ revisions' = KeepNewest(Append(revisions,
                        [version |-> NextVersion, content |-> page.draft]))

\* A deleted page can be reverted, too.
RevertAccepted(v) == v \in Recorded
RevertDraft(v) ==
    \E i \in DOMAIN revisions :
        /\ revisions[i].version = v
        /\ page' = [page EXCEPT !.draft = revisions[i].content]

-----------------------------------------------------------------------------
(* History: a tab has been overtaken when the draft is changed by anything  *)
(* but its own last call.                                                   *)

IsOpen(e) == tab[e].mode # "closed"

OvertakenBut(own) ==
    [e \in Editors |-> IF e \in own THEN tab[e]
                       ELSE [tab[e] EXCEPT !.raced = IsOpen(e)]]

-----------------------------------------------------------------------------
(* A tab: opening, typing, saving *)

Becomes(e, state) == tab' = [tab EXCEPT ![e] = state]
OnlyTab == UNCHANGED <<origin, page, revisions, late, edits, failures>>
Saving(e) == tab[e].save # "none"

Open(e) ==
    /\ tab[e].mode = "closed"
    /\ Becomes(e, [Closed EXCEPT !.mode = "opening", !.call = "sent"])
    /\ OnlyTab

HandleOpen(e) ==
    /\ tab[e].mode = "opening" /\ tab[e].call = "sent"
    /\ Becomes(e, [tab[e] EXCEPT !.call = "done", !.result = Shown, !.raced = FALSE])
    /\ OnlyTab

\* loadPage; an error leaves nothing but a button to try again.
AnswerOpen(e) ==
    /\ tab[e].mode = "opening" /\ tab[e].call \in {"done", "failed"}
    /\ Becomes(e, IF tab[e].call = "done"
                  THEN [tab[e] EXCEPT !.mode = "editing", !.call = "none",
                                      !.content = tab[e].result, !.result = Blank]
                  ELSE Closed)
    /\ OnlyTab

\* handleChange.  The dialogs of publishing and reverting cover the editor.
Change(e) ==
    /\ tab[e].mode = "editing"
    /\ edits < MaxEdits
    /\ edits' = edits + 1
    /\ Becomes(e, [tab[e] EXCEPT !.content = edits + 1, !.dirty = TRUE,
                                 !.raced = @ \/ Saving(e)])
    /\ UNCHANGED <<origin, page, revisions, late, failures>>

\* doSave: a tick of the interval, the Save button, or the preview.
StartSave(e) ==
    /\ tab[e].mode \in {"editing", "reverting"}
    /\ tab[e].dirty /\ ~Saving(e)
    /\ Becomes(e, [tab[e] EXCEPT !.save = "sent", !.sending = tab[e].content,
                                 !.raced = @ \/ tab[e].mode = "reverting"])
    /\ OnlyTab

\* No version is compared: the last save wins.
HandleSave(e) ==
    /\ tab[e].save = "sent"
    /\ IF SaveAccepted
       THEN /\ SaveDraft(tab[e].sending)
            /\ tab' = [OvertakenBut({e}) EXCEPT ![e] =
                          [tab[e] EXCEPT !.save = "stored",
                             !.raced = @ /\ (\/ tab[e].mode \notin {"editing", "saving first"}
                                             \/ tab[e].content # tab[e].sending)]]
       ELSE /\ Becomes(e, [tab[e] EXCEPT !.save = "failed"])
            /\ UNCHANGED page
    /\ UNCHANGED <<origin, revisions, late, edits, failures>>

\* As if onSaved were called in the finally block.
AnswerSaveAlwaysClean(e) ==
    /\ tab[e].save \in {"stored", "failed"}
    /\ Becomes(e, [tab[e] EXCEPT
           !.save = "none", !.sending = Blank, !.dirty = FALSE,
           !.mode = IF @ = "saving first" THEN "publishing" ELSE @,
           !.call = IF tab[e].mode = "saving first" THEN "sent" ELSE @])
    /\ OnlyTab

\* As if savingRef were left set when a save fails.
AnswerSaveStuck(e) ==
    /\ tab[e].save = "stored"
    /\ Becomes(e, [tab[e] EXCEPT
           !.save = "none", !.sending = Blank, !.dirty = FALSE,
           !.mode = IF @ = "saving first" THEN "publishing" ELSE @,
           !.call = IF tab[e].mode = "saving first" THEN "sent" ELSE @])
    /\ OnlyTab

\* onSaved marks the page clean, whatever was typed since the save was sent; a
\* publication that waited for the save goes on, whether or not it succeeded.
AnswerSave(e) ==
    /\ tab[e].save \in {"stored", "failed"}
    /\ Becomes(e, [tab[e] EXCEPT
           !.save = "none", !.sending = Blank,
           !.dirty = @ /\ tab[e].save = "failed",
           !.mode = IF @ = "saving first" THEN "publishing" ELSE @,
           !.call = IF tab[e].mode = "saving first" THEN "sent" ELSE @])
    /\ OnlyTab

-----------------------------------------------------------------------------
(* Publishing and reverting *)

\* handlePublish: saveNow does nothing while a save is in flight.
Publish(e) ==
    /\ tab[e].mode = "editing"
    /\ page.version < MaxVersion
    /\ Becomes(e, IF tab[e].dirty /\ ~Saving(e)
                  THEN [tab[e] EXCEPT !.mode = "saving first", !.save = "sent",
                                      !.sending = tab[e].content]
                  ELSE [tab[e] EXCEPT !.mode = "publishing", !.call = "sent",
                                      !.raced = @ \/ Saving(e)])
    /\ OnlyTab

HandlePublish(e) ==
    /\ tab[e].mode = "publishing" /\ tab[e].call = "sent"
    /\ IF PublishAccepted
       THEN /\ PublishDraft
            /\ Becomes(e, [tab[e] EXCEPT !.call = "done", !.result = page.draft,
                                         !.raced = @ /\ Saving(e)])
       ELSE /\ Becomes(e, [tab[e] EXCEPT !.call = "failed"])
            /\ UNCHANGED <<page, revisions>>
    /\ UNCHANGED <<origin, late, edits, failures>>

\* The tab shows the draft that came back and is clean.
AnswerPublish(e) ==
    /\ tab[e].mode = "publishing" /\ tab[e].call \in {"done", "failed"}
    /\ Becomes(e, IF tab[e].call = "done"
                  THEN [tab[e] EXCEPT !.mode = "editing", !.call = "none",
                                      !.content = tab[e].result, !.result = Blank,
                                      !.dirty = FALSE]
                  ELSE [tab[e] EXCEPT !.mode = "editing", !.call = "none"])
    /\ OnlyTab

\* handleRevert of the history drawer, whose list may be out of date.
Revert(e, v) ==
    /\ tab[e].mode = "editing"
    /\ Becomes(e, [tab[e] EXCEPT !.mode = "reverting", !.call = "sent", !.target = v,
                                 !.raced = @ \/ Saving(e)])
    /\ OnlyTab

HandleRevert(e) ==
    /\ tab[e].mode = "reverting" /\ tab[e].call = "sent"
    /\ IF RevertAccepted(tab[e].target)
       THEN /\ RevertDraft(tab[e].target)
            /\ tab' = [OvertakenBut({e}) EXCEPT ![e] =
                          [tab[e] EXCEPT !.call = "done", !.result = page'.draft]]
       ELSE /\ Becomes(e, [tab[e] EXCEPT !.call = "failed"])
            /\ UNCHANGED page
    /\ UNCHANGED <<origin, revisions, late, edits, failures>>

\* handleReverted: the tab shows the reverted draft, and is dirty although the
\* server has it.
AnswerRevert(e) ==
    /\ tab[e].mode = "reverting" /\ tab[e].call \in {"done", "failed"}
    /\ Becomes(e, IF tab[e].call = "done"
                  THEN [tab[e] EXCEPT !.mode = "editing", !.call = "none", !.target = 0,
                                      !.content = tab[e].result, !.result = Blank,
                                      !.dirty = TRUE]
                  ELSE [tab[e] EXCEPT !.mode = "editing", !.call = "none", !.target = 0])
    /\ OnlyTab

-----------------------------------------------------------------------------
(* The list of pages *)

OnlyPage == UNCHANGED <<origin, revisions, late, edits, failures>>

Delete ==
    /\ origin = "editor-created" /\ ~page.deleted
    /\ page' = [page EXCEPT !.deleted = TRUE]
    /\ UNCHANGED tab /\ OnlyPage

Undelete ==
    /\ page.deleted
    /\ page' = [page EXCEPT !.deleted = FALSE]
    /\ UNCHANGED tab /\ OnlyPage

\* The revisions keep their numbers, and the numbers start again.
RevertToFallback ==
    /\ origin = "hand-coded"
    /\ page' = [page EXCEPT !.draft = NoContent, !.published = NoContent, !.version = 0]
    /\ tab' = OvertakenBut({})
    /\ OnlyPage

-----------------------------------------------------------------------------
(* Failures *)

\* What tab e leaves under way when it gives up its save or its call.
LateSave(e) == [kind |-> "save", arg |-> tab[e].sending]
LateOther(e) == IF tab[e].mode = "reverting"
                THEN [kind |-> "revert", arg |-> tab[e].target]
                ELSE [kind |-> "publish", arg |-> 0]

Writes(e) == (IF tab[e].save = "sent" THEN {LateSave(e)} ELSE {})
             \cup (IF tab[e].call = "sent" /\ tab[e].mode \in {"publishing", "reverting"}
                   THEN {LateOther(e)} ELSE {})

\* Leaving the page aborts what is in flight.
Close(e) ==
    /\ IsOpen(e)
    /\ \E left \in SUBSET Writes(e) :
           /\ late' = late \cup left
           /\ Cardinality(late') <= MaxLate
    /\ Becomes(e, Closed)
    /\ UNCHANGED <<origin, page, revisions, edits, failures>>

\* The tab hears of an error before the server has answered, or instead of the answer.
LosesSave(e) ==
    /\ tab[e].save \in {"sent", "stored"}
    /\ failures < MaxFailures
    /\ failures' = failures + 1
    /\ \E left \in SUBSET (Writes(e) \cap {LateSave(e)}) :
           /\ late' = late \cup left
           /\ Cardinality(late') <= MaxLate
    /\ Becomes(e, [tab[e] EXCEPT !.save = "failed"])
    /\ UNCHANGED <<origin, page, revisions, edits>>

LosesCall(e) ==
    /\ tab[e].call \in {"sent", "done"}
    /\ failures < MaxFailures
    /\ failures' = failures + 1
    /\ \E left \in SUBSET (Writes(e) \ {LateSave(e)}) :
           /\ late' = late \cup left
           /\ Cardinality(late') <= MaxLate
    /\ Becomes(e, [tab[e] EXCEPT !.call = "failed", !.result = Blank,
                                 !.raced = @ \/ tab[e].call = "done"])
    /\ UNCHANGED <<origin, page, revisions, edits>>

\* A call nobody waits for is handled after all, or never.
HandleLate(m) ==
    /\ m \in late
    /\ late' = late \ {m}
    /\ \/ /\ m.kind = "save" /\ SaveAccepted
          /\ SaveDraft(m.arg) /\ tab' = OvertakenBut({})
          /\ UNCHANGED revisions
       \/ /\ m.kind = "revert" /\ RevertAccepted(m.arg)
          /\ RevertDraft(m.arg) /\ tab' = OvertakenBut({})
          /\ UNCHANGED revisions
       \/ /\ m.kind = "publish" /\ PublishAccepted
          /\ page.version < MaxVersion
          /\ PublishDraft /\ UNCHANGED tab
       \/ UNCHANGED <<page, revisions, tab>>
    /\ UNCHANGED <<origin, edits, failures>>

-----------------------------------------------------------------------------
TabStep(e) ==
    \/ Open(e) \/ HandleOpen(e) \/ AnswerOpen(e)
    \/ Change(e) \/ StartSave(e) \/ HandleSave(e) \/ AnswerSave(e)
    \/ Publish(e) \/ HandlePublish(e) \/ AnswerPublish(e)
    \/ \E v \in 1..MaxVersion : Revert(e, v)
    \/ HandleRevert(e) \/ AnswerRevert(e)
    \/ Close(e) \/ LosesSave(e) \/ LosesCall(e)

ListStep == Delete \/ Undelete \/ RevertToFallback

Next ==
    \/ \E e \in Editors : TabStep(e)
    \/ ListStep
    \/ \E m \in late : HandleLate(m)

Spec == Init /\ [][Next]_vars

\* The interval ticks, the server answers and the tab takes the answer; what a
\* person does, and what fails, has no fairness.
SaveGoesOn(e) == HandleSave(e) \/ AnswerSave(e)
CallGoesOn(e) ==
    \/ HandleOpen(e) \/ AnswerOpen(e)
    \/ HandlePublish(e) \/ AnswerPublish(e)
    \/ HandleRevert(e) \/ AnswerRevert(e)

Fairness ==
    \A e \in Editors :
        WF_vars(StartSave(e)) /\ WF_vars(SaveGoesOn(e)) /\ WF_vars(CallGoesOn(e))

FairSpec == Spec /\ Fairness

-----------------------------------------------------------------------------
(* Properties *)

\* Types of the rows, the tabs and the calls under way.
TypeOK ==
    /\ origin \in {"hand-coded", "editor-created"}
    /\ page \in Page
    /\ revisions \in Seq(Revision)
    /\ tab \in [Editors -> Tab]
    /\ late \subseteq LateCall
    /\ edits \in Nat /\ failures \in Nat

\* What visitors see is the newest revision of the history, under its number, whatever
\* publications, reverts, prunings and returns to the fallback came before (publish_page,
\* _enforce_revision_cap, revert_to_fallback_endpoint).
PublishedIsNewestRevision ==
    page.published # NoContent =>
        /\ revisions # <<>>
        /\ revisions[Len(revisions)] = [version |-> page.version, content |-> page.published]

\* A tab that says it has nothing to save, and whose draft nothing else has changed since,
\* shows the draft the server holds: after failed, lost and late calls, publications and
\* reverts (onSaved, handlePublish and handleReverted of PageEditorEdit).
CleanShowsTheDraft ==
    \A e \in Editors :
        tab[e].mode \in {"editing", "saving first"} /\ ~tab[e].dirty /\ ~tab[e].raced
            => tab[e].content = Shown

\* What an open tab shows and counts as changed is stored by the server in the end, failed
\* and lost saves before it notwithstanding: until then it is replaced (typed over, or by
\* the answer of a publication or a revert), the tab is left, or the page is deleted.  The
\* property says nothing of what is typed while a save is under way, which onSaved marks
\* clean with the rest (doSave and the interval of useAutoSave).
SettledEditsAreStored ==
    \A e \in Editors, c \in 1..MaxEdits :
        (/\ tab[e].mode = "editing" /\ tab[e].dirty /\ tab[e].content = c
         /\ tab[e].save = "none" \/ (tab[e].save = "sent" /\ tab[e].sending = c))
        ~> (\/ page.draft = c
            \/ tab[e].content # c \/ tab[e].mode = "closed" \/ page.deleted)

\* A page that says it is clean holds nothing the server has never stored: "True when
\* content has changed since the last successful save" (isDirty, useAutoSave.ts:30).
CleanMeansSaved ==
    [][\A e \in Editors :
          AnswerSave(e) /\ tab[e].save = "stored" /\ ~tab'[e].dirty
              => tab[e].content = tab[e].sending]_vars

\* The first publication of a page with a draft gets number 1: "Increment
\* published_version (or set to 1 if first publish)" (publish_page).
FirstPublicationSucceeds ==
    [][\A e \in Editors :
          HandlePublish(e) /\ page.version = 0 /\ page.draft # NoContent /\ ~page.deleted
              => page'.version = 1]_vars

=============================================================================
