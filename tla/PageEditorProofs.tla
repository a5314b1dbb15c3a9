-------------------------- MODULE PageEditorProofs --------------------------
(* Proofs about PageEditor for any number of tabs, any cap and any bounds. *)
EXTENDS PageEditor, SequenceTheorems, TLAPS

\* What relates a tab to the draft s that a fresh tab would show.
Coherent(t, s) ==
    /\ (t.mode \in {"editing", "saving first"}
          \/ (t.mode \in {"publishing", "reverting"} /\ t.call # "done"))
          => (~t.dirty /\ ~t.raced => t.content = s)
    /\ t.mode \in {"opening", "publishing"} /\ t.call = "done" /\ ~t.raced => t.result = s
    /\ t.mode \in {"publishing", "reverting"} /\ t.save # "none" => t.raced
    /\ t.save = "stored" /\ ~t.raced => t.content = s
    /\ t.save = "sent" /\ ~t.raced => t.content = t.sending
    /\ t.mode \in {"closed", "opening"} => t.save = "none"

AllCoherent == \A e \in Editors : Coherent(tab[e], Shown)
-----------------------------------------------------------------------------
(* Types *)

LEMMA InitTyped == Init => TypeOK
<1> SUFFICES ASSUME Init PROVE TypeOK
  OBVIOUS
<1>1. Closed \in Tab
  BY DEF Closed, Tab, Mode, Content, Blank
<1>2. page \in Page
  BY DEF Init, Page, OptContent, Content, NoContent, Blank
<1>3. revisions \in Seq(Revision)
  <2>1. [version |-> 1, content |-> Blank] \in Revision
    BY DEF Revision, Content, Blank
  <2> HIDE DEF Revision
  <2>2. <<[version |-> 1, content |-> Blank]>> \in Seq(Revision)
    BY <2>1
  <2> QED BY <2>2 DEF Init
<1> QED BY <1>1, <1>2, <1>3 DEF Init, TypeOK

\* A tab that becomes another well-formed one.
LEMMA BecomesTyped ==
    ASSUME tab \in [Editors -> Tab], NEW e \in Editors, NEW t \in Tab, Becomes(e, t)
    PROVE  /\ tab' \in [Editors -> Tab]
           /\ tab'[e] = t
           /\ \A f \in Editors : f # e => tab'[f] = tab[f]
BY DEF Becomes

\* Marking tabs as overtaken changes nothing else.
LEMMA OvertakenTyped ==
    ASSUME tab \in [Editors -> Tab], NEW own \in SUBSET Editors
    PROVE  /\ OvertakenBut(own) \in [Editors -> Tab]
           /\ \A e \in own : OvertakenBut(own)[e] = tab[e]
           /\ \A e \in Editors \ own :
                 /\ OvertakenBut(own)[e].mode = tab[e].mode
                 /\ OvertakenBut(own)[e].save = tab[e].save
                 /\ tab[e].mode # "closed" => OvertakenBut(own)[e].raced = TRUE
<1>1. \A e \in own : OvertakenBut(own)[e] = tab[e]
  BY DEF OvertakenBut
<1>2. \A e \in Editors \ own :
         OvertakenBut(own)[e] = [tab[e] EXCEPT !.raced = tab[e].mode # "closed"]
  BY DEF OvertakenBut, IsOpen
<1>3. \A t \in Tab : LET u == [t EXCEPT !.raced = t.mode # "closed"]
                    IN  /\ u \in Tab /\ u.mode = t.mode /\ u.save = t.save
                        /\ t.mode # "closed" => u.raced = TRUE
  BY DEF Tab
<1>4. \A e \in Editors : OvertakenBut(own)[e] \in Tab
  BY <1>1, <1>2, <1>3
<1>5. OvertakenBut(own) = [e \in Editors |-> OvertakenBut(own)[e]]
  BY Zenon DEF OvertakenBut
<1>6. OvertakenBut(own) \in [Editors -> Tab]
  BY <1>4, <1>5
<1> QED BY <1>1, <1>2, <1>3, <1>6

\* What the service does to the rows.
LEMMA SaveTyped ==
    ASSUME page \in Page, NEW c \in Content, SaveDraft(c)
    PROVE  page' \in Page /\ Shown' = c
BY DEF SaveDraft, Page, OptContent, Shown, Content, NoContent

LEMMA ShownTyped ==
    ASSUME page \in Page
    PROVE  Shown \in Content
BY DEF Page, OptContent, Shown, Content, NoContent, Blank

LEMMA RevertTyped ==
    ASSUME page \in Page, revisions \in Seq(Revision), NEW v, RevertDraft(v)
    PROVE  /\ page' \in Page
           /\ page'.draft \in Content
           /\ Shown' = page'.draft
           /\ page'.published = page.published /\ page'.version = page.version
<1>1. PICK i \in DOMAIN revisions : page' = [page EXCEPT !.draft = revisions[i].content]
  BY DEF RevertDraft
<1>2. revisions[i] \in Revision
  OBVIOUS
<1>3. revisions[i].content \in Content
  BY <1>2 DEF Revision
<1> QED BY <1>1, <1>3 DEF Page, OptContent, Shown, Content, NoContent

\* The revision just written is the newest one, whatever was pruned.
LEMMA PublishTyped ==
    ASSUME page \in Page, revisions \in Seq(Revision), PublishAccepted, PublishDraft
    PROVE  /\ page' \in Page
           /\ page.draft \in Content
           /\ Shown' = Shown /\ Shown = page.draft
           /\ revisions' \in Seq(Revision) /\ revisions' # <<>>
           /\ revisions'[Len(revisions')]
                 = [version |-> page'.version, content |-> page'.published]
<1> DEFINE new == [version |-> NextVersion, content |-> page.draft]
<1>1. page.draft \in Content /\ NextVersion \in Nat
  BY DEF PublishAccepted, Page, OptContent, NextVersion
<1>2. /\ page' \in Page
      /\ page'.version = NextVersion /\ page'.published = page.draft
      /\ page'.draft = page.draft
  <2>1. page' = [page EXCEPT !.published = page.draft, !.version = NextVersion]
    BY DEF PublishDraft
  <2> QED BY <1>1, <2>1 DEF Page, OptContent
<1>3. Shown' = Shown /\ Shown = page.draft
  BY <1>2 DEF Shown, PublishAccepted
<1>4. new \in Revision
  BY <1>1 DEF Revision
<1> HIDE DEF new
<1>5. /\ Append(revisions, new) \in Seq(Revision)
      /\ Len(Append(revisions, new)) = Len(revisions) + 1
      /\ Len(revisions) \in Nat
      /\ Append(revisions, new)[Len(revisions) + 1] = new
  BY <1>4
<1>6. revisions' = KeepNewest(Append(revisions, new))
  BY DEF PublishDraft, new
<1>7. /\ revisions' \in Seq(Revision) /\ revisions' # <<>>
      /\ revisions'[Len(revisions')] = new
  <2>1. CASE Len(Append(revisions, new)) > RevisionCap
    <3> DEFINE s == Append(revisions, new)
    <3>1. s \in Seq(Revision) /\ Len(s) > 1 /\ s[Len(s)] = new
      BY <2>1, <1>5, PageEditorAssumption
    <3> HIDE DEF s
    <3>2. Tail(s) \in Seq(Revision) /\ Len(Tail(s)) = Len(s) - 1
          /\ Tail(s)[Len(s) - 1] = s[Len(s)]
      BY <3>1
    <3>3. revisions' = Tail(s)
      BY <2>1, <1>6 DEF KeepNewest, s
    <3>4. Tail(s)[Len(Tail(s))] = new
      BY <3>1, <3>2
    <3>5. Tail(s) # <<>>
      BY <3>1, <3>2, EmptySeq
    <3> QED BY <3>2, <3>3, <3>4, <3>5
  <2>2. CASE ~(Len(Append(revisions, new)) > RevisionCap)
    <3>1. revisions' = Append(revisions, new)
      BY <2>2, <1>6 DEF KeepNewest
    <3>2. Append(revisions, new) # <<>>
      BY <1>5
    <3> QED BY <3>1, <3>2, <1>5
  <2> QED BY <2>1, <2>2
<1> QED BY <1>1, <1>2, <1>3, <1>7 DEF new

-----------------------------------------------------------------------------
(* Coherence of the tabs, by the shape of a step *)

\* A step of one tab that leaves the draft alone.
LEMMA OwnStep ==
    ASSUME TypeOK, AllCoherent, NEW e \in Editors, NEW t \in Tab, Becomes(e, t),
           Shown' = Shown, Coherent(t, Shown)
    PROVE  tab' \in [Editors -> Tab] /\ AllCoherent'
<1>1. tab \in [Editors -> Tab]
  BY DEF TypeOK
<1> QED BY <1>1, BecomesTyped DEF AllCoherent

\* A change of the draft that no tab made.
LEMMA OthersCoherent ==
    ASSUME TypeOK, AllCoherent, NEW own \in SUBSET Editors, NEW s
    PROVE  \A e \in Editors \ own : Coherent(OvertakenBut(own)[e], s)
<1> SUFFICES ASSUME NEW e \in Editors, e \notin own
             PROVE  Coherent(OvertakenBut(own)[e], s)
  OBVIOUS
<1> DEFINE t == OvertakenBut(own)[e]
<1>1. tab \in [Editors -> Tab] /\ Coherent(tab[e], Shown)
  BY DEF TypeOK, AllCoherent
<1>2. t.mode = tab[e].mode /\ t.save = tab[e].save /\ (tab[e].mode # "closed" => t.raced = TRUE)
      /\ t \in Tab
  BY <1>1, OvertakenTyped
<1> SUFFICES Coherent(t, s)
  BY DEF t
<1> HIDE DEF t
<1>3. t.mode \in {"closed", "opening"} => t.save = "none"
  BY <1>1, <1>2 DEF Coherent
<1>4. CASE t.mode = "closed"
  BY <1>2, <1>3, <1>4 DEF Coherent, Tab
<1>5. CASE t.mode # "closed"
  BY <1>2, <1>3, <1>5 DEF Coherent, Tab
<1> QED BY <1>4, <1>5

LEMMA OvertakenStep ==
    ASSUME TypeOK, AllCoherent, tab' = OvertakenBut({})
    PROVE  tab' \in [Editors -> Tab] /\ AllCoherent'
<1>1. tab \in [Editors -> Tab]
  BY DEF TypeOK
<1>2. tab' \in [Editors -> Tab]
  BY <1>1, OvertakenTyped
<1>3. \A e \in Editors : Coherent(tab'[e], Shown')
  BY OthersCoherent
<1> QED BY <1>2, <1>3 DEF AllCoherent

\* A change of the draft that tab e made.
LEMMA WriteStep ==
    ASSUME TypeOK, AllCoherent, NEW e \in Editors, NEW t \in Tab,
           tab' = [OvertakenBut({e}) EXCEPT ![e] = t], Coherent(t, Shown')
    PROVE  tab' \in [Editors -> Tab] /\ AllCoherent'
<1>1. tab \in [Editors -> Tab]
  BY DEF TypeOK
<1>2. OvertakenBut({e}) \in [Editors -> Tab]
  BY <1>1, OvertakenTyped
<1>3. tab' \in [Editors -> Tab] /\ tab'[e] = t
      /\ \A f \in Editors \ {e} : tab'[f] = OvertakenBut({e})[f]
  BY <1>2
<1>4. \A f \in Editors \ {e} : Coherent(tab'[f], Shown')
  BY <1>3, OthersCoherent
<1> QED BY <1>3, <1>4 DEF AllCoherent

-----------------------------------------------------------------------------
(* Steps that only a tab takes *)

LEMMA OpenCoherent ==
    ASSUME TypeOK, AllCoherent, NEW e \in Editors, Open(e)
    PROVE  TypeOK' /\ AllCoherent'
<1> DEFINE t == [Closed EXCEPT !.mode = "opening", !.call = "sent"]
<1>1. tab[e] \in Tab /\ edits \in Nat /\ Coherent(tab[e], Shown) /\ Shown \in Content
  BY ShownTyped DEF TypeOK, AllCoherent
<1>2. Becomes(e, t) /\ UNCHANGED <<origin, page, revisions, late, failures>> /\ edits' \in Nat
  BY <1>1 DEF Open, OnlyTab
<1>3. t \in Tab
  BY <1>1 DEF Open, Closed, Tab, Mode, Content, Blank
<1>4. Coherent(t, Shown)
  BY <1>1 DEF Open, Closed, Tab, Mode, Coherent
<1>5. Shown' = Shown
  BY <1>2 DEF Shown
<1> HIDE DEF t
<1>6. tab' \in [Editors -> Tab] /\ AllCoherent'
  BY <1>2, <1>3, <1>4, <1>5, OwnStep
<1> QED BY <1>2, <1>6 DEF TypeOK

LEMMA HandleOpenCoherent ==
    ASSUME TypeOK, AllCoherent, NEW e \in Editors, HandleOpen(e)
    PROVE  TypeOK' /\ AllCoherent'
<1> DEFINE t == [tab[e] EXCEPT !.call = "done", !.result = Shown, !.raced = FALSE]
<1>1. tab[e] \in Tab /\ edits \in Nat /\ Coherent(tab[e], Shown) /\ Shown \in Content
  BY ShownTyped DEF TypeOK, AllCoherent
<1>2. Becomes(e, t) /\ UNCHANGED <<origin, page, revisions, late, failures>> /\ edits' \in Nat
  BY <1>1 DEF HandleOpen, OnlyTab
<1>3. t \in Tab
  BY <1>1 DEF HandleOpen, Tab, Mode, Content, Blank
<1>4. Coherent(t, Shown)
  BY <1>1 DEF HandleOpen, Tab, Mode, Coherent
<1>5. Shown' = Shown
  BY <1>2 DEF Shown
<1> HIDE DEF t
<1>6. tab' \in [Editors -> Tab] /\ AllCoherent'
  BY <1>2, <1>3, <1>4, <1>5, OwnStep
<1> QED BY <1>2, <1>6 DEF TypeOK

LEMMA AnswerOpenCoherent ==
    ASSUME TypeOK, AllCoherent, NEW e \in Editors, AnswerOpen(e)
    PROVE  TypeOK' /\ AllCoherent'
<1> DEFINE t == IF tab[e].call = "done"
                  THEN [tab[e] EXCEPT !.mode = "editing", !.call = "none",
                                      !.content = tab[e].result, !.result = Blank]
                  ELSE Closed
<1>1. tab[e] \in Tab /\ edits \in Nat /\ Coherent(tab[e], Shown) /\ Shown \in Content
  BY ShownTyped DEF TypeOK, AllCoherent
<1>2. Becomes(e, t) /\ UNCHANGED <<origin, page, revisions, late, failures>> /\ edits' \in Nat
  BY <1>1 DEF AnswerOpen, OnlyTab
<1>3. t \in Tab
  BY <1>1 DEF AnswerOpen, Closed, Tab, Mode, Content, Blank
<1>4. Coherent(t, Shown)
  BY <1>1 DEF AnswerOpen, Closed, Tab, Mode, Coherent
<1>5. Shown' = Shown
  BY <1>2 DEF Shown
<1> HIDE DEF t
<1>6. tab' \in [Editors -> Tab] /\ AllCoherent'
  BY <1>2, <1>3, <1>4, <1>5, OwnStep
<1> QED BY <1>2, <1>6 DEF TypeOK

LEMMA ChangeCoherent ==
    ASSUME TypeOK, AllCoherent, NEW e \in Editors, Change(e)
    PROVE  TypeOK' /\ AllCoherent'
<1> DEFINE t == [tab[e] EXCEPT !.content = edits + 1, !.dirty = TRUE, !.raced = @ \/ Saving(e)]
<1>1. tab[e] \in Tab /\ edits \in Nat /\ Coherent(tab[e], Shown) /\ Shown \in Content
  BY ShownTyped DEF TypeOK, AllCoherent
<1>2. Becomes(e, t) /\ UNCHANGED <<origin, page, revisions, late, failures>> /\ edits' \in Nat
  BY <1>1 DEF Change, OnlyTab
<1>3. t \in Tab
  <2>1. \A n \in Content :
           [tab[e] EXCEPT !.content = n, !.dirty = TRUE, !.raced = @ \/ Saving(e)] \in Tab
    BY <1>1 DEF Saving, Tab
  <2>2. edits + 1 \in Content
    BY <1>1 DEF Content
  <2> QED BY <2>1, <2>2
<1>4. Coherent(t, Shown)
  BY <1>1 DEF Change, Saving, Tab, Mode, Coherent
<1>5. Shown' = Shown
  BY <1>2 DEF Shown
<1> HIDE DEF t
<1>6. tab' \in [Editors -> Tab] /\ AllCoherent'
  BY <1>2, <1>3, <1>4, <1>5, OwnStep
<1> QED BY <1>2, <1>6 DEF TypeOK

LEMMA StartSaveCoherent ==
    ASSUME TypeOK, AllCoherent, NEW e \in Editors, StartSave(e)
    PROVE  TypeOK' /\ AllCoherent'
<1> DEFINE t == [tab[e] EXCEPT !.save = "sent", !.sending = tab[e].content,
                                 !.raced = @ \/ tab[e].mode = "reverting"]
<1>1. tab[e] \in Tab /\ edits \in Nat /\ Coherent(tab[e], Shown) /\ Shown \in Content
  BY ShownTyped DEF TypeOK, AllCoherent
<1>2. Becomes(e, t) /\ UNCHANGED <<origin, page, revisions, late, failures>> /\ edits' \in Nat
  BY <1>1 DEF StartSave, OnlyTab
<1>3. t \in Tab
  BY <1>1 DEF StartSave, Saving, Tab, Mode, Content, Blank
<1>4. Coherent(t, Shown)
  BY <1>1 DEF StartSave, Saving, Tab, Mode, Coherent
<1>5. Shown' = Shown
  BY <1>2 DEF Shown
<1> HIDE DEF t
<1>6. tab' \in [Editors -> Tab] /\ AllCoherent'
  BY <1>2, <1>3, <1>4, <1>5, OwnStep
<1> QED BY <1>2, <1>6 DEF TypeOK

LEMMA AnswerSaveCoherent ==
    ASSUME TypeOK, AllCoherent, NEW e \in Editors, AnswerSave(e)
    PROVE  TypeOK' /\ AllCoherent'
<1> DEFINE t == [tab[e] EXCEPT
           !.save = "none", !.sending = Blank,
           !.dirty = @ /\ tab[e].save = "failed",
           !.mode = IF @ = "saving first" THEN "publishing" ELSE @,
           !.call = IF tab[e].mode = "saving first" THEN "sent" ELSE @]
<1>1. tab[e] \in Tab /\ edits \in Nat /\ Coherent(tab[e], Shown) /\ Shown \in Content
  BY ShownTyped DEF TypeOK, AllCoherent
<1>2. Becomes(e, t) /\ UNCHANGED <<origin, page, revisions, late, failures>> /\ edits' \in Nat
  BY <1>1 DEF AnswerSave, OnlyTab
<1>3. t \in Tab
  BY <1>1 DEF AnswerSave, Tab, Mode, Content, Blank
<1>4. Coherent(t, Shown)
  BY <1>1 DEF AnswerSave, Tab, Mode, Coherent
<1>5. Shown' = Shown
  BY <1>2 DEF Shown
<1> HIDE DEF t
<1>6. tab' \in [Editors -> Tab] /\ AllCoherent'
  BY <1>2, <1>3, <1>4, <1>5, OwnStep
<1> QED BY <1>2, <1>6 DEF TypeOK

LEMMA PublishCoherent ==
    ASSUME TypeOK, AllCoherent, NEW e \in Editors, Publish(e)
    PROVE  TypeOK' /\ AllCoherent'
<1> DEFINE t == IF tab[e].dirty /\ ~Saving(e)
                  THEN [tab[e] EXCEPT !.mode = "saving first", !.save = "sent",
                                      !.sending = tab[e].content]
                  ELSE [tab[e] EXCEPT !.mode = "publishing", !.call = "sent",
                                      !.raced = @ \/ Saving(e)]
<1>1. tab[e] \in Tab /\ edits \in Nat /\ Coherent(tab[e], Shown) /\ Shown \in Content
  BY ShownTyped DEF TypeOK, AllCoherent
<1>2. Becomes(e, t) /\ UNCHANGED <<origin, page, revisions, late, failures>> /\ edits' \in Nat
  BY <1>1 DEF Publish, OnlyTab
<1>3. t \in Tab
  BY <1>1 DEF Publish, Saving, Tab, Mode, Content, Blank
<1>4. Coherent(t, Shown)
  BY <1>1 DEF Publish, Saving, Tab, Mode, Coherent
<1>5. Shown' = Shown
  BY <1>2 DEF Shown
<1> HIDE DEF t
<1>6. tab' \in [Editors -> Tab] /\ AllCoherent'
  BY <1>2, <1>3, <1>4, <1>5, OwnStep
<1> QED BY <1>2, <1>6 DEF TypeOK

LEMMA AnswerPublishCoherent ==
    ASSUME TypeOK, AllCoherent, NEW e \in Editors, AnswerPublish(e)
    PROVE  TypeOK' /\ AllCoherent'
<1> DEFINE t == IF tab[e].call = "done"
                  THEN [tab[e] EXCEPT !.mode = "editing", !.call = "none",
                                      !.content = tab[e].result, !.result = Blank,
                                      !.dirty = FALSE]
                  ELSE [tab[e] EXCEPT !.mode = "editing", !.call = "none"]
<1>1. tab[e] \in Tab /\ edits \in Nat /\ Coherent(tab[e], Shown) /\ Shown \in Content
  BY ShownTyped DEF TypeOK, AllCoherent
<1>2. Becomes(e, t) /\ UNCHANGED <<origin, page, revisions, late, failures>> /\ edits' \in Nat
  BY <1>1 DEF AnswerPublish, OnlyTab
<1>3. t \in Tab
  BY <1>1 DEF AnswerPublish, Tab, Mode, Content, Blank
<1>4. Coherent(t, Shown)
  BY <1>1 DEF AnswerPublish, Tab, Mode, Coherent
<1>5. Shown' = Shown
  BY <1>2 DEF Shown
<1> HIDE DEF t
<1>6. tab' \in [Editors -> Tab] /\ AllCoherent'
  BY <1>2, <1>3, <1>4, <1>5, OwnStep
<1> QED BY <1>2, <1>6 DEF TypeOK

LEMMA AnswerRevertCoherent ==
    ASSUME TypeOK, AllCoherent, NEW e \in Editors, AnswerRevert(e)
    PROVE  TypeOK' /\ AllCoherent'
<1> DEFINE t == IF tab[e].call = "done"
                  THEN [tab[e] EXCEPT !.mode = "editing", !.call = "none", !.target = 0,
                                      !.content = tab[e].result, !.result = Blank,
                                      !.dirty = TRUE]
                  ELSE [tab[e] EXCEPT !.mode = "editing", !.call = "none", !.target = 0]
<1>1. tab[e] \in Tab /\ edits \in Nat /\ Coherent(tab[e], Shown) /\ Shown \in Content
  BY ShownTyped DEF TypeOK, AllCoherent
<1>2. Becomes(e, t) /\ UNCHANGED <<origin, page, revisions, late, failures>> /\ edits' \in Nat
  BY <1>1 DEF AnswerRevert, OnlyTab
<1>3. t \in Tab
  BY <1>1 DEF AnswerRevert, Tab, Mode, Content, Blank
<1>4. Coherent(t, Shown)
  BY <1>1 DEF AnswerRevert, Tab, Mode, Coherent
<1>5. Shown' = Shown
  BY <1>2 DEF Shown
<1> HIDE DEF t
<1>6. tab' \in [Editors -> Tab] /\ AllCoherent'
  BY <1>2, <1>3, <1>4, <1>5, OwnStep
<1> QED BY <1>2, <1>6 DEF TypeOK

LEMMA RevertCoherent ==
    ASSUME TypeOK, AllCoherent, NEW e \in Editors, NEW v \in Nat, Revert(e, v)
    PROVE  TypeOK' /\ AllCoherent'
<1> DEFINE t == [tab[e] EXCEPT !.mode = "reverting", !.call = "sent", !.target = v,
                               !.raced = @ \/ Saving(e)]
<1>1. tab[e] \in Tab /\ Coherent(tab[e], Shown)
  BY DEF TypeOK, AllCoherent
<1>2. Becomes(e, t) /\ UNCHANGED <<origin, page, revisions, late, edits, failures>>
  BY DEF Revert, OnlyTab
<1>3. t \in Tab
  BY <1>1 DEF Saving, Tab, Mode
<1>4. Coherent(t, Shown)
  BY <1>1 DEF Revert, Saving, Tab, Coherent
<1>5. Shown' = Shown
  BY <1>2 DEF Shown
<1> HIDE DEF t
<1>6. tab' \in [Editors -> Tab] /\ AllCoherent'
  BY <1>2, <1>3, <1>4, <1>5, OwnStep
<1> QED BY <1>2, <1>6 DEF TypeOK

-----------------------------------------------------------------------------
(* Steps of the server *)

LEMMA HandleSaveCoherent ==
    ASSUME TypeOK, AllCoherent, NEW e \in Editors, HandleSave(e)
    PROVE  TypeOK' /\ AllCoherent'
<1>1. tab[e] \in Tab /\ Coherent(tab[e], Shown) /\ page \in Page
  BY DEF TypeOK, AllCoherent
<1>2. CASE SaveAccepted
  <2> DEFINE t == [tab[e] EXCEPT !.save = "stored",
                      !.raced = @ /\ (\/ tab[e].mode \notin {"editing", "saving first"}
                                      \/ tab[e].content # tab[e].sending)]
  <2>1. /\ SaveDraft(tab[e].sending) /\ tab' = [OvertakenBut({e}) EXCEPT ![e] = t]
        /\ UNCHANGED <<origin, revisions, late, edits, failures>>
    BY <1>2 DEF HandleSave
  <2>2. page' \in Page /\ Shown' = tab[e].sending
    BY <1>1, <2>1, SaveTyped DEF Tab
  <2>3. t \in Tab
    BY <1>1 DEF Tab
  <2>4. Coherent(t, tab[e].sending)
    BY <1>1 DEF HandleSave, Tab, Mode, Coherent
  <2> HIDE DEF t
  <2>5. tab' \in [Editors -> Tab] /\ AllCoherent'
    BY <2>1, <2>2, <2>3, <2>4, WriteStep
  <2> QED BY <2>1, <2>2, <2>5 DEF TypeOK
<1>3. CASE ~SaveAccepted
  <2> DEFINE t == [tab[e] EXCEPT !.save = "failed"]
  <2>1. Becomes(e, t) /\ UNCHANGED <<origin, page, revisions, late, edits, failures>>
    BY <1>3 DEF HandleSave
  <2>2. t \in Tab /\ Coherent(t, Shown)
    BY <1>1 DEF HandleSave, Tab, Coherent
  <2>3. Shown' = Shown
    BY <2>1 DEF Shown
  <2> HIDE DEF t
  <2>4. tab' \in [Editors -> Tab] /\ AllCoherent'
    BY <2>1, <2>2, <2>3, OwnStep
  <2> QED BY <2>1, <2>4 DEF TypeOK
<1> QED BY <1>2, <1>3

LEMMA HandlePublishCoherent ==
    ASSUME TypeOK, AllCoherent, NEW e \in Editors, HandlePublish(e)
    PROVE  TypeOK' /\ AllCoherent'
<1>1. tab[e] \in Tab /\ Coherent(tab[e], Shown) /\ page \in Page /\ revisions \in Seq(Revision)
  BY DEF TypeOK, AllCoherent
<1>2. CASE PublishAccepted
  <2> DEFINE t == [tab[e] EXCEPT !.call = "done", !.result = page.draft,
                                 !.raced = @ /\ Saving(e)]
  <2>1. /\ PublishDraft /\ Becomes(e, t)
        /\ UNCHANGED <<origin, late, edits, failures>>
    BY <1>2 DEF HandlePublish
  <2>2. /\ page' \in Page /\ revisions' \in Seq(Revision) /\ page.draft \in Content
        /\ Shown' = Shown /\ Shown = page.draft
    BY <1>1, <1>2, <2>1, PublishTyped
  <2>3. t \in Tab
    BY <1>1, <2>2 DEF Saving, Tab
  <2>4. Coherent(t, Shown)
    BY <1>1, <2>2 DEF HandlePublish, Saving, Tab, Coherent
  <2> HIDE DEF t
  <2>5. tab' \in [Editors -> Tab] /\ AllCoherent'
    BY <2>1, <2>2, <2>3, <2>4, OwnStep
  <2> QED BY <2>1, <2>2, <2>5 DEF TypeOK
<1>3. CASE ~PublishAccepted
  <2> DEFINE t == [tab[e] EXCEPT !.call = "failed"]
  <2>1. Becomes(e, t) /\ UNCHANGED <<origin, page, revisions, late, edits, failures>>
    BY <1>3 DEF HandlePublish
  <2>2. t \in Tab /\ Coherent(t, Shown)
    BY <1>1 DEF HandlePublish, Tab, Coherent
  <2>3. Shown' = Shown
    BY <2>1 DEF Shown
  <2> HIDE DEF t
  <2>4. tab' \in [Editors -> Tab] /\ AllCoherent'
    BY <2>1, <2>2, <2>3, OwnStep
  <2> QED BY <2>1, <2>4 DEF TypeOK
<1> QED BY <1>2, <1>3

LEMMA HandleRevertCoherent ==
    ASSUME TypeOK, AllCoherent, NEW e \in Editors, HandleRevert(e)
    PROVE  TypeOK' /\ AllCoherent'
<1>1. tab[e] \in Tab /\ Coherent(tab[e], Shown) /\ page \in Page /\ revisions \in Seq(Revision)
  BY DEF TypeOK, AllCoherent
<1>2. CASE RevertAccepted(tab[e].target)
  <2> DEFINE t == [tab[e] EXCEPT !.call = "done", !.result = page'.draft]
  <2>1. /\ RevertDraft(tab[e].target) /\ tab' = [OvertakenBut({e}) EXCEPT ![e] = t]
        /\ UNCHANGED <<origin, revisions, late, edits, failures>>
    BY <1>2 DEF HandleRevert
  <2>2. page' \in Page /\ page'.draft \in Content
    BY <1>1, <2>1, RevertTyped
  <2>3. t \in Tab
    BY <1>1, <2>2 DEF Tab
  <2>4. Coherent(t, Shown')
    BY <1>1 DEF HandleRevert, Tab, Coherent
  <2> HIDE DEF t
  <2>5. tab' \in [Editors -> Tab] /\ AllCoherent'
    BY <2>1, <2>3, <2>4, WriteStep
  <2> QED BY <2>1, <2>2, <2>5 DEF TypeOK
<1>3. CASE ~RevertAccepted(tab[e].target)
  <2> DEFINE t == [tab[e] EXCEPT !.call = "failed"]
  <2>1. Becomes(e, t) /\ UNCHANGED <<origin, page, revisions, late, edits, failures>>
    BY <1>3 DEF HandleRevert
  <2>2. t \in Tab /\ Coherent(t, Shown)
    BY <1>1 DEF HandleRevert, Tab, Coherent
  <2>3. Shown' = Shown
    BY <2>1 DEF Shown
  <2> HIDE DEF t
  <2>4. tab' \in [Editors -> Tab] /\ AllCoherent'
    BY <2>1, <2>2, <2>3, OwnStep
  <2> QED BY <2>1, <2>4 DEF TypeOK
<1> QED BY <1>2, <1>3

LEMMA ListCoherent ==
    ASSUME TypeOK, AllCoherent, ListStep
    PROVE  TypeOK' /\ AllCoherent'
<1>1. CASE RevertToFallback
  <2>1. page' \in Page
    BY <1>1 DEF TypeOK, RevertToFallback, Page, OptContent, NoContent
  <2>2. tab' \in [Editors -> Tab] /\ AllCoherent'
    BY <1>1, OvertakenStep DEF RevertToFallback
  <2> QED BY <1>1, <2>1, <2>2 DEF RevertToFallback, OnlyPage, TypeOK
<1>2. CASE Delete \/ Undelete
  <2>1. page' \in Page /\ Shown' = Shown
    BY <1>2 DEF TypeOK, Delete, Undelete, Page, Shown
  <2> QED BY <1>2, <2>1 DEF Delete, Undelete, OnlyPage, TypeOK, AllCoherent
<1> QED BY <1>1, <1>2 DEF ListStep

-----------------------------------------------------------------------------
(* Failures *)

LEMMA WritesTyped ==
    ASSUME TypeOK, NEW e \in Editors
    PROVE  Writes(e) \subseteq LateCall
<1>1. tab[e] \in Tab
  BY DEF TypeOK
<1>2. LateSave(e) \in LateCall
  BY <1>1 DEF LateSave, LateCall, Tab
<1>3. LateOther(e) \in LateCall
  BY <1>1 DEF LateOther, LateCall, Tab
<1> QED BY <1>2, <1>3 DEF Writes

LEMMA CloseCoherent ==
    ASSUME TypeOK, AllCoherent, NEW e \in Editors, Close(e)
    PROVE  TypeOK' /\ AllCoherent'
<1>1. Closed \in Tab /\ Coherent(Closed, Shown)
  BY DEF Closed, Tab, Mode, Content, Blank, Coherent
<1>2. Becomes(e, Closed) /\ UNCHANGED <<origin, page, revisions, edits, failures>>
  BY DEF Close
<1>3. late' \subseteq LateCall
  BY WritesTyped DEF Close, TypeOK
<1>4. Shown' = Shown
  BY <1>2 DEF Shown
<1>5. tab' \in [Editors -> Tab] /\ AllCoherent'
  BY <1>1, <1>2, <1>4, OwnStep
<1> QED BY <1>2, <1>3, <1>5 DEF TypeOK

LEMMA LosesSaveCoherent ==
    ASSUME TypeOK, AllCoherent, NEW e \in Editors, LosesSave(e)
    PROVE  TypeOK' /\ AllCoherent'
<1> DEFINE t == [tab[e] EXCEPT !.save = "failed"]
<1>1. tab[e] \in Tab /\ Coherent(tab[e], Shown)
  BY DEF TypeOK, AllCoherent
<1>2. Becomes(e, t) /\ UNCHANGED <<origin, page, revisions, edits>> /\ failures' \in Nat
  BY DEF LosesSave, TypeOK
<1>3. late' \subseteq LateCall
  BY WritesTyped DEF LosesSave, TypeOK
<1>4. t \in Tab /\ Coherent(t, Shown)
  BY <1>1 DEF LosesSave, Tab, Coherent
<1>5. Shown' = Shown
  BY <1>2 DEF Shown
<1> HIDE DEF t
<1>6. tab' \in [Editors -> Tab] /\ AllCoherent'
  BY <1>2, <1>4, <1>5, OwnStep
<1> QED BY <1>2, <1>3, <1>6 DEF TypeOK

LEMMA LosesCallCoherent ==
    ASSUME TypeOK, AllCoherent, NEW e \in Editors, LosesCall(e)
    PROVE  TypeOK' /\ AllCoherent'
<1> DEFINE t == [tab[e] EXCEPT !.call = "failed", !.result = Blank,
                               !.raced = @ \/ tab[e].call = "done"]
<1>1. tab[e] \in Tab /\ Coherent(tab[e], Shown)
  BY DEF TypeOK, AllCoherent
<1>2. Becomes(e, t) /\ UNCHANGED <<origin, page, revisions, edits>> /\ failures' \in Nat
  BY DEF LosesCall, TypeOK
<1>3. late' \subseteq LateCall
  BY WritesTyped DEF LosesCall, TypeOK
<1>4. t \in Tab
  BY <1>1 DEF Tab, Content, Blank
<1>5. Coherent(t, Shown)
  BY <1>1 DEF LosesCall, Tab, Coherent
<1>6. Shown' = Shown
  BY <1>2 DEF Shown
<1> HIDE DEF t
<1>7. tab' \in [Editors -> Tab] /\ AllCoherent'
  BY <1>2, <1>4, <1>5, <1>6, OwnStep
<1> QED BY <1>2, <1>3, <1>7 DEF TypeOK

LEMMA HandleLateCoherent ==
    ASSUME TypeOK, AllCoherent, NEW m \in late, HandleLate(m)
    PROVE  TypeOK' /\ AllCoherent'
<1>1. /\ page \in Page /\ revisions \in Seq(Revision) /\ late' \subseteq LateCall
      /\ m \in LateCall /\ UNCHANGED <<origin, edits, failures>>
  BY DEF TypeOK, HandleLate
<1>2. CASE m.kind = "save" /\ SaveDraft(m.arg) /\ tab' = OvertakenBut({}) /\ UNCHANGED revisions
  <2>1. m.arg \in Content
    BY <1>1, <1>2 DEF LateCall, Content
  <2>2. page' \in Page
    BY <1>1, <1>2, <2>1, SaveTyped
  <2>3. tab' \in [Editors -> Tab] /\ AllCoherent'
    BY <1>2, OvertakenStep
  <2> QED BY <1>1, <1>2, <2>2, <2>3 DEF TypeOK
<1>3. CASE RevertDraft(m.arg) /\ tab' = OvertakenBut({}) /\ UNCHANGED revisions
  <2>1. page' \in Page
    BY <1>1, <1>3, RevertTyped
  <2>2. tab' \in [Editors -> Tab] /\ AllCoherent'
    BY <1>3, OvertakenStep
  <2> QED BY <1>1, <1>3, <2>1, <2>2 DEF TypeOK
<1>4. CASE PublishAccepted /\ PublishDraft /\ UNCHANGED tab
  <2>1. page' \in Page /\ revisions' \in Seq(Revision) /\ Shown' = Shown
    BY <1>1, <1>4, PublishTyped
  <2> QED BY <1>1, <1>4, <2>1 DEF TypeOK, AllCoherent
<1>5. CASE UNCHANGED <<page, revisions, tab>>
  <2>1. Shown' = Shown
    BY <1>5 DEF Shown
  <2> QED BY <1>1, <1>5, <2>1 DEF TypeOK, AllCoherent
<1> QED BY <1>2, <1>3, <1>4, <1>5 DEF HandleLate

-----------------------------------------------------------------------------
(* The invariant *)

IInv == TypeOK /\ AllCoherent /\ PublishedIsNewestRevision

LEMMA CoherentStep ==
    ASSUME TypeOK, AllCoherent, [Next]_vars
    PROVE  TypeOK' /\ AllCoherent'
<1>1. ASSUME NEW e \in Editors, TabStep(e)
      PROVE  TypeOK' /\ AllCoherent'
  <2>1. ASSUME NEW v \in 1..MaxVersion, Revert(e, v)
        PROVE  TypeOK' /\ AllCoherent'
    BY <2>1, RevertCoherent, PageEditorAssumption
  <2> QED BY <1>1, <2>1, OpenCoherent, HandleOpenCoherent, AnswerOpenCoherent, ChangeCoherent,
             StartSaveCoherent, HandleSaveCoherent, AnswerSaveCoherent, PublishCoherent,
             HandlePublishCoherent, AnswerPublishCoherent, HandleRevertCoherent,
             AnswerRevertCoherent, CloseCoherent, LosesSaveCoherent, LosesCallCoherent
          DEF TabStep
<1>2. CASE ListStep
  BY <1>2, ListCoherent
<1>3. ASSUME NEW m \in late, HandleLate(m)
      PROVE  TypeOK' /\ AllCoherent'
  BY <1>3, HandleLateCoherent
<1>4. CASE UNCHANGED vars
  BY <1>4 DEF vars, TypeOK, AllCoherent, Shown
<1> QED BY <1>1, <1>2, <1>3, <1>4 DEF Next

\* Publishing is the only step that writes a revision, and every other one leaves
\* what is published alone, or clears it.
LEMMA PublishedStep ==
    ASSUME TypeOK, PublishedIsNewestRevision, [Next]_vars
    PROVE  PublishedIsNewestRevision'
<1>0. page \in Page /\ revisions \in Seq(Revision)
  BY DEF TypeOK
<1>1. CASE PublishAccepted /\ PublishDraft
  BY <1>0, <1>1, PublishTyped DEF PublishedIsNewestRevision
<1>2. CASE /\ revisions' = revisions
           /\ page'.published = page.published /\ page'.version = page.version
  BY <1>2 DEF PublishedIsNewestRevision
<1>3. CASE page'.published = NoContent
  BY <1>3 DEF PublishedIsNewestRevision
<1>4. ASSUME NEW c, SaveDraft(c)
      PROVE  page'.published = page.published /\ page'.version = page.version
  BY <1>0, <1>4 DEF SaveDraft, Page
<1>5. ASSUME NEW v, RevertDraft(v)
      PROVE  page'.published = page.published /\ page'.version = page.version
  BY <1>0, <1>5, RevertTyped
<1>6. ASSUME NEW e \in Editors, TabStep(e)
      PROVE  PublishedIsNewestRevision'
  <2>1. CASE HandlePublish(e)
    BY <2>1, <1>1, <1>2 DEF HandlePublish
  <2>2. CASE HandleSave(e)
    BY <2>2, <1>2, <1>4 DEF HandleSave
  <2>3. CASE HandleRevert(e)
    BY <2>3, <1>2, <1>5 DEF HandleRevert
  <2>4. CASE UNCHANGED <<page, revisions>>
    BY <2>4, <1>2
  <2> QED BY <1>6, <2>1, <2>2, <2>3, <2>4
          DEF TabStep, OnlyTab, Open, HandleOpen, AnswerOpen, Change, StartSave, AnswerSave,
              Publish, AnswerPublish, Revert, AnswerRevert, Close, LosesSave, LosesCall
<1>7. CASE ListStep
  <2>1. CASE RevertToFallback
    BY <2>1, <1>0, <1>3 DEF RevertToFallback, Page
  <2>2. CASE Delete \/ Undelete
    BY <2>2, <1>0, <1>2 DEF Delete, Undelete, OnlyPage, Page
  <2> QED BY <1>7, <2>1, <2>2 DEF ListStep
<1>8. ASSUME NEW m \in late, HandleLate(m)
      PROVE  PublishedIsNewestRevision'
  BY <1>8, <1>1, <1>2, <1>4, <1>5 DEF HandleLate
<1>9. CASE UNCHANGED vars
  BY <1>9, <1>2 DEF vars
<1> QED BY <1>6, <1>7, <1>8, <1>9 DEF Next

LEMMA InitIInv == Init => IInv
<1> SUFFICES ASSUME Init PROVE IInv
  OBVIOUS
<1>1. TypeOK
  BY InitTyped
<1>2. \A s : Coherent(Closed, s)
  BY DEF Closed, Coherent
<1>3. AllCoherent
  BY <1>2 DEF Init, AllCoherent
<1>4. PublishedIsNewestRevision
  BY DEF Init, PublishedIsNewestRevision
<1> QED BY <1>1, <1>3, <1>4 DEF IInv

\* The strengthened invariant holds of every behaviour.
THEOREM SpecIInv == Spec => []IInv
<1>1. IInv /\ [Next]_vars => IInv'
  BY CoherentStep, PublishedStep DEF IInv
<1> QED BY InitIInv, <1>1, PTL DEF Spec

\* The rows, the tabs and the calls under way keep their types.
THEOREM EditorTypes == Spec => []TypeOK
<1>1. IInv => TypeOK
  BY DEF IInv
<1> QED BY SpecIInv, <1>1, PTL

\* What visitors see is the newest revision, under its number.
THEOREM EditorPublishes == Spec => []PublishedIsNewestRevision
<1>1. IInv => PublishedIsNewestRevision
  BY DEF IInv
<1> QED BY SpecIInv, <1>1, PTL

\* A clean tab that nothing has overtaken shows the draft.
THEOREM EditorShowsTheDraft == Spec => []CleanShowsTheDraft
<1>1. IInv => CleanShowsTheDraft
  BY DEF IInv, AllCoherent, Coherent, CleanShowsTheDraft
<1> QED BY SpecIInv, <1>1, PTL

=============================================================================
