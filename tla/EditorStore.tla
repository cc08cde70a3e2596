---------------------------- MODULE EditorStore ----------------------------
(***************************************************************************)
(* The SoftPLC IDE's editor store (softplc-ide/src/stores/editor.ts): the  *)
(* tab strip, in order, and the active tab. A tab's id is the string       *)
(* `${pou.id}-${type}`; POU ids are UUIDs, so two (pou, type) pairs never  *)
(* give the same string and the pair stands for the id. The tab's name and *)
(* the cursor position are display data and left out.                     *)
(***************************************************************************)
EXTENDS Naturals, Sequences, SequencesExt, Functions

CONSTANTS
  Pous,         \* POU ids the tabs can show
  TabTypes,     \* tab types: 'pou', 'variables', 'config'
  StrayTabIds   \* closeOtherTabs may be called with the id of no open tab

TabIds == Pous \X TabTypes
NoTab == <<>>   \* activeTabId null

VARIABLES
  tabs,         \* the tab strip: a sequence of [id, isModified]
  activeTabId   \* the active tab's id, or NoTab

evars == <<tabs, activeTabId>>

OpenIds == {tabs[i].id : i \in DOMAIN tabs}
IndexOf(id) == CHOOSE i \in DOMAIN tabs : tabs[i].id = id
Smaller(a, b) == IF a < b THEN a ELSE b

EInit ==
  /\ tabs = <<>>
  /\ activeTabId = NoTab

\* openTab(pou, type): activates the tab if one with this POU and type is
\* open, else appends a new unmodified tab and activates it.
OpenTab(pou, type) ==
  LET id == <<pou, type>> IN
  /\ tabs' = IF id \in OpenIds THEN tabs
             ELSE Append(tabs, [id |-> id, isModified |-> FALSE])
  /\ activeTabId' = id

\* A closeTab that leaves activeTabId alone when the active tab closes.
CloseTabKeepActive(id) ==
  /\ id \in OpenIds
  /\ tabs' = RemoveAt(tabs, IndexOf(id))
  /\ UNCHANGED activeTabId

\* closeTab(tabId): removes an open tab; when it was the active one, the
\* tab now at its index, or the last tab, becomes active, or none.
CloseTab(id) ==
  LET i == IndexOf(id)
      rest == RemoveAt(tabs, i)
  IN
  /\ id \in OpenIds
  /\ tabs' = rest
  /\ activeTabId' = IF activeTabId # id THEN activeTabId
                    ELSE IF rest # <<>> THEN rest[Smaller(i, Len(rest))].id
                    ELSE NoTab

\* closeAllTabs()
CloseAllTabs ==
  /\ tabs' = <<>>
  /\ activeTabId' = NoTab

\* closeOtherTabs(tabId): keeps the tabs with this id and activates it,
\* without checking that such a tab is open.
CloseOtherTabs(id) ==
  /\ id \in IF StrayTabIds THEN TabIds ELSE OpenIds
  /\ tabs' = SelectSeq(tabs, LAMBDA t : t.id = id)
  /\ activeTabId' = id

\* setActiveTab(tabId): only an open tab becomes active.
SetActiveTab(id) ==
  /\ id \in OpenIds
  /\ activeTabId' = id
  /\ UNCHANGED tabs

\* markModified(tabId, modified) on an open tab.
MarkModified(id, m) ==
  /\ id \in OpenIds
  /\ tabs' = [tabs EXCEPT ![IndexOf(id)].isModified = m]
  /\ UNCHANGED activeTabId

\* saveCurrentFile(): with an active tab, markModified(activeTab, false).
SaveCurrentFile ==
  /\ activeTabId \in OpenIds
  /\ tabs' = [tabs EXCEPT ![IndexOf(activeTabId)].isModified = FALSE]
  /\ UNCHANGED activeTabId

\* saveAllFiles(): every modified tab is marked saved.
SaveAllFiles ==
  /\ tabs' = [i \in DOMAIN tabs |-> [tabs[i] EXCEPT !.isModified = FALSE]]
  /\ UNCHANGED activeTabId

ENext ==
  \/ \E p \in Pous, t \in TabTypes : OpenTab(p, t)
  \/ \E id \in TabIds : CloseTab(id) \/ CloseOtherTabs(id) \/ SetActiveTab(id)
  \/ CloseAllTabs
  \/ \E id \in TabIds, m \in BOOLEAN : MarkModified(id, m)
  \/ SaveCurrentFile
  \/ SaveAllFiles

ETypeOK ==
  /\ tabs \in Seq([id : TabIds, isModified : BOOLEAN])
  /\ activeTabId \in TabIds \cup {NoTab}

(* activeTab is one of the open tabs, and there is none only when no tab *)
(* is open: openTab, closeTab's choice of a neighbour, closeOtherTabs and *)
(* setActiveTab each have to keep activeTabId pointing into the strip.    *)
ActiveTabOpen ==
  IF tabs = <<>> THEN activeTabId = NoTab ELSE activeTabId \in OpenIds

=============================================================================
