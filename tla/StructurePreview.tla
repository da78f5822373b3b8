--------------------------- MODULE StructurePreview ---------------------------
(***************************************************************************)
(* Pending structure proposals on the Grasshopper canvas: the commands     *)
(* preview_structure and clear_preview of DG CANVAS LISTENER, the          *)
(* process-wide PreviewRegistry, the confirmation gate DG STRUCTURE        *)
(* CONFIRM, and the undo history of each document, which the user walks    *)
(* back and forth.                                                         *)
(*                                                                         *)
(* Whatever touches a canvas runs on Rhino's UI thread and is one step; a  *)
(* bridge command waits there behind other work after the accept loop has  *)
(* taken it, and the confirmation runs in a solution that was scheduled.   *)
(***************************************************************************)
EXTENDS Naturals, Sequences, SequencesExt

CONSTANTS
    Doc,         \* open Grasshopper documents, each with a listener and a gate
    Id,          \* proposal ids: p0, p1, ... anew in each preview_structure
    Object,      \* GUIDs of preview groups and legends
    Command,     \* identities of bridge commands
    MaxHistory,  \* bound: the length of each document's undo history
    None

ASSUME PreviewAssumption ==
    /\ MaxHistory \in [Doc -> Nat]
    /\ None \notin Object \cup Doc \cup Command

VARIABLES
    active,     \* the document on the screen; only its listener is started
    canvas,     \* the preview groups, confirmed groups and legends of a document
    confirmed,  \* groups with a permanent convention name and colour
    marked,     \* groups with a dg.recognized marker in their ValueTable
    past,       \* UndoServer of a document: the records to undo
    future,     \*   and those to redo
    registry,   \* PreviewRegistry: the group of a pending proposal
    legend,     \* _previewLegendGuid of a document's listener
    serving,    \* the command the running accept loop waits for
    posted,     \* commands posted to the UI thread, by document and type
    scheduled   \* a document's ScheduleSolution callback: the chosen ids

docVars  == <<canvas, confirmed, marked, past, future>>
vars == <<active, docVars, registry, legend, serving, posted, scheduled>>

CommandType == {"preview_structure", "clear_preview"}
Record == [added : SUBSET Object, removed : SUBSET Object, restyled : SUBSET Object]
Choice == [accept : SUBSET Id, reject : SUBSET Id]

Pending == {i \in Id : registry[i] # None}

TypeOK ==
    /\ active \in Doc
    /\ canvas \in [Doc -> SUBSET Object]
    /\ confirmed \subseteq Object
    /\ marked \subseteq Object
    /\ past \in [Doc -> Seq(Record)]
    /\ future \in [Doc -> Seq(Record)]
    /\ registry \in [Id -> Object \cup {None}]
    /\ legend \in [Doc -> Object \cup {None}]
    /\ serving \in Command \cup {None}
    /\ posted \in [Command -> (Doc \X CommandType) \cup {None}]
    /\ scheduled \in [Doc -> Choice \cup {None}]

Init ==
    /\ active \in Doc
    /\ canvas = [d \in Doc |-> {}]
    /\ confirmed = {}
    /\ marked = {}
    /\ past = [d \in Doc |-> <<>>]
    /\ future = [d \in Doc |-> <<>>]
    /\ registry = [i \in Id |-> None]
    /\ legend = [d \in Doc |-> None]
    /\ serving = None
    /\ posted = [c \in Command |-> None]
    /\ scheduled = [d \in Doc |-> None]

------------------------------------------------------------------------------
(* The undo server. A record holds an action per object that was added,       *)
(* removed or renamed and recoloured; undoing it looks each one up.           *)

RecordOf(added, removed, restyled) ==
    [added |-> added, removed |-> removed, restyled |-> restyled]

PushUndoRecord(d, record) ==
    /\ Len(past[d]) < MaxHistory[d]
    /\ past' = [past EXCEPT ![d] = Append(@, record)]
    /\ future' = [future EXCEPT ![d] = <<>>]

Undoable(d, record) ==
    /\ record.added \cup record.restyled \subseteq canvas[d]
    /\ record.removed \cap canvas[d] = {}

Redoable(d, record) ==
    /\ record.removed \cup record.restyled \subseteq canvas[d]
    /\ record.added \cap canvas[d] = {}

(* Undo and redo leave the ValueTable and the registry as they are.           *)
Undo(d) ==
    /\ d = active
    /\ past[d] # <<>>
    /\ LET record == Last(past[d]) IN
          /\ Undoable(d, record)
          /\ canvas' = [canvas EXCEPT ![d] = (@ \ record.added) \cup record.removed]
          /\ confirmed' = confirmed \ record.restyled
          /\ past' = [past EXCEPT ![d] = Front(@)]
          /\ future' = [future EXCEPT ![d] = <<record>> \o @]
    /\ UNCHANGED <<active, marked, registry, legend, serving, posted, scheduled>>

Redo(d) ==
    /\ d = active
    /\ future[d] # <<>>
    /\ LET record == Head(future[d]) IN
          /\ Redoable(d, record)
          /\ canvas' = [canvas EXCEPT ![d] = (@ \ record.removed) \cup record.added]
          /\ confirmed' = confirmed \cup record.restyled
          /\ past' = [past EXCEPT ![d] = Append(@, record)]
          /\ future' = [future EXCEPT ![d] = Tail(@)]
    /\ UNCHANGED <<active, marked, registry, legend, serving, posted, scheduled>>

------------------------------------------------------------------------------
(* The user.                                                                  *)

(* Another document's tab: DocumentContextChanged stops one listener and has  *)
(* the other started; nobody waits for a command that is already posted.      *)
SwitchDocument(d) ==
    /\ d # active
    /\ active' = d
    /\ serving' = None
    /\ UNCHANGED <<docVars, registry, legend, posted, scheduled>>

(* Grasshopper records what the user deletes.                                 *)
DeleteObject(d, o) ==
    /\ d = active
    /\ o \in canvas[d]
    /\ canvas' = [canvas EXCEPT ![d] = @ \ {o}]
    /\ PushUndoRecord(d, RecordOf({}, {o}, {}))
    /\ UNCHANGED <<active, confirmed, marked, registry, legend, serving, posted, scheduled>>

------------------------------------------------------------------------------
(* The listener.                                                              *)

(* The accept loop serves one client, which sends one command after another;  *)
(* InvokeOnCanvasWrite posts it to the UI thread and blocks the loop.         *)
Dispatch(c, type) ==
    /\ serving = None
    /\ posted[c] = None
    /\ serving' = c
    /\ posted' = [posted EXCEPT ![c] = <<active, type>>]
    /\ UNCHANGED <<active, docVars, registry, legend, scheduled>>

(* The command has run, for a client that may long have given up: an answer   *)
(* in time lets the loop go on.                                               *)
Served(c) ==
    /\ posted' = [posted EXCEPT ![c] = None]
    /\ serving' = IF serving = c THEN None ELSE serving

(* InvokeOnCanvasWrite without a document, or with work that raises at once.  *)
Refuse(c) ==
    /\ posted[c] # None
    /\ Served(c)
    /\ UNCHANGED <<active, docVars, registry, legend, scheduled>>

(* GUIDs that a document, a record, a marker, the registry or a listener      *)
(* still holds; a new object gets another one.                                *)
Known ==
    LET records == UNION {Range(past[d]) \cup Range(future[d]) : d \in Doc}
        recorded == {record.added \cup record.removed : record \in records}
        drawn == {canvas[d] : d \in Doc}
    IN (UNION drawn) \cup (UNION recorded) \cup marked \cup Range(registry) \cup Range(legend)

(* A defect: the groups are left to the registry that is about to be cleared. *)
LegendOnly(d) == {legend[d]} \cap canvas[d]

(* RemovePendingPreviewObjects: what of the preview stands on this canvas.    *)
PreviewObjects(d) == (Range(registry) \cup {legend[d]}) \cap canvas[d]

(* A defect: PreviewRemoval.Groups, which the command reports, leaves the     *)
(* legend out.                                                                *)
GroupsRemoved(d) == Range(registry) \cap canvas[d] # {}

(* PreviewRemoval.Objects: is anything worth an undo record?                  *)
SomethingRemoved(d) == PreviewObjects(d) # {}

(* A defect: the removal without a record that IN-12/F4 replaced.             *)
Untracked(objects) == {}

(* It records each removal before it performs it (RemoveTracked).             *)
Tracked(objects) == objects

(* HandlePreviewStructure. ids are the proposals whose kind is known; each    *)
(* gets a group. The registry is cleared with the old preview and refilled.   *)
Preview(c) ==
    /\ posted[c] # None
    /\ LET d == posted[c][1] IN
       \E ids \in SUBSET Id, scribble \in Object \ Known :
       \E group \in [ids -> Object \ (Known \cup {scribble})] :
          /\ posted[c] = <<d, "preview_structure">>
          /\ IsInjective(group)
          /\ LET old == PreviewObjects(d)
                 new == Range(group) \cup {scribble} IN
                /\ canvas' = [canvas EXCEPT ![d] = (@ \ old) \cup new]
                /\ PushUndoRecord(d, RecordOf(new, Tracked(old), {}))
          /\ registry' = [i \in Id |-> IF i \in ids THEN group[i] ELSE None]
          /\ legend' = [legend EXCEPT ![d] = scribble]
    /\ Served(c)
    /\ UNCHANGED <<active, confirmed, marked, scheduled>>

(* HandleClearPreview: nothing to undo where nothing was removed.             *)
Clear(c) ==
    /\ posted[c] # None
    /\ LET d == posted[c][1]
           old == PreviewObjects(d) IN
          /\ posted[c] = <<d, "clear_preview">>
          /\ canvas' = [canvas EXCEPT ![d] = @ \ old]
          /\ IF SomethingRemoved(d) THEN PushUndoRecord(d, RecordOf({}, Tracked(old), {}))
                                    ELSE UNCHANGED <<past, future>>
          /\ registry' = [i \in Id |-> None]
          /\ legend' = [legend EXCEPT ![d] = None]
    /\ Served(c)
    /\ UNCHANGED <<active, confirmed, marked, scheduled>>

------------------------------------------------------------------------------
(* DG STRUCTURE CONFIRM.                                                      *)

(* ApplySelection on a rising edge of Apply: ids that are not pending are     *)
(* dropped and the rest is scheduled. The callback runs before the next       *)
(* solution of that document, so before the next selection.                   *)
Select(d, accept, reject) ==
    /\ d = active
    /\ scheduled[d] = None
    /\ accept \cup reject # {}
    /\ scheduled' = [scheduled EXCEPT ![d] =
                        [accept |-> accept \cap Pending, reject |-> reject \cap Pending]]
    /\ UNCHANGED <<active, docVars, registry, legend, serving, posted>>

OnCanvas(d, ids) == {i \in ids : registry[i] \in canvas[d]}

(* A defect: the group is renamed and recoloured, its marker is not written.  *)
Unmarked(groups) == {}

(* The dg.recognized marker goes into the ValueTable with the new name.       *)
Marked(groups) == groups

(* A defect: an accepted proposal stays pending.                              *)
StillPending(accepted, gone) == gone

(* Accepted, rejected and vanished proposals leave the registry.              *)
Settled(accepted, gone) == accepted \cup gone

(* ApplyToDocument. held are the proposals that the publishability gate or a  *)
(* failing name keeps pending; they can still be rejected in the same Apply,  *)
(* and an accepted one no longer can.                                         *)
Apply(d) ==
    /\ scheduled[d] # None
    /\ \E held \in SUBSET OnCanvas(d, scheduled[d].accept \cap Pending) :
          LET accept == scheduled[d].accept \cap Pending
              accepted == OnCanvas(d, accept) \ held
              vanished == accept \ OnCanvas(d, accept)
              rejected == (scheduled[d].reject \cap Pending) \ (accepted \cup vanished)
              restyled == {registry[i] : i \in accepted}
              removed == {registry[i] : i \in OnCanvas(d, rejected)} IN
             /\ canvas' = [canvas EXCEPT ![d] = @ \ removed]
             /\ confirmed' = confirmed \cup restyled
             /\ marked' = marked \cup Marked(restyled)
             /\ registry' = [i \in Id |->
                    IF i \in Settled(accepted, vanished \cup rejected) THEN None ELSE registry[i]]
             /\ IF accepted \cup rejected = {} THEN UNCHANGED <<past, future>>
                ELSE PushUndoRecord(d, RecordOf({}, removed, restyled))
    /\ scheduled' = [scheduled EXCEPT ![d] = None]
    /\ UNCHANGED <<active, legend, serving, posted>>

------------------------------------------------------------------------------
User(d) ==
    \/ Undo(d)
    \/ Redo(d)
    \/ SwitchDocument(d)
    \/ \E o \in Object : DeleteObject(d, o)

Bridge(c) ==
    \/ \E type \in CommandType : Dispatch(c, type)
    \/ Preview(c)
    \/ Clear(c)
    \/ Refuse(c)

Confirm(d) ==
    \/ \E accept, reject \in SUBSET Id : Select(d, accept, reject)
    \/ Apply(d)

Next == (\E d \in Doc : User(d) \/ Confirm(d)) \/ (\E c \in Command : Bridge(c))

Spec == Init /\ [][Next]_vars

------------------------------------------------------------------------------
(* Properties.                                                                *)

(* What the undo history says was on the canvas before its n-th record.       *)
Before(d) ==
    LET size == Len(past[d])
        before[n \in 1 .. size + 1] ==
            IF n > size THEN canvas[d]
            ELSE (before[n + 1] \ past[d][n].added) \cup past[d][n].removed
    IN before

(* IN-12/F4: Ctrl+Z, pressed as often as there are records, finds every       *)
(* object that a record added, removed or restyled in the state it left it    *)
(* in, and wipes every trace of previews and confirmations; auto-clear,       *)
(* clear, accept, reject, a user's deletion and redo included.                *)
UndoWipesEveryTrace ==
    \A d \in Doc :
        /\ Before(d)[1] = {}
        /\ \A n \in DOMAIN past[d] :
              LET record == past[d][n]
                  later == Before(d)[n + 1] IN
                 /\ record.added \cup record.restyled \subseteq later
                 /\ record.removed \cap later = {}

(* Ctrl+Y after Ctrl+Z finds its objects as well: whatever a command, a       *)
(* confirmation or the user has changed on a canvas since the last Ctrl+Z has *)
(* put a record of its own on the history, and with it emptied what could be  *)
(* redone.                                                                    *)
RedoFinds == \A d \in Doc : future[d] # <<>> => Redoable(d, Head(future[d]))

(* A group that carries a permanent convention name carries the marker that   *)
(* tells the publish path it was recognized, whatever was undone and redone.  *)
ConfirmedMarked == confirmed \subseteq marked

(* A bridge command never takes a confirmed group off a canvas, though the    *)
(* registry it clears is shared by every document and survives undo and redo. *)
BridgeKeepsConfirmed ==
    [][\A c \in Command : posted'[c] # posted[c] =>
          \A d \in Doc : canvas[d] \cap confirmed \subseteq canvas'[d]]_vars

(* A preview or clear leaves no pending group of its own document behind:     *)
(* what the cleared registry lets go of is gone from the canvas the command   *)
(* ran on, though the user may have switched documents, undone or confirmed   *)
(* since that preview (RemovePendingPreviewObjects).                          *)
OwnCanvasCleared ==
    [][\A c \in Command : (posted[c] # None /\ posted'[c] = None) =>
          \A o \in Range(registry) \ Range(registry') : o \notin canvas'[posted[c][1]]]_vars

==============================================================================
