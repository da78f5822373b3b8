----------------------- MODULE StructurePreviewProofs -----------------------
(***************************************************************************)
(* Theorems about StructurePreview, for any number of documents, proposals *)
(* and commands and for undo histories of any length.                      *)
(***************************************************************************)
EXTENDS StructurePreview, SequenceTheorems, WellFoundedInduction, TLAPS

------------------------------------------------------------------------------
(* Sequences.                                                                 *)

(* A prefix of a sequence and its length.                                     *)
LEMMA Prefix ==
    ASSUME NEW S, NEW s \in Seq(S), NEW n \in 0 .. Len(s)
    PROVE  /\ SubSeq(s, 1, n) \in Seq(S)
           /\ Len(SubSeq(s, 1, n)) = n
           /\ \A k \in 1 .. n : SubSeq(s, 1, n)[k] = s[k]
OBVIOUS

(* The parts of a sequence that is not empty, and their lengths.              *)
LEMMA FrontLast ==
    ASSUME NEW S, NEW s \in Seq(S), s # <<>>
    PROVE  /\ Len(s) \in Nat \ {0}
           /\ Last(s) = s[Len(s)] /\ Last(s) \in S
           /\ Front(s) \in Seq(S)
           /\ Len(Front(s)) = Len(s) - 1
           /\ \A n \in 1 .. Len(s) - 1 : Front(s)[n] = s[n]
<1>1. Len(s) \in Nat \ {0} /\ \A n \in 1 .. Len(s) : s[n] \in S
  OBVIOUS
<1>2. PICK n \in 0 .. Len(s) : n = Len(s) - 1
  <2>1. Len(s) \in Int /\ Len(s) >= 1
    BY <1>1
  <2>2. Len(s) - 1 \in 0 .. Len(s)
    BY <2>1
  <2>3. QED
    BY <2>2
<1>3. Front(s) = SubSeq(s, 1, n)
  BY <1>2, Zenon DEF Front
<1>4. Front(s) \in Seq(S) /\ Len(Front(s)) = n /\ \A k \in 1 .. n : Front(s)[k] = s[k]
  BY <1>3, Prefix
<1>5. QED
  BY <1>1, <1>2, <1>4 DEF Last

(* The head and the tail of a sequence that is not empty.                     *)
LEMMA HeadTail ==
    ASSUME NEW S, NEW s \in Seq(S), s # <<>>
    PROVE  /\ Len(s) \in Nat \ {0}
           /\ Head(s) = s[1] /\ Head(s) \in S
           /\ Tail(s) \in Seq(S)
           /\ Len(Tail(s)) = Len(s) - 1
           /\ \A n \in 1 .. Len(s) - 1 : Tail(s)[n] = s[n + 1]
OBVIOUS

(* A sequence with an element put before it.                                  *)
LEMMA Prepended ==
    ASSUME NEW S, NEW s \in Seq(S), NEW e \in S
    PROVE  /\ <<e>> \o s \in Seq(S)
           /\ Len(<<e>> \o s) = Len(s) + 1
           /\ (<<e>> \o s)[1] = e
           /\ \A n \in 1 .. Len(s) : (<<e>> \o s)[n + 1] = s[n]
OBVIOUS

(* A sequence with an element put after it.                                   *)
LEMMA Appended ==
    ASSUME NEW S, NEW s \in Seq(S), NEW e \in S
    PROVE  /\ Append(s, e) \in Seq(S)
           /\ Len(Append(s, e)) = Len(s) + 1
           /\ Append(s, e)[Len(s) + 1] = e
           /\ \A n \in 1 .. Len(s) : Append(s, e)[n] = s[n]
OBVIOUS

(* A sequence over a set is one over every larger set.                        *)
LEMMA SeqGrows ==
    ASSUME NEW S, NEW T, S \subseteq T, NEW s \in Seq(S)
    PROVE  s \in Seq(T)
<1>1. Len(s) \in Nat /\ \A n \in 1 .. Len(s) : s[n] \in T
  OBVIOUS
<1>2. s = [n \in 1 .. Len(s) |-> s[n]]
  OBVIOUS
<1>3. QED
  BY <1>1, <1>2

------------------------------------------------------------------------------
(* The inductive invariant.                                                   *)

(* No record renames a group without a marker, so no undo and no redo brings  *)
(* back a confirmed group that has none.                                      *)
MarkedRecord == [added : SUBSET Object, removed : SUBSET Object, restyled : SUBSET marked]

(* A group is registered for one proposal, is not confirmed yet, and is no    *)
(* listener's legend; nor is a legend ever confirmed.                         *)
Registered ==
    /\ \A i, j \in Id : registry[i] # None /\ registry[i] = registry[j] => i = j
    /\ \A i \in Id : registry[i] \notin marked
    /\ \A d \in Doc : legend[d] \notin marked
    /\ \A i \in Id, d \in Doc : registry[i] # None => registry[i] # legend[d]

States ==
    /\ active \in Doc
    /\ canvas \in [Doc -> SUBSET Object]
    /\ marked \subseteq Object
    /\ registry \in [Id -> Object \cup {None}]
    /\ legend \in [Doc -> Object \cup {None}]
    /\ serving \in Command \cup {None}
    /\ posted \in [Command -> (Doc \X CommandType) \cup {None}]
    /\ scheduled \in [Doc -> Choice \cup {None}]

Histories ==
    /\ past \in [Doc -> Seq(MarkedRecord)]
    /\ future \in [Doc -> Seq(MarkedRecord)]

Inv == States /\ Histories /\ Registered /\ ConfirmedMarked

(* Likewise for the histories of all documents.                               *)
LEMMA HistoryGrows ==
    ASSUME NEW S, NEW T, S \subseteq T, NEW history \in [Doc -> Seq(S)]
    PROVE  history \in [Doc -> Seq(T)]
<1>1. \A d \in Doc : history[d] \in Seq(T)
  BY SeqGrows
<1>2. QED
  BY <1>1

(* The invariant implies the type invariant.                                  *)
LEMMA InvTypeOK == Inv => TypeOK
<1> SUFFICES ASSUME Inv PROVE TypeOK
  OBVIOUS
<1>1. MarkedRecord \subseteq Record
  BY DEF Inv, States, MarkedRecord, Record
<1>2. past \in [Doc -> Seq(Record)] /\ future \in [Doc -> Seq(Record)]
  BY <1>1, HistoryGrows DEF Inv, Histories
<1>3. confirmed \subseteq Object
  BY DEF Inv, States, ConfirmedMarked
<1>4. QED
  BY <1>2, <1>3 DEF Inv, States, TypeOK

(* The documents are empty and have no history.                               *)
LEMMA InitInv == Init => Inv
<1> SUFFICES ASSUME Init PROVE Inv
  OBVIOUS
<1>1. States
  BY DEF Init, States
<1>2. Histories
  BY DEF Init, Histories
<1>3. Registered /\ ConfirmedMarked
  BY DEF Init, Registered, ConfirmedMarked
<1>4. QED
  BY <1>1, <1>2, <1>3 DEF Inv

(* A record that is pushed and the histories it joins may count groups as     *)
(* marked that the same step marks.                                           *)
LEMMA Pushed ==
    ASSUME NEW S, past \in [Doc -> Seq(S)], future \in [Doc -> Seq(S)],
           NEW d \in Doc, NEW record \in S, PushUndoRecord(d, record)
    PROVE  past' \in [Doc -> Seq(S)] /\ future' \in [Doc -> Seq(S)]
<1>1. Append(past[d], record) \in Seq(S) /\ <<>> \in Seq(S)
  BY Appended
<1>2. QED
  BY <1>1 DEF PushUndoRecord

------------------------------------------------------------------------------
(* Every step preserves it.                                                   *)

(* What the user does keeps the invariant (undo, redo, switch, delete).       *)
LEMMA UserInv == ASSUME Inv, NEW d \in Doc, User(d) PROVE Inv'
<1> USE DEF Inv, States, Registered, ConfirmedMarked
<1>1. CASE Undo(d)
  <2> DEFINE record == Last(past[d])
  <2>1. past[d] \in Seq(MarkedRecord) /\ past[d] # <<>> /\ future[d] \in Seq(MarkedRecord)
    BY <1>1 DEF Undo, Histories
  <2>2. record \in MarkedRecord /\ Front(past[d]) \in Seq(MarkedRecord)
    BY <2>1, FrontLast
  <2>3. <<record>> \o future[d] \in Seq(MarkedRecord)
    BY <2>1, <2>2, Prepended
  <2>4. UNCHANGED <<active, marked, registry, legend, serving, posted, scheduled>>
    BY <1>1 DEF Undo
  <2>5. MarkedRecord' = MarkedRecord
    BY <2>4 DEF MarkedRecord
  <2>6. Histories'
    BY <1>1, <2>2, <2>3, <2>5 DEF Undo, Histories
  <2>7. canvas' \in [Doc -> SUBSET Object] /\ confirmed' \subseteq marked
    BY <1>1, <2>2 DEF Undo, MarkedRecord
  <2>8. QED
    BY <2>4, <2>6, <2>7
<1>2. CASE Redo(d)
  <2> DEFINE record == Head(future[d])
  <2>1. future[d] \in Seq(MarkedRecord) /\ future[d] # <<>> /\ past[d] \in Seq(MarkedRecord)
    BY <1>2 DEF Redo, Histories
  <2>2. record \in MarkedRecord /\ Tail(future[d]) \in Seq(MarkedRecord)
    BY <2>1, HeadTail
  <2>3. Append(past[d], record) \in Seq(MarkedRecord)
    BY <2>1, <2>2, Appended
  <2>4. UNCHANGED <<active, marked, registry, legend, serving, posted, scheduled>>
    BY <1>2 DEF Redo
  <2>5. MarkedRecord' = MarkedRecord
    BY <2>4 DEF MarkedRecord
  <2>6. Histories'
    BY <1>2, <2>2, <2>3, <2>5 DEF Redo, Histories
  <2>7. canvas' \in [Doc -> SUBSET Object] /\ confirmed' \subseteq marked
    BY <1>2, <2>2 DEF Redo, MarkedRecord
  <2>8. QED
    BY <2>4, <2>6, <2>7
<1>3. CASE SwitchDocument(d)
  BY <1>3 DEF SwitchDocument, docVars, Histories, MarkedRecord
<1>4. ASSUME NEW o \in Object, DeleteObject(d, o) PROVE Inv'
  <2>1. RecordOf({}, {o}, {}) \in MarkedRecord
    BY DEF RecordOf, MarkedRecord
  <2>2. /\ UNCHANGED <<active, confirmed, marked, registry, legend, serving, posted, scheduled>>
        /\ canvas' = [canvas EXCEPT ![d] = @ \ {o}]
        /\ PushUndoRecord(d, RecordOf({}, {o}, {}))
    BY <1>4 DEF DeleteObject
  <2>3. MarkedRecord' = MarkedRecord
    BY <2>2 DEF MarkedRecord
  <2>4. Histories'
    BY <2>1, <2>2, <2>3, Pushed DEF Histories
  <2>5. QED
    BY <2>2, <2>4
<1>5. QED
  BY <1>1, <1>2, <1>3, <1>4 DEF User

(* A command that was served is posted no more; the types stay.               *)
LEMMA ServedTyped ==
    ASSUME States, NEW c \in Command, Served(c)
    PROVE  /\ serving' \in Command \cup {None}
           /\ posted' \in [Command -> (Doc \X CommandType) \cup {None}]
BY DEF States, Served

(* The groups of a preview are new, so none has a marker yet.                 *)
LEMMA PreviewInv == ASSUME Inv, NEW c \in Command, Preview(c) PROVE Inv'
<1> USE DEF Inv, States
<1> DEFINE d == posted[c][1]
           old == PreviewObjects(d)
<1>1. d \in Doc /\ old \subseteq Object
  BY DEF Preview, PreviewObjects
<1>2. PICK ids \in SUBSET Id, scribble \in Object \ Known :
        \E group \in [ids -> Object \ (Known \cup {scribble})] :
          /\ IsInjective(group)
          /\ canvas' = [canvas EXCEPT ![d] = (@ \ old) \cup (Range(group) \cup {scribble})]
          /\ PushUndoRecord(d, RecordOf(Range(group) \cup {scribble}, Tracked(old), {}))
          /\ registry' = [i \in Id |-> IF i \in ids THEN group[i] ELSE None]
          /\ legend' = [legend EXCEPT ![d] = scribble]
  BY DEF Preview
<1>3. PICK group \in [ids -> Object \ (Known \cup {scribble})] :
          /\ IsInjective(group)
          /\ canvas' = [canvas EXCEPT ![d] = (@ \ old) \cup (Range(group) \cup {scribble})]
          /\ PushUndoRecord(d, RecordOf(Range(group) \cup {scribble}, Tracked(old), {}))
          /\ registry' = [i \in Id |-> IF i \in ids THEN group[i] ELSE None]
          /\ legend' = [legend EXCEPT ![d] = scribble]
  BY <1>2
<1>4. Served(c) /\ UNCHANGED <<active, confirmed, marked, scheduled>>
  BY DEF Preview
<1>5. Range(group) \subseteq Object
  BY DEF Range
<1>6. marked \subseteq Known /\ \A e \in Doc : legend[e] \in Known
  <2>1. marked \subseteq Known /\ Range(legend) \subseteq Known
    BY DEF Known
  <2>2. QED
    BY <2>1 DEF Range
<1>7. States'
  BY <1>1, <1>3, <1>4, <1>5, ServedTyped
<1>8. Histories'
  <2>1. MarkedRecord' = MarkedRecord
    BY <1>3, <1>4 DEF MarkedRecord
  <2>2. RecordOf(Range(group) \cup {scribble}, Tracked(old), {}) \in MarkedRecord
    BY <1>1, <1>5 DEF RecordOf, Tracked, MarkedRecord
  <2>3. QED
    BY <1>1, <1>3, <1>4, <2>1, <2>2, Pushed DEF Histories
<1>9. Registered'
  <2>1. \A i, j \in Id : registry'[i] # None /\ registry'[i] = registry'[j] => i = j
    BY <1>3, <1>4, PreviewAssumption DEF IsInjective
  <2>2. \A i \in Id : registry'[i] \notin marked'
    BY <1>3, <1>4, <1>6, PreviewAssumption
  <2>3. \A e \in Doc : legend'[e] \notin marked'
    BY <1>3, <1>4, <1>6 DEF Registered
  <2>4. \A i \in Id, e \in Doc : registry'[i] # None => registry'[i] # legend'[e]
    BY <1>1, <1>3, <1>4, <1>6
  <2>5. QED
    BY <2>1, <2>2, <2>3, <2>4 DEF Registered
<1>10. QED
  BY <1>3, <1>4, <1>7, <1>8, <1>9 DEF ConfirmedMarked

(* clear_preview keeps the invariant.                                         *)
LEMMA ClearInv == ASSUME Inv, NEW c \in Command, Clear(c) PROVE Inv'
<1> USE DEF Inv, States
<1> DEFINE d == posted[c][1]
           old == PreviewObjects(d)
<1>1. d \in Doc /\ old \subseteq Object
  BY DEF Clear, PreviewObjects
<1>2. /\ canvas' = [canvas EXCEPT ![d] = @ \ old]
      /\ IF old = {} THEN UNCHANGED <<past, future>>
                     ELSE PushUndoRecord(d, RecordOf({}, Tracked(old), {}))
      /\ registry' = [i \in Id |-> None]
      /\ legend' = [legend EXCEPT ![d] = None]
      /\ Served(c)
      /\ UNCHANGED <<active, confirmed, marked, scheduled>>
  BY DEF Clear, SomethingRemoved
<1>3. States'
  BY <1>1, <1>2, ServedTyped
<1>4. Histories'
  <2>1. MarkedRecord' = MarkedRecord
    BY <1>2 DEF MarkedRecord
  <2>2. RecordOf({}, Tracked(old), {}) \in MarkedRecord
    BY <1>1 DEF RecordOf, Tracked, MarkedRecord
  <2>3. QED
    BY <1>1, <1>2, <2>1, <2>2, Pushed DEF Histories
<1>5. Registered'
  BY <1>1, <1>2, PreviewAssumption DEF Registered
<1>6. QED
  BY <1>2, <1>3, <1>4, <1>5 DEF ConfirmedMarked

(* Every step of the bridge keeps the invariant.                              *)
LEMMA BridgeInv == ASSUME Inv, NEW c \in Command, Bridge(c) PROVE Inv'
<1> USE DEF Inv, States, Histories, MarkedRecord, Registered, ConfirmedMarked
<1>1. ASSUME NEW type \in CommandType, Dispatch(c, type) PROVE Inv'
  BY <1>1 DEF Dispatch, docVars
<1>2. CASE Refuse(c)
  BY <1>2, ServedTyped DEF Refuse, docVars
<1>3. QED
  BY <1>1, <1>2, PreviewInv, ClearInv DEF Bridge

(* An accepted proposal leaves the registry as its group is marked.           *)
LEMMA ConfirmInv == ASSUME Inv, NEW d \in Doc, Confirm(d) PROVE Inv'
<1> USE DEF Inv, States
<1>1. ASSUME NEW accept \in SUBSET Id, NEW reject \in SUBSET Id, Select(d, accept, reject)
      PROVE  Inv'
  BY <1>1 DEF Select, docVars, Choice, Pending, Histories, MarkedRecord, Registered, ConfirmedMarked
<1>2. CASE Apply(d)
  <2> DEFINE accept == scheduled[d].accept \cap Pending
  <2>1. PICK held \in SUBSET OnCanvas(d, accept) :
          LET accepted == OnCanvas(d, accept) \ held
              vanished == accept \ OnCanvas(d, accept)
              rejected == (scheduled[d].reject \cap Pending) \ (accepted \cup vanished)
              restyled == {registry[i] : i \in accepted}
              removed == {registry[i] : i \in OnCanvas(d, rejected)} IN
             /\ canvas' = [canvas EXCEPT ![d] = @ \ removed]
             /\ confirmed' = confirmed \cup restyled
             /\ marked' = marked \cup Marked(restyled)
             /\ registry' = [i \in Id |->
                    IF i \in Settled(accepted, vanished \cup rejected) THEN None ELSE registry[i]]
             /\ IF accepted \cup rejected = {} THEN UNCHANGED <<past, future>>
                ELSE PushUndoRecord(d, RecordOf({}, removed, restyled))
    BY <1>2 DEF Apply
  <2> DEFINE accepted == OnCanvas(d, accept) \ held
             vanished == accept \ OnCanvas(d, accept)
             rejected == (scheduled[d].reject \cap Pending) \ (accepted \cup vanished)
             restyled == {registry[i] : i \in accepted}
             removed == {registry[i] : i \in OnCanvas(d, rejected)}
  <2>2. /\ UNCHANGED <<active, legend, serving, posted>>
        /\ scheduled' = [scheduled EXCEPT ![d] = None]
    BY <1>2 DEF Apply
  <2>3. restyled \subseteq Object /\ removed \subseteq Object /\ accepted \subseteq Id
    BY DEF OnCanvas, Pending
  <2>4. marked' = marked \cup restyled /\ confirmed' = confirmed \cup restyled
    BY <2>1 DEF Marked
  <2>5. \A i \in Id : /\ registry'[i] \in {None, registry[i]}
                      /\ i \in accepted => registry'[i] = None
    BY <2>1 DEF Settled
  <2>6. States'
    BY <2>1, <2>2, <2>3, <2>4
  <2>7. Histories'
    <3>1. MarkedRecord \subseteq MarkedRecord'
      BY <2>4 DEF MarkedRecord
    <3>2. past \in [Doc -> Seq(MarkedRecord')] /\ future \in [Doc -> Seq(MarkedRecord')]
      BY <3>1, HistoryGrows DEF Histories
    <3>3. RecordOf({}, removed, restyled) \in MarkedRecord'
      BY <2>3, <2>4 DEF RecordOf, MarkedRecord
    <3>4. CASE PushUndoRecord(d, RecordOf({}, removed, restyled))
      BY <3>2, <3>3, <3>4, Pushed DEF Histories
    <3>5. CASE UNCHANGED <<past, future>>
      BY <3>2, <3>5 DEF Histories
    <3>6. QED
      BY <2>1, <3>4, <3>5
  <2>8. Registered'
    <3>1. \A i \in Id : registry'[i] # None => registry'[i] = registry[i] /\ i \notin accepted
      BY <2>5
    <3>2. \A i \in Id : registry'[i] # None => registry[i] \notin restyled
      BY <2>3, <3>1 DEF Registered
    <3>3. None \notin marked'
      BY <2>6, PreviewAssumption
    <3>4. \A i \in Id : registry'[i] \notin marked'
      BY <2>4, <3>1, <3>2, <3>3 DEF Registered
    <3>5. \A e \in Doc : legend'[e] \notin marked'
      <4>1. \A e \in Doc, i \in accepted : registry[i] # None /\ registry[i] # legend[e]
        BY <2>3 DEF Registered, OnCanvas, Pending
      <4>2. QED
        BY <2>2, <2>4, <4>1 DEF Registered
    <3>6. QED
      BY <2>2, <3>1, <3>4, <3>5 DEF Registered
  <2>9. QED
    BY <2>4, <2>6, <2>7, <2>8 DEF ConfirmedMarked
<1>3. QED
  BY <1>1, <1>2 DEF Confirm

(* Every step keeps the invariant.                                            *)
LEMMA StepInv == Inv /\ [Next]_vars => Inv'
<1> SUFFICES ASSUME Inv, [Next]_vars PROVE Inv'
  OBVIOUS
<1>1. CASE Next
  BY <1>1, UserInv, BridgeInv, ConfirmInv DEF Next
<1>2. CASE UNCHANGED vars
  BY <1>2 DEF vars, docVars, Inv, States, Histories, MarkedRecord, Registered, ConfirmedMarked
<1>3. QED
  BY <1>1, <1>2

------------------------------------------------------------------------------
(* What follows.                                                              *)

(* Every variable has its type: the registry maps a proposal to at most one   *)
(* group, a record holds preview objects only.                                *)
THEOREM TypeCorrect == Spec => []TypeOK
<1>1. Spec => []Inv
  BY InitInv, StepInv, PTL DEF Spec
<1>2. QED
  BY <1>1, InvTypeOK, PTL

(* A group with a permanent convention name carries its recognition marker,   *)
(* after any number of undos, redos, previews and switches of document.       *)
THEOREM ConfirmedStaysMarked == Spec => []ConfirmedMarked
<1>1. Spec => []Inv
  BY InitInv, StepInv, PTL DEF Spec
<1>2. Inv => ConfirmedMarked
  BY DEF Inv
<1>3. QED
  BY <1>1, <1>2, PTL

(* preview_structure and clear_preview remove no confirmed group: what they   *)
(* remove is registered or a legend, and neither is marked.                   *)
THEOREM BridgeSparesConfirmed == Spec => BridgeKeepsConfirmed
<1> DEFINE Kept == \A c \in Command : posted'[c] # posted[c] =>
                       \A d \in Doc : canvas[d] \cap confirmed \subseteq canvas'[d]
<1>1. Inv /\ [Next]_vars => [Kept]_vars
  <2> SUFFICES ASSUME Inv, Next PROVE Kept
    BY DEF vars, docVars
  <2> USE DEF Inv, States
  <2>1. \A d \in Doc : PreviewObjects(d) \cap confirmed = {}
    BY DEF PreviewObjects, Range, Registered, ConfirmedMarked
  <2>2. ASSUME NEW d \in Doc, User(d) \/ Confirm(d) PROVE posted' = posted
    BY <2>2 DEF User, Undo, Redo, SwitchDocument, DeleteObject, Confirm, Select, Apply
  <2>3. ASSUME NEW c \in Command, Bridge(c), NEW d \in Doc
        PROVE  canvas[d] \cap confirmed \subseteq canvas'[d]
    <3>1. ASSUME NEW type \in CommandType, Dispatch(c, type) \/ Refuse(c) PROVE canvas' = canvas
      BY <3>1 DEF Dispatch, Refuse, docVars
    <3>2. CASE Preview(c)
      BY <2>1, <3>2 DEF Preview
    <3>3. CASE Clear(c)
      BY <2>1, <3>3 DEF Clear
    <3>4. QED
      BY <2>3, <3>1, <3>2, <3>3 DEF Bridge, CommandType
  <2>4. QED
    BY <2>2, <2>3 DEF Next
<1>2. Spec => []Inv
  BY InitInv, StepInv, PTL DEF Spec
<1>3. QED
  BY <1>1, <1>2, PTL DEF Spec, BridgeKeepsConfirmed

(* preview_structure and clear_preview leave no pending group of their own    *)
(* document: what the registry lets go of and stands on that canvas is taken  *)
(* off it, and what is drawn anew was not registered before                   *)
(* (RemovePendingPreviewObjects).                                             *)
THEOREM CommandsClearTheirCanvas == Spec => OwnCanvasCleared
<1> DEFINE Cleared == \A c \in Command : (posted[c] # None /\ posted'[c] = None) =>
               \A o \in Range(registry) \ Range(registry') : o \notin canvas'[posted[c][1]]
<1>1. Inv /\ [Next]_vars => [Cleared]_vars
  <2> SUFFICES ASSUME Inv, Next, NEW c \in Command, posted[c] # None, posted'[c] = None,
                      NEW o \in Range(registry) \ Range(registry')
               PROVE  o \notin canvas'[posted[c][1]]
    BY DEF vars, docVars
  <2> USE DEF Inv, States
  <2>1. ASSUME NEW d \in Doc, User(d) \/ Confirm(d) PROVE posted' = posted
    BY <2>1 DEF User, Undo, Redo, SwitchDocument, DeleteObject, Confirm, Select, Apply
  <2>2. PICK e \in Command : Bridge(e)
    BY <2>1 DEF Next
  <2>3. CASE \E type \in CommandType : Dispatch(e, type)
    BY <2>3 DEF Dispatch
  <2>4. CASE Refuse(e)
    BY <2>4 DEF Refuse
  <2>5. CASE Preview(e) \/ Clear(e)
    <3>1. e = c
      BY <2>5 DEF Preview, Clear, Served
    <3>2. PICK d : d = posted[c][1]
      OBVIOUS
    <3>3. d \in Doc
      BY <2>5, <3>1, <3>2 DEF Preview, Clear
    <3>4. o \notin canvas[d] \ PreviewObjects(d)
      BY DEF PreviewObjects
    <3>5. CASE Preview(c)
      <4>1. PICK ids \in SUBSET Id, scribble \in Object \ Known :
              \E group \in [ids -> Object \ (Known \cup {scribble})] :
                canvas' = [canvas EXCEPT ![d] =
                              (@ \ PreviewObjects(d)) \cup (Range(group) \cup {scribble})]
        BY <3>2, <3>5 DEF Preview
      <4>2. PICK group \in [ids -> Object \ (Known \cup {scribble})] :
              canvas' = [canvas EXCEPT ![d] =
                            (@ \ PreviewObjects(d)) \cup (Range(group) \cup {scribble})]
        BY <4>1
      <4>3. o \in Known
        BY DEF Known
      <4>4. o \notin Range(group) \cup {scribble}
        BY <4>3 DEF Range
      <4>5. canvas'[d] = (canvas[d] \ PreviewObjects(d)) \cup (Range(group) \cup {scribble})
        BY <3>3, <4>2
      <4>6. QED
        BY <3>2, <3>4, <4>4, <4>5
    <3>6. CASE Clear(c)
      <4>1. canvas'[d] = canvas[d] \ PreviewObjects(d)
        BY <3>2, <3>3, <3>6 DEF Clear
      <4>2. QED
        BY <3>2, <3>4, <4>1
    <3>7. QED
      BY <2>5, <3>1, <3>5, <3>6
  <2>6. QED
    BY <2>2, <2>3, <2>4, <2>5 DEF Bridge
<1>2. Spec => []Inv
  BY InitInv, StepInv, PTL DEF Spec
<1>3. QED
  BY <1>1, <1>2, PTL DEF Spec, OwnCanvasCleared

------------------------------------------------------------------------------
(* The undo history as a chain of canvases.                                   *)

(* A record leads from the canvas it was made on to the one it left.          *)
Leads(record, before, after) ==
    /\ record.removed \cup record.restyled \subseteq before
    /\ record.added \cap before = {}
    /\ record.removed \cap (record.added \cup record.restyled) = {}
    /\ after = (before \ record.removed) \cup record.added

(* The records to undo lead from the empty canvas to the present one and the  *)
(* records to redo on from there.                                             *)
Chain(d, state) ==
    /\ state[0] = {}
    /\ state[Len(past[d])] = canvas[d]
    /\ \A n \in 1 .. Len(past[d]) : Leads(past[d][n], state[n - 1], state[n])
    /\ \A n \in 1 .. Len(future[d]) :
          Leads(future[d][n], state[Len(past[d]) + n - 1], state[Len(past[d]) + n])

Chained == \A d \in Doc : \E state : Chain(d, state)

(* What an undo needs to find.                                                *)
UndoFinds == \A d \in Doc : past[d] # <<>> => Undoable(d, Last(past[d]))

(* Both histories hold records that restyle marked groups only.               *)
LEMMA HistoryTypes ==
    ASSUME Inv, NEW d \in Doc
    PROVE  past[d] \in Seq(MarkedRecord) /\ future[d] \in Seq(MarkedRecord)
BY DEF Inv, Histories

(* A chain leads to the present, so undo and redo find their objects.         *)
LEMMA ChainEnds == Inv /\ Chained => UndoFinds /\ RedoFinds
<1> SUFFICES ASSUME Inv, Chained, NEW d \in Doc
             PROVE  /\ past[d] # <<>> => Undoable(d, Last(past[d]))
                    /\ future[d] # <<>> => Redoable(d, Head(future[d]))
  BY DEF UndoFinds, RedoFinds
<1>1. PICK state : Chain(d, state)
  BY DEF Chained
<1>2. ASSUME past[d] # <<>> PROVE Undoable(d, Last(past[d]))
  <2>1. Len(past[d]) \in Nat \ {0} /\ Last(past[d]) = past[d][Len(past[d])]
    BY <1>2, HistoryTypes, FrontLast
  <2>2. Len(past[d]) \in 1 .. Len(past[d])
    BY <2>1
  <2>3. Leads(Last(past[d]), state[Len(past[d]) - 1], canvas[d])
    BY <1>1, <2>1, <2>2 DEF Chain
  <2>4. QED
    BY <2>3 DEF Leads, Undoable
<1>3. ASSUME future[d] # <<>> PROVE Redoable(d, Head(future[d]))
  <2>1. /\ Len(past[d]) \in Nat /\ 1 \in 1 .. Len(future[d])
        /\ Head(future[d]) = future[d][1]
    BY <1>3, HistoryTypes, HeadTail
  <2>2. Leads(future[d][1], state[Len(past[d]) + 1 - 1], state[Len(past[d]) + 1])
    BY <1>1, <2>1 DEF Chain
  <2>3. Leads(Head(future[d]), canvas[d], state[Len(past[d]) + 1])
    BY <1>1, <2>1, <2>2 DEF Chain
  <2>4. QED
    BY <2>3 DEF Leads, Redoable
<1>4. QED
  BY <1>2, <1>3

(* A set of numbers that is bounded and not empty has a largest.              *)
LEMMA LargestNumber ==
    ASSUME NEW b \in Nat, NEW S, S \subseteq 0 .. b, S # {}
    PROVE  \E n \in S : \A m \in S : m <= n
<1> DEFINE T == {k \in Nat : b - k \in S}
<1>1. T # {}
  <2>1. PICK n \in S : TRUE
    OBVIOUS
  <2>2. n \in Int /\ 0 <= n /\ n <= b
    BY <2>1
  <2>3. b - n \in Nat /\ b - (b - n) = n
    BY <2>2
  <2>4. QED
    BY <2>1, <2>3
<1>2. PICK k \in T : \A m \in T : <<m, k>> \notin OpToRel(<, Nat)
  BY <1>1, NatLessThanWellFounded, WFMin
<1>3. k \in Nat /\ b - k \in S /\ \A m \in T : ~(m < k)
  BY <1>2 DEF OpToRel
<1>4. ASSUME NEW m \in S PROVE m <= b - k
  <2>1. m \in Int /\ 0 <= m /\ m <= b
    BY <1>4
  <2>2. b - m \in T
    <3>1. b - m \in Nat /\ b - (b - m) = m
      BY <2>1
    <3>2. QED
      BY <3>1, <1>4
  <2>3. QED
    BY <1>3, <2>1, <2>2
<1>5. QED
  BY <1>3, <1>4

(* The canvases the undo history tells of are those of the chain.             *)
LEMMA ChainIsBefore ==
    ASSUME Inv, NEW d \in Doc, NEW state, Chain(d, state)
    PROVE  \A n \in 1 .. Len(past[d]) + 1 : Before(d)[n] = state[n - 1]
<1> DEFINE size == Len(past[d])
           back(f) == [n \in 1 .. size + 1 |->
                          IF n > size THEN canvas[d]
                          ELSE (f[n + 1] \ past[d][n].added) \cup past[d][n].removed]
<1>1. Before(d) = CHOOSE f : f = back(f)
  BY DEF Before
<1>2. /\ size \in Nat /\ state[size] = canvas[d]
      /\ \A n \in 1 .. size : Leads(past[d][n], state[n - 1], state[n])
  BY HistoryTypes DEF Chain
<1>3. \A n \in 1 .. size : state[n - 1] = (state[n] \ past[d][n].added) \cup past[d][n].removed
  BY <1>2 DEF Leads
<1> HIDE DEF size
<1>4. PICK g : g = [n \in 1 .. size + 1 |-> state[n - 1]]
  OBVIOUS
<1>5. ASSUME NEW n \in 1 .. size + 1
      PROVE  g[n] = IF n > size THEN canvas[d]
                    ELSE (g[n + 1] \ past[d][n].added) \cup past[d][n].removed
  <2>1. CASE n > size
    <3>1. n - 1 = size
      BY <1>2, <2>1
    <3>2. QED
      BY <1>2, <1>4, <2>1, <3>1
  <2>2. CASE ~(n > size)
    <3>1. n \in 1 .. size /\ n + 1 \in 1 .. size + 1 /\ n + 1 - 1 = n
      BY <1>2, <2>2
    <3>2. g[n] = state[n - 1] /\ g[n + 1] = state[n]
      BY <1>4, <3>1
    <3>3. QED
      BY <1>3, <2>2, <3>1, <3>2
  <2>3. QED
    BY <2>1, <2>2
<1>6. g = back(g)
  BY <1>4, <1>5
<1>7. PICK f : f = Before(d)
  OBVIOUS
<1>8. f = back(f)
  BY <1>1, <1>6, <1>7
<1>9. \A n \in 1 .. size + 1 :
          f[n] = IF n > size THEN canvas[d]
                 ELSE (f[n + 1] \ past[d][n].added) \cup past[d][n].removed
  BY <1>8
<1> DEFINE S == {n \in 1 .. size + 1 : f[n] # g[n]}
<1>10. S = {}
  <2> SUFFICES ASSUME S # {} PROVE FALSE
    OBVIOUS
  <2>1. size + 1 \in Nat /\ S \subseteq 0 .. size + 1
    BY <1>2
  <2>2. PICK k \in S : \A m \in S : m <= k
    <3> HIDE DEF S
    <3>1. QED
      BY <2>1, LargestNumber
  <2>3. k \in 1 .. size + 1 /\ f[k] # g[k]
    OBVIOUS
  <2>4. CASE k > size
    BY <1>5, <1>9, <2>3, <2>4
  <2>5. CASE ~(k > size)
    <3>1. k + 1 \in 1 .. size + 1 /\ ~(k + 1 <= k)
      BY <1>2, <2>3, <2>5
    <3>2. f[k + 1] = g[k + 1]
      BY <2>2, <3>1
    <3>3. QED
      BY <1>5, <1>9, <2>3, <2>5, <3>2
  <2>6. QED
    BY <2>4, <2>5
<1>11. QED
  BY <1>4, <1>7, <1>10 DEF size

(* So each record stands between the canvases it leads from and to.           *)
LEMMA ChainWipes == Inv /\ Chained => UndoWipesEveryTrace
<1> SUFFICES ASSUME Inv, Chained, NEW d \in Doc
             PROVE  /\ Before(d)[1] = {}
                    /\ \A n \in DOMAIN past[d] :
                          LET record == past[d][n]
                              later == Before(d)[n + 1] IN
                             /\ record.added \cup record.restyled \subseteq later
                             /\ record.removed \cap later = {}
  BY DEF UndoWipesEveryTrace
<1>1. PICK state : Chain(d, state)
  BY DEF Chained
<1>2. Len(past[d]) \in Nat /\ DOMAIN past[d] = 1 .. Len(past[d])
  BY HistoryTypes
<1>3. \A n \in 1 .. Len(past[d]) + 1 : Before(d)[n] = state[n - 1]
  BY <1>1, ChainIsBefore
<1>4. Before(d)[1] = {}
  <2>1. 1 \in 1 .. Len(past[d]) + 1 /\ 1 - 1 = 0
    BY <1>2
  <2>2. QED
    BY <1>1, <1>3, <2>1 DEF Chain
<1>5. ASSUME NEW n \in DOMAIN past[d]
      PROVE  /\ past[d][n].added \cup past[d][n].restyled \subseteq Before(d)[n + 1]
             /\ past[d][n].removed \cap Before(d)[n + 1] = {}
  <2>1. n \in 1 .. Len(past[d]) /\ n + 1 \in 1 .. Len(past[d]) + 1 /\ n + 1 - 1 = n
    BY <1>2
  <2>2. Before(d)[n + 1] = state[n]
    BY <1>3, <2>1
  <2>3. Leads(past[d][n], state[n - 1], state[n])
    BY <1>1, <2>1 DEF Chain
  <2>4. QED
    BY <2>2, <2>3 DEF Leads
<1>6. QED
  BY <1>4, <1>5

(* A document whose canvas and history stand still keeps its chain.           *)
LEMMA OtherChain ==
    ASSUME NEW d \in Doc, NEW state, Chain(d, state),
           canvas'[d] = canvas[d], past'[d] = past[d], future'[d] = future[d]
    PROVE  Chain(d, state)'
BY DEF Chain

(* A pushed record extends the chain of its document.                         *)
LEMMA PushChain ==
    ASSUME Inv, Chained, NEW d \in Doc, NEW record, NEW after,
           PushUndoRecord(d, record), canvas' = [canvas EXCEPT ![d] = after],
           Leads(record, canvas[d], after)
    PROVE  Chained'
<1>1. ASSUME NEW e \in Doc, e # d PROVE \E state : Chain(e, state)'
  <2>1. PICK state : Chain(e, state)
    BY DEF Chained
  <2>2. canvas'[e] = canvas[e] /\ past'[e] = past[e] /\ future'[e] = future[e]
    BY <1>1 DEF PushUndoRecord, Inv, States, Histories
  <2>3. QED
    BY <2>1, <2>2, OtherChain
<1>2. \E state : Chain(d, state)'
  <2>1. PICK state : Chain(d, state)
    BY DEF Chained
  <2> DEFINE size == Len(past[d])
  <2>2. PICK longer : longer = [n \in 0 .. size + 1 |-> IF n <= size THEN state[n] ELSE after]
    OBVIOUS
  <2>3. size \in Nat /\ past[d] \in Seq(MarkedRecord)
    BY HistoryTypes
  <2>4. past'[d] = Append(past[d], record) /\ future'[d] = <<>> /\ canvas'[d] = after
    BY DEF PushUndoRecord, Inv, States, Histories
  <2>5. /\ Len(past'[d]) = size + 1
        /\ past'[d][size + 1] = record
        /\ \A n \in 1 .. size : past'[d][n] = past[d][n]
    BY <2>3, <2>4
  <2>6. longer[0] = {} /\ longer[size] = canvas[d] /\ longer[size + 1] = after
    BY <2>1, <2>3, <2>2 DEF Chain
  <2>7. \A n \in 1 .. size : Leads(past[d][n], longer[n - 1], longer[n])
    BY <2>1, <2>3, <2>2 DEF Chain
  <2>8. \A n \in 1 .. size + 1 : Leads(past'[d][n], longer[n - 1], longer[n])
    <3> TAKE n \in 1 .. size + 1
    <3>1. CASE n \in 1 .. size
      BY <2>5, <2>7, <3>1
    <3>2. CASE n = size + 1
      <4>1. n - 1 = size
        BY <2>3, <3>2
      <4>2. QED
        BY <2>5, <2>6, <3>2, <4>1
    <3>3. QED
      BY <2>3, <3>1, <3>2
  <2>9. Chain(d, longer)'
    <3>1. Len(future'[d]) = 0
      BY <2>4
    <3>2. Len(past'[d]) = size + 1 /\ longer[Len(past'[d])] = canvas'[d]
      BY <2>4, <2>5, <2>6
    <3>3. \A n \in 1 .. Len(past'[d]) : Leads(past'[d][n], longer[n - 1], longer[n])
      BY <2>8, <3>2
    <3>4. 1 .. Len(future'[d]) = {}
      BY <3>1
    <3>5. QED
      BY <2>6, <3>2, <3>3, <3>4 DEF Chain
  <2>10. QED
    BY <2>9
<1>3. QED
  BY <1>1, <1>2 DEF Chained

(* Undo and redo walk along the chain.                                        *)
LEMMA UndoChain == ASSUME Inv, Chained, NEW d \in Doc, Undo(d) PROVE Chained'
<1>1. ASSUME NEW e \in Doc, e # d PROVE \E state : Chain(e, state)'
  <2>1. PICK state : Chain(e, state)
    BY DEF Chained
  <2>2. canvas'[e] = canvas[e] /\ past'[e] = past[e] /\ future'[e] = future[e]
    BY <1>1 DEF Undo, Inv, States, Histories
  <2>3. QED
    BY <2>1, <2>2, OtherChain
<1>2. \E state : Chain(d, state)'
  <2>1. PICK state : Chain(d, state)
    BY DEF Chained
  <2>2. PICK size : size = Len(past[d])
    OBVIOUS
  <2>3. PICK record : record = Last(past[d])
    OBVIOUS
  <2>4. past[d] # <<>> /\ past[d] \in Seq(MarkedRecord) /\ future[d] \in Seq(MarkedRecord)
    BY HistoryTypes DEF Undo
  <2>5. /\ size \in Nat \ {0} /\ record = past[d][size] /\ record \in MarkedRecord
        /\ Len(Front(past[d])) = size - 1
        /\ \A n \in 1 .. size - 1 : Front(past[d])[n] = past[d][n]
    BY <2>2, <2>3, <2>4, FrontLast
  <2>6. /\ canvas'[d] = (canvas[d] \ record.added) \cup record.removed
        /\ past'[d] = Front(past[d])
        /\ future'[d] = <<record>> \o future[d]
    BY <2>3 DEF Undo, Inv, States, Histories
  <2>7. /\ Len(future'[d]) = Len(future[d]) + 1 /\ Len(future[d]) \in Nat
        /\ future'[d][1] = record
        /\ \A n \in 1 .. Len(future[d]) : future'[d][n + 1] = future[d][n]
    BY <2>4, <2>5, <2>6, Prepended
  <2>8. Leads(record, state[size - 1], canvas[d])
    <3>1. size \in 1 .. size
      BY <2>5
    <3>2. QED
      BY <2>1, <2>2, <2>5, <3>1 DEF Chain
  <2>9. Len(past'[d]) = size - 1 /\ state[size - 1] = canvas'[d] /\ canvas[d] = state[size]
    BY <2>1, <2>2, <2>5, <2>6, <2>8 DEF Leads, Chain
  <2>10. \A n \in 1 .. size - 1 : Leads(past'[d][n], state[n - 1], state[n])
    <3>1. \A n \in 1 .. size : Leads(past[d][n], state[n - 1], state[n])
      BY <2>1, <2>2 DEF Chain
    <3>2. QED
      BY <2>5, <2>6, <3>1
  <2>11. \A n \in 1 .. Len(future'[d]) :
            Leads(future'[d][n], state[size - 1 + n - 1], state[size - 1 + n])
    <3> TAKE n \in 1 .. Len(future'[d])
    <3>1. CASE n = 1
      <4>1. size - 1 + n - 1 = size - 1 /\ size - 1 + n = size
        BY <2>5, <3>1
      <4>2. QED
        BY <2>7, <2>8, <2>9, <3>1, <4>1
    <3>2. CASE n # 1
      <4>1. PICK k \in 1 .. Len(future[d]) : n = k + 1
        <5>1. n \in Int /\ 1 <= n /\ n <= Len(future[d]) + 1
          BY <2>7
        <5>2. n - 1 \in 1 .. Len(future[d]) /\ n = (n - 1) + 1
          BY <2>7, <3>2, <5>1
        <5>3. QED
          BY <5>2
      <4>2. Leads(future[d][k], state[size + k - 1], state[size + k])
        BY <2>1, <2>2, <4>1 DEF Chain
      <4>3. size - 1 + n - 1 = size + k - 1 /\ size - 1 + n = size + k
        BY <2>5, <4>1
      <4>4. QED
        BY <2>7, <4>1, <4>2, <4>3
    <3>3. QED
      BY <3>1, <3>2
  <2>12. state[0] = {}
    BY <2>1 DEF Chain
  <2>13. Chain(d, state)'
    BY <2>9, <2>10, <2>11, <2>12 DEF Chain
  <2>14. QED
    BY <2>13
<1>3. QED
  BY <1>1, <1>2 DEF Chained

(* Redo moves one canvas along the chain.                                     *)
LEMMA RedoChain == ASSUME Inv, Chained, NEW d \in Doc, Redo(d) PROVE Chained'
<1>1. ASSUME NEW e \in Doc, e # d PROVE \E state : Chain(e, state)'
  <2>1. PICK state : Chain(e, state)
    BY DEF Chained
  <2>2. canvas'[e] = canvas[e] /\ past'[e] = past[e] /\ future'[e] = future[e]
    BY <1>1 DEF Redo, Inv, States, Histories
  <2>3. QED
    BY <2>1, <2>2, OtherChain
<1>2. \E state : Chain(d, state)'
  <2>1. PICK state : Chain(d, state)
    BY DEF Chained
  <2>2. PICK size : size = Len(past[d])
    OBVIOUS
  <2>3. PICK record : record = Head(future[d])
    OBVIOUS
  <2>4. future[d] # <<>> /\ past[d] \in Seq(MarkedRecord) /\ future[d] \in Seq(MarkedRecord)
    BY HistoryTypes DEF Redo
  <2>5. /\ size \in Nat /\ Len(future[d]) \in Nat \ {0}
        /\ record = future[d][1] /\ record \in MarkedRecord
        /\ Len(Tail(future[d])) = Len(future[d]) - 1
        /\ \A n \in 1 .. Len(future[d]) - 1 : Tail(future[d])[n] = future[d][n + 1]
    BY <2>2, <2>3, <2>4, HeadTail
  <2>6. /\ canvas'[d] = (canvas[d] \ record.removed) \cup record.added
        /\ past'[d] = Append(past[d], record)
        /\ future'[d] = Tail(future[d])
    BY <2>3 DEF Redo, Inv, States, Histories
  <2>7. /\ Len(past'[d]) = size + 1
        /\ past'[d][size + 1] = record
        /\ \A n \in 1 .. size : past'[d][n] = past[d][n]
    BY <2>2, <2>4, <2>5, <2>6, Appended
  <2>8. state[size] = canvas[d] /\ Leads(record, state[size], state[size + 1])
    <3>1. 1 \in 1 .. Len(future[d]) /\ size + 1 - 1 = size
      BY <2>5
    <3>2. Leads(future[d][1], state[size + 1 - 1], state[size + 1])
      BY <2>1, <2>2, <3>1 DEF Chain
    <3>3. QED
      BY <2>1, <2>2, <2>5, <3>1, <3>2 DEF Chain
  <2>9. state[size + 1] = canvas'[d]
    BY <2>6, <2>8 DEF Leads
  <2>10. \A n \in 1 .. size + 1 : Leads(past'[d][n], state[n - 1], state[n])
    <3>1. \A n \in 1 .. size : Leads(past[d][n], state[n - 1], state[n])
      BY <2>1, <2>2 DEF Chain
    <3> TAKE n \in 1 .. size + 1
    <3>2. CASE n = size + 1
      <4>1. n - 1 = size
        BY <2>5, <3>2
      <4>2. QED
        BY <2>7, <2>8, <3>2, <4>1
    <3>3. CASE n # size + 1
      <4>1. n \in 1 .. size
        BY <2>5, <3>3
      <4>2. QED
        BY <2>7, <3>1, <4>1
    <3>4. QED
      BY <3>2, <3>3
  <2>11. \A n \in 1 .. Len(future'[d]) :
            Leads(future'[d][n], state[size + 1 + n - 1], state[size + 1 + n])
    <3> TAKE n \in 1 .. Len(future'[d])
    <3>1. n \in 1 .. Len(future[d]) - 1 /\ future'[d][n] = future[d][n + 1]
      BY <2>5, <2>6
    <3>2. PICK k \in 1 .. Len(future[d]) : k = n + 1
      BY <2>5, <3>1
    <3>3. Leads(future[d][k], state[size + k - 1], state[size + k])
      BY <2>1, <2>2, <3>2 DEF Chain
    <3>4. size + 1 + n - 1 = size + k - 1 /\ size + 1 + n = size + k
      BY <2>5, <3>1, <3>2
    <3>5. QED
      BY <3>1, <3>2, <3>3, <3>4
  <2>12. state[0] = {}
    BY <2>1 DEF Chain
  <2>13. Chain(d, state)'
    BY <2>7, <2>9, <2>10, <2>11, <2>12 DEF Chain
  <2>14. QED
    BY <2>13
<1>3. QED
  BY <1>1, <1>2 DEF Chained

(* A step that touches neither canvas nor history keeps the chain.            *)
LEMMA StillChain == ASSUME Chained, UNCHANGED <<canvas, past, future>> PROVE Chained'
BY DEF Chained, Chain

(* Every other step that changes a canvas pushes a record that leads there.   *)
LEMMA PreviewChain == ASSUME Inv, Chained, NEW c \in Command, Preview(c) PROVE Chained'
<1> USE DEF Inv, States
<1> DEFINE d == posted[c][1]
           old == PreviewObjects(d)
<1>1. d \in Doc /\ old \subseteq canvas[d]
  BY DEF Preview, PreviewObjects
<1>2. PICK ids \in SUBSET Id, scribble \in Object \ Known :
        \E group \in [ids -> Object \ (Known \cup {scribble})] :
          /\ canvas' = [canvas EXCEPT ![d] = (@ \ old) \cup (Range(group) \cup {scribble})]
          /\ PushUndoRecord(d, RecordOf(Range(group) \cup {scribble}, Tracked(old), {}))
  BY DEF Preview
<1>3. PICK group \in [ids -> Object \ (Known \cup {scribble})] :
          /\ canvas' = [canvas EXCEPT ![d] = (@ \ old) \cup (Range(group) \cup {scribble})]
          /\ PushUndoRecord(d, RecordOf(Range(group) \cup {scribble}, Tracked(old), {}))
  BY <1>2
<1>4. PICK new : new = Range(group) \cup {scribble}
  OBVIOUS
<1>5. new \cap canvas[d] = {}
  <2>1. canvas[d] \subseteq Known
    BY <1>1 DEF Known
  <2>2. new \cap Known = {}
    BY <1>4 DEF Range
  <2>3. QED
    BY <2>1, <2>2
<1>6. Leads(RecordOf(new, Tracked(old), {}), canvas[d], (canvas[d] \ old) \cup new)
  BY <1>1, <1>5 DEF Leads, RecordOf, Tracked
<1>7. QED
  BY <1>1, <1>3, <1>4, <1>6, PushChain

(* clear_preview records what it removes and keeps a chain.                   *)
LEMMA ClearChain == ASSUME Inv, Chained, NEW c \in Command, Clear(c) PROVE Chained'
<1> USE DEF Inv, States
<1> DEFINE d == posted[c][1]
           old == PreviewObjects(d)
<1>1. d \in Doc /\ old \subseteq canvas[d]
  BY DEF Clear, PreviewObjects
<1>2. /\ canvas' = [canvas EXCEPT ![d] = @ \ old]
      /\ IF old = {} THEN UNCHANGED <<past, future>>
                     ELSE PushUndoRecord(d, RecordOf({}, Tracked(old), {}))
  BY DEF Clear, SomethingRemoved
<1>3. CASE old = {}
  <2>1. UNCHANGED <<canvas, past, future>>
    BY <1>1, <1>2, <1>3
  <2>2. QED
    BY <2>1, StillChain
<1>4. CASE old # {}
  <2>1. Leads(RecordOf({}, Tracked(old), {}), canvas[d], canvas[d] \ old)
    BY <1>1 DEF Leads, RecordOf, Tracked
  <2>2. QED
    BY <1>1, <1>2, <1>4, <2>1, PushChain
<1>5. QED
  BY <1>3, <1>4

(* Deleting an object records it and so keeps a chain.                        *)
LEMMA DeleteChain ==
    ASSUME Inv, Chained, NEW d \in Doc, NEW o \in Object, DeleteObject(d, o) PROVE Chained'
<1>1. /\ canvas' = [canvas EXCEPT ![d] = @ \ {o}]
      /\ PushUndoRecord(d, RecordOf({}, {o}, {}))
  BY DEF DeleteObject
<1>2. Leads(RecordOf({}, {o}, {}), canvas[d], canvas[d] \ {o})
  BY DEF DeleteObject, Leads, RecordOf
<1>3. QED
  BY <1>1, <1>2, PushChain

(* A proposal is accepted or rejected, and its group is nobody else's, so one *)
(* record never restyles what it removes.                                     *)
LEMMA ApplyChain == ASSUME Inv, Chained, NEW d \in Doc, Apply(d) PROVE Chained'
<1> USE DEF Inv, States
<1> DEFINE accept == scheduled[d].accept \cap Pending
<1>1. PICK held \in SUBSET OnCanvas(d, accept) :
        LET accepted == OnCanvas(d, accept) \ held
            vanished == accept \ OnCanvas(d, accept)
            rejected == (scheduled[d].reject \cap Pending) \ (accepted \cup vanished)
            restyled == {registry[i] : i \in accepted}
            removed == {registry[i] : i \in OnCanvas(d, rejected)} IN
           /\ canvas' = [canvas EXCEPT ![d] = @ \ removed]
           /\ IF accepted \cup rejected = {} THEN UNCHANGED <<past, future>>
              ELSE PushUndoRecord(d, RecordOf({}, removed, restyled))
  BY DEF Apply
<1> DEFINE accepted == OnCanvas(d, accept) \ held
           vanished == accept \ OnCanvas(d, accept)
           rejected == (scheduled[d].reject \cap Pending) \ (accepted \cup vanished)
           restyled == {registry[i] : i \in accepted}
           removed == {registry[i] : i \in OnCanvas(d, rejected)}
<1>2. /\ restyled \subseteq canvas[d] /\ removed \subseteq canvas[d]
      /\ accepted \subseteq Pending /\ rejected \subseteq Pending
  BY DEF OnCanvas
<1>3. restyled \cap removed = {}
  <2>1. \A i \in accepted, j \in OnCanvas(d, rejected) : i # j
    BY DEF OnCanvas
  <2>2. \A i, j \in Pending : registry[i] = registry[j] => i = j
    BY DEF Registered, Pending
  <2>3. OnCanvas(d, rejected) \subseteq Pending
    BY <1>2 DEF OnCanvas
  <2>4. \A i \in accepted, j \in OnCanvas(d, rejected) : registry[i] # registry[j]
    BY <1>2, <2>1, <2>2, <2>3
  <2>5. QED
    BY <2>4
<1>4. CASE accepted \cup rejected = {}
  <2>1. removed = {}
    BY <1>4 DEF OnCanvas
  <2>2. canvas' = canvas /\ UNCHANGED <<past, future>>
    BY <1>1, <1>4, <2>1
  <2>3. QED
    BY <2>2, StillChain
<1>5. CASE accepted \cup rejected # {}
  <2>1. Leads(RecordOf({}, removed, restyled), canvas[d], canvas[d] \ removed)
    BY <1>2, <1>3 DEF Leads, RecordOf
  <2>2. QED
    BY <1>1, <1>5, <2>1, PushChain
<1>6. QED
  BY <1>4, <1>5

(* A document without history is a chain by itself.                           *)
LEMMA InitChain == Init => Chained
<1> SUFFICES ASSUME Init, NEW d \in Doc PROVE \E state : Chain(d, state)
  BY DEF Chained
<1>1. Chain(d, [n \in {0} |-> {}])
  BY DEF Chain, Init
<1>2. QED
  BY <1>1

(* Every step keeps a chain.                                                  *)
LEMMA StepChain == Inv /\ Chained /\ [Next]_vars => Chained'
<1> SUFFICES ASSUME Inv, Chained, [Next]_vars PROVE Chained'
  OBVIOUS
<1>1. ASSUME NEW d \in Doc, User(d) PROVE Chained'
  <2>1. CASE SwitchDocument(d)
    BY <2>1, StillChain DEF SwitchDocument, docVars
  <2>2. QED
    BY <1>1, <2>1, UndoChain, RedoChain, DeleteChain DEF User
<1>2. ASSUME NEW d \in Doc, Confirm(d) PROVE Chained'
  <2>1. ASSUME NEW accept \in SUBSET Id, NEW reject \in SUBSET Id, Select(d, accept, reject)
        PROVE  Chained'
    BY <2>1, StillChain DEF Select, docVars
  <2>2. QED
    BY <1>2, <2>1, ApplyChain DEF Confirm
<1>3. ASSUME NEW c \in Command, Bridge(c) PROVE Chained'
  <2>1. ASSUME NEW type \in CommandType, Dispatch(c, type) PROVE Chained'
    BY <2>1, StillChain DEF Dispatch, docVars
  <2>2. CASE Refuse(c)
    BY <2>2, StillChain DEF Refuse, docVars
  <2>3. QED
    BY <1>3, <2>1, <2>2, PreviewChain, ClearChain DEF Bridge
<1>4. CASE UNCHANGED vars
  BY <1>4, StillChain DEF vars, docVars
<1>5. QED
  BY <1>1, <1>2, <1>3, <1>4 DEF Next

(* IN-12/F4: Ctrl+Z, pressed as often as there are records, wipes every trace *)
(* of previews and confirmations from every document and finds each object in *)
(* the state its record left it in, whatever bridge commands, confirmations,  *)
(* deletions, undos and redos interleaved.                                    *)
THEOREM UndoWipes == Spec => []UndoWipesEveryTrace
<1>1. Spec => []Inv
  BY InitInv, StepInv, PTL DEF Spec
<1>2. Spec => []Chained
  BY <1>1, InitChain, StepChain, PTL DEF Spec
<1>3. QED
  BY <1>1, <1>2, ChainWipes, PTL

(* IN-12/F4: Ctrl+Z and Ctrl+Y find every object they remove, bring back or   *)
(* restyle in the state they need it in, after any interleaving of bridge     *)
(* commands, confirmations, deletions, undos and redos in any document.       *)
THEOREM HistoryNeverBreaks == Spec => [](UndoFinds /\ RedoFinds)
<1>1. Spec => []Inv
  BY InitInv, StepInv, PTL DEF Spec
<1>2. Spec => []Chained
  BY <1>1, InitChain, StepChain, PTL DEF Spec
<1>3. QED
  BY <1>1, <1>2, ChainEnds, PTL
==============================================================================
