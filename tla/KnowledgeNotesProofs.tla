-------------------------- MODULE KnowledgeNotesProofs --------------------------
(***************************************************************************)
(* Theorems of KnowledgeNotes, for every set of requests, notes and jobs.  *)
(***************************************************************************)
EXTENDS KnowledgeNotes, TLAPS

(* What a step tells of the request that is at it.                            *)
FlowOf(r) ==
    /\ job[r] = None <=> pc[r] = "idle"
    /\ pc[r] \in {"merge", "link"} => job[r].kind = "ingest"
    /\ pc[r] \in {"exists", "change"} => job[r].kind \in {"edit", "delete"}
    /\ pc[r] \in {"propose", "review", "check", "write", "session", "join"} =>
          job[r].kind = "update"

Flow == \A r \in Request : FlowOf(r)

Updates(r) == job[r] # None /\ job[r].kind = "update"

(* What a confirmation wrote is the head of its list, as far as it is.        *)
HeadOf(r) ==
    /\ Len(affected[r]) <= Len(job[r].notes)
    /\ \A i \in 1 .. Len(affected[r]) : affected[r][i] = job[r].notes[i]

(* Steps before a request takes its time.                                     *)
Untimed == {"idle", "exists", "propose", "review"}

PrefixOf(r) ==
    /\ pc[r] = "idle" => r \notin sessions /\ at[r] = 1
    /\ pc[r] \in Untimed => affected[r] = <<>>
    /\ Updates(r) =>
          /\ HeadOf(r)
          /\ pc[r] = "review" => at[r] = 1
          /\ pc[r] \in {"check", "write"} => Len(affected[r]) = at[r] - 1
          /\ pc[r] \in {"session", "join", "done"} => Len(affected[r]) = Len(job[r].notes)
          /\ r \in sessions => /\ Len(affected[r]) = Len(job[r].notes)
                               /\ pc[r] \in {"join", "done", "failed"}

Prefix == \A r \in Request : PrefixOf(r)

(* Steps after a request took its time.                                       *)
Timed(r) ==
    \/ pc[r] \in {"merge", "link", "check", "write"}
    \/ pc[r] = "change" /\ job[r].kind = "edit"

(* A time belongs to one request, and a note that carries it was written by   *)
(* that request, as the histories of what was read and what is there say.     *)
Clocked ==
    /\ \A r \in Request : /\ pc[r] \in Untimed => now[r] = 0
                          /\ Timed(r) => now[r] > 0
    /\ \A q, r \in Request : now[q] = now[r] /\ now[q] > 0 => q = r

StampWritten == \A n \in Note : stamp[n] \in {None, 0} \/ \E q \in landed[n] : now[q] = stamp[n]

ReadWritten ==
    \A r \in Request, n \in Note :
        read[r][n] \in {None, 0} \/ \E q \in base[r][n] : now[q] = read[r][n]

(* A request writes a note once.                                              *)
OnceOf(r) ==
    /\ \A n \in Note : r \notin base[r][n]
    /\ \A n \in Note : pc[r] \in Untimed \cup {"change"} => r \notin landed[n]
    /\ pc[r] \in {"merge", "link"} =>
          \A i \in at[r] .. Len(job[r].notes) :
              r \in landed[job[r].notes[i]] => pc[r] = "link" /\ i = at[r]
    /\ pc[r] = "write" => r \notin landed[Current(r)]

Once == \A r \in Request : OnceOf(r)

(* A note that carries the time it was read with has not been written since.  *)
Unchanged ==
    \A r \in Request, n \in Note :
        /\ base[r][n] \subseteq landed[n]
        /\ read[r][n] # None /\ stamp[n] = read[r][n] => landed[n] = base[r][n]

(* The confirmation came between the reading and the check.                   *)
SentOf(r) ==
    /\ pc[r] \in {"check", "write", "session", "join"} =>
          \A n \in Note : base[r][n] \subseteq sent[r][n] /\ sent[r][n] \subseteq landed[n]
    /\ pc[r] = "write" => sent[r][Current(r)] = base[r][Current(r)]
    /\ Updates(r) => \A i \in DOMAIN affected[r] : sent[r][affected[r][i]] = base[r][affected[r][i]]

Sent == \A r \in Request : SentOf(r)

DeleteAsked(n) ==
    \E q \in Request : job[q] # None /\ job[q].kind = "delete" /\ job[q].notes[1] = n

LinkOf(r) ==
    /\ pc[r] = "link" => stamp[Current(r)] # None \/ DeleteAsked(Current(r))
    /\ job[r] # None /\ job[r].kind = "ingest" =>
          \A i \in DOMAIN affected[r] : affected[r][i] \in linked \/ DeleteAsked(affected[r][i])

Linked == \A r \in Request : LinkOf(r)

(* The inductive invariant.                                                   *)
Inv ==
    /\ TypeOK /\ Flow /\ Prefix /\ Clocked /\ StampWritten /\ ReadWritten
    /\ Once /\ Unchanged /\ Sent /\ Linked

------------------------------------------------------------------------------
(* What a job is.                                                             *)
LEMMA JobShape ==
    ASSUME NEW j \in Job
    PROVE  /\ j # None /\ j.kind \in Kinds /\ j.notes \in Seq(Note)
           /\ Len(j.notes) \in Nat /\ Len(j.notes) > 0
           /\ DOMAIN j.notes = 1 .. Len(j.notes)
           /\ \A i \in 1 .. Len(j.notes) : j.notes[i] \in Note
           /\ j.kind = "ingest" =>
                 \A i, k \in 1 .. Len(j.notes) : j.notes[i] = j.notes[k] => i = k
<1>1. j \in Jobs /\ j # None /\ j.notes # <<>>
  BY JobAssumption, NoteAssumption
<1>2. j.kind \in Kinds /\ j.notes \in Seq(Note)
  BY <1>1 DEF Jobs
<1>3. DOMAIN j.notes = 1 .. Len(j.notes) /\ Len(j.notes) \in Nat /\ Len(j.notes) > 0
  BY <1>1, <1>2
<1>4. \A i \in 1 .. Len(j.notes) : j.notes[i] \in Note
  BY <1>2, <1>3
<1>5. j.kind = "ingest" => \A i, k \in 1 .. Len(j.notes) : j.notes[i] = j.notes[k] => i = k
  <2>1. j.kind = "ingest" => IsInjective(j.notes)
    BY JobAssumption, Zenon
  <2> QED
    BY <1>3, <2>1 DEF IsInjective
<1> QED
  BY <1>1, <1>2, <1>3, <1>4, <1>5

(* A request that is under way is at a note of its list.                      *)
LEMMA CurrentNote ==
    ASSUME TypeOK, NEW r \in Request, job[r] # None
    PROVE  /\ job[r] \in Job /\ Current(r) \in Note
           /\ Len(job[r].notes) \in Nat /\ at[r] \in 1 .. Len(job[r].notes)
<1>1. job[r] \in Job
  BY DEF TypeOK
<1>2. at[r] \in 1 .. Len(job[r].notes)
  BY <1>1, JobShape DEF TypeOK
<1> QED
  BY <1>1, <1>2, JobShape DEF Current

(* After the last note a request goes on, and before it to the next note.     *)
LEMMA Advancing ==
    ASSUME TypeOK, NEW r \in Request, job[r] # None, NEW again, NEW finally,
           Advance(r, again, finally)
    PROVE  \/ /\ at[r] = Len(job[r].notes)
              /\ pc' = [pc EXCEPT ![r] = finally] /\ at' = [at EXCEPT ![r] = 1]
           \/ /\ at[r] < Len(job[r].notes)
              /\ pc' = [pc EXCEPT ![r] = again] /\ at' = [at EXCEPT ![r] = at[r] + 1]
BY CurrentNote DEF Advance, Last, Goes, TypeOK

(* At first no request has come.                                              *)
LEMMA InitInv == Init => Inv
<1> SUFFICES ASSUME Init PROVE Inv
  OBVIOUS
<1>1. TypeOK
  <2>1. <<>> \in Seq(Note)
    OBVIOUS
  <2>2. linked \subseteq Note /\ \A n \in linked : stamp[n] # None
    BY NoteAssumption DEF Init
  <2>3. /\ stamp \in [Note -> (0 .. clock) \cup {None}] /\ now \in [Request -> 0 .. clock]
        /\ read \in [Request -> [Note -> Nat \cup {None}]]
    BY DEF Init
  <2>4. /\ landed \in [Note -> SUBSET Request]
        /\ base \in [Request -> [Note -> SUBSET Request]]
        /\ sent \in [Request -> [Note -> SUBSET Request]]
    BY DEF Init
  <2>5. affected \in [Request -> Seq(Note)] /\ at \in [Request -> Nat]
    BY <2>1 DEF Init
  <2> QED
    BY <2>2, <2>3, <2>4, <2>5 DEF Init, TypeOK, Answers
<1>2. Flow /\ Prefix
  BY DEF Init, Flow, FlowOf, Prefix, PrefixOf, Updates
<1>3. Clocked /\ StampWritten /\ ReadWritten
  BY DEF Init, Clocked, StampWritten, ReadWritten, Timed
<1>4. Once /\ Unchanged
  BY DEF Init, Once, OnceOf, Unchanged, Untimed
<1>5. Sent /\ Linked
  BY DEF Init, Sent, SentOf, Linked, LinkOf, Updates
<1> QED
  BY <1>1, <1>2, <1>3, <1>4, <1>5 DEF Inv

------------------------------------------------------------------------------
(* The parts of the types.                                                    *)
StampOK ==
    /\ stamp \in [Note -> (0 .. clock) \cup {None}] /\ linked \subseteq Note
    /\ \A n \in linked : stamp[n] # None
ClockOK == clock \in Nat /\ now \in [Request -> 0 .. clock]
StepOK ==
    pc \in [Request -> {"idle", "merge", "link", "exists", "change", "propose", "review",
                        "check", "write", "session", "join"} \cup Answers]
PlaceOK ==
    /\ job \in [Request -> Job \cup {None}] /\ at \in [Request -> Nat]
    /\ \A r \in Request : job[r] # None => at[r] \in DOMAIN job[r].notes
ListOK == sessions \subseteq Request /\ affected \in [Request -> Seq(Note)]
PastOK ==
    /\ read \in [Request -> [Note -> Nat \cup {None}]]
    /\ landed \in [Note -> SUBSET Request]
    /\ base \in [Request -> [Note -> SUBSET Request]]
    /\ sent \in [Request -> [Note -> SUBSET Request]]

(* The parts together are the types.                                          *)
LEMMA TypeParts == TypeOK <=> StampOK /\ ClockOK /\ StepOK /\ PlaceOK /\ ListOK /\ PastOK
BY DEF TypeOK, StampOK, ClockOK, StepOK, PlaceOK, ListOK, PastOK

(* And so after a step.                                                       *)
LEMMA TypePartsNext ==
    ASSUME StampOK', ClockOK', StepOK', PlaceOK', ListOK', PastOK' PROVE TypeOK'
BY DEF TypeOK, StampOK, ClockOK, StepOK, PlaceOK, ListOK, PastOK

(* A request takes its time.                                                  *)
LEMMA TimeTyped ==
    ASSUME ClockOK, NEW r \in Request, TakeTime(r)
    PROVE  ClockOK' /\ clock' = clock + 1 /\ now' = [now EXCEPT ![r] = clock + 1]
BY DEF ClockOK, TakeTime

(* A later time keeps the type of updatedAt.                                  *)
LEMMA StampLater ==
    ASSUME StampOK, ClockOK, clock' = clock + 1, UNCHANGED <<stamp, linked>>
    PROVE  StampOK'
BY DEF StampOK, ClockOK

(* A write lands.                                                             *)
LEMMA LandTyped ==
    ASSUME TypeOK, NEW r \in Request, job[r] # None, Land(r), UNCHANGED clock
    PROVE  /\ stamp' \in [Note -> (0 .. clock) \cup {None}]
           /\ \A n \in Note : stamp[n] # None => stamp'[n] # None
           /\ landed' \in [Note -> SUBSET Request]
<1>1. Current(r) \in Note
  BY CurrentNote
<1>2. now[r] \in 0 .. clock /\ now[r] # None
  BY NoteAssumption DEF TypeOK
<1> QED
  BY <1>1, <1>2 DEF Land, TypeOK

(* A request goes to the next of its notes, or on.                            *)
LEMMA AdvanceTyped ==
    ASSUME TypeOK, NEW r \in Request, job[r] # None, UNCHANGED job,
           NEW again \in {"merge", "propose", "check"}, NEW finally \in {"done", "review", "session"},
           Advance(r, again, finally)
    PROVE  PlaceOK' /\ StepOK'
<1>1. job[r] \in Job /\ at[r] \in 1 .. Len(job[r].notes) /\ Len(job[r].notes) \in Nat
      /\ DOMAIN job[r].notes = 1 .. Len(job[r].notes)
  BY CurrentNote, JobShape
<1>2. CASE at[r] = Len(job[r].notes) /\ pc' = [pc EXCEPT ![r] = finally] /\ at' = [at EXCEPT ![r] = 1]
  <2>1. 1 \in DOMAIN job[r].notes
    BY <1>1
  <2>2. PlaceOK'
    BY <1>2, <2>1 DEF TypeOK, PlaceOK
  <2>3. StepOK'
    BY <1>2 DEF TypeOK, StepOK, Answers
  <2> QED
    BY <2>2, <2>3
<1>3. CASE /\ at[r] < Len(job[r].notes)
           /\ pc' = [pc EXCEPT ![r] = again] /\ at' = [at EXCEPT ![r] = at[r] + 1]
  BY SMTT(30), <1>1, <1>3 DEF TypeOK, PlaceOK, StepOK
<1> QED
  BY <1>2, <1>3, Advancing

(* A note is added to what a request wrote.                                   *)
LEMMA ListTyped ==
    ASSUME TypeOK, NEW r \in Request, job[r] # None, UNCHANGED sessions,
           affected' = [affected EXCEPT ![r] = Append(@, Current(r))]
    PROVE  ListOK'
BY CurrentNote DEF TypeOK, ListOK

(* The types, action by action.                                               *)
LEMMA NextTypes == Inv /\ [Next]_vars => TypeOK'
<1> SUFFICES ASSUME TypeOK, Flow, Prefix, [Next]_vars PROVE TypeOK'
  BY DEF Inv
<1> USE DEF graph, history
<1>0. StampOK /\ ClockOK /\ StepOK /\ PlaceOK /\ ListOK /\ PastOK
  BY TypeParts
<1>1. ASSUME NEW r \in Request, NEW j \in Job, Arrive(r, j) PROVE TypeOK'
  <2>1. PlaceOK'
    <3>1. at[r] \in DOMAIN j.notes
      BY <1>1, JobShape DEF Prefix, PrefixOf, Arrive
    <3> QED
      BY <1>0, <1>1, <3>1 DEF Arrive, PlaceOK
  <2>2. StepOK'
    BY <1>0, <1>1 DEF Arrive, Goes, StepOK
  <2>3. ClockOK' /\ StampOK'
    <3>1. UNCHANGED <<clock, now, stamp, linked>> \/ (TakeTime(r) /\ UNCHANGED <<stamp, linked>>)
      BY <1>1 DEF Arrive
    <3>2. CASE UNCHANGED <<clock, now, stamp, linked>>
      BY <1>0, <3>2 DEF ClockOK, StampOK
    <3>3. CASE TakeTime(r) /\ UNCHANGED <<stamp, linked>>
      BY <1>0, <3>3, TimeTyped, StampLater
    <3> QED
      BY <3>1, <3>2, <3>3
  <2>4. ListOK' /\ PastOK'
    BY <1>0, <1>1 DEF Arrive, ListOK, PastOK
  <2> QED
    BY <2>1, <2>2, <2>3, <2>4, TypePartsNext
<1>2. ASSUME NEW r \in Request, MergeNote(r) PROVE TypeOK'
  <2>0. job[r] # None
    BY <1>2 DEF MergeNote, Flow, FlowOf
  <2>1. PlaceOK' /\ StepOK'
    BY <1>0, <1>2 DEF MergeNote, Goes, PlaceOK, StepOK, Answers
  <2>2. ClockOK' /\ StampOK'
    BY <1>0, <2>0, <1>2, LandTyped DEF MergeNote, ClockOK, StampOK
  <2>3. ListOK'
    BY <1>0, <1>2 DEF MergeNote, ListOK
  <2>4. PastOK'
    BY <1>0, <2>0, <1>2, LandTyped DEF MergeNote, PastOK
  <2> QED
    BY <2>1, <2>2, <2>3, <2>4, TypePartsNext
<1>3. ASSUME NEW r \in Request, LinkNote(r) PROVE TypeOK'
  <2>0. job[r] # None
    BY <1>3 DEF LinkNote, Flow, FlowOf
  <2>1. PlaceOK' /\ StepOK'
    BY <2>0, <1>3, AdvanceTyped DEF LinkNote
  <2>2. ClockOK' /\ StampOK'
    BY <1>0, <2>0, <1>3, CurrentNote DEF LinkNote, ClockOK, StampOK
  <2>3. ListOK'
    BY <2>0, <1>3, ListTyped DEF LinkNote
  <2>4. PastOK'
    BY <1>0, <1>3 DEF LinkNote, PastOK
  <2> QED
    BY <2>1, <2>2, <2>3, <2>4, TypePartsNext
<1>4. ASSUME NEW r \in Request, Skip(r) PROVE TypeOK'
  <2>0. job[r] # None
    BY <1>4 DEF Skip, Flow, FlowOf
  <2>1. PlaceOK' /\ StepOK'
    BY <2>0, <1>4, AdvanceTyped DEF Skip
  <2>2. ClockOK' /\ StampOK'
    BY <1>0, <1>4 DEF Skip, ClockOK, StampOK
  <2>3. ListOK'
    BY <1>0, <1>4 DEF Skip, ListOK
  <2>4. PastOK'
    BY <1>0, <1>4 DEF Skip, PastOK
  <2> QED
    BY <2>1, <2>2, <2>3, <2>4, TypePartsNext
<1>5. ASSUME NEW r \in Request, Exists(r) PROVE TypeOK'
  <2>0. job[r] # None
    BY <1>5 DEF Exists, Flow, FlowOf
  <2>1. PlaceOK' /\ StepOK'
    BY <1>0, <1>5 DEF Exists, Goes, PlaceOK, StepOK, Answers
  <2>2. ClockOK' /\ StampOK'
    <3>1. UNCHANGED <<clock, now, stamp, linked>> \/ (TakeTime(r) /\ UNCHANGED <<stamp, linked>>)
      BY <1>5 DEF Exists
    <3>2. CASE UNCHANGED <<clock, now, stamp, linked>>
      BY <1>0, <3>2 DEF ClockOK, StampOK
    <3>3. CASE TakeTime(r) /\ UNCHANGED <<stamp, linked>>
      BY <1>0, <3>3, TimeTyped, StampLater
    <3> QED
      BY <3>1, <3>2, <3>3
  <2>3. ListOK'
    BY <1>0, <1>5 DEF Exists, ListOK
  <2>4. PastOK'
    BY <1>0, <1>5 DEF Exists, PastOK
  <2> QED
    BY <2>1, <2>2, <2>3, <2>4, TypePartsNext
<1>6. ASSUME NEW r \in Request, Edit(r) PROVE TypeOK'
  <2>0. job[r] # None
    BY <1>6 DEF Edit, Flow, FlowOf
  <2>1. PlaceOK' /\ StepOK'
    BY <1>0, <1>6 DEF Edit, Goes, PlaceOK, StepOK, Answers
  <2>2. ClockOK' /\ StampOK'
    BY <1>0, <2>0, <1>6, LandTyped DEF Edit, ClockOK, StampOK
  <2>3. ListOK'
    BY <1>0, <1>6 DEF Edit, ListOK
  <2>4. PastOK'
    BY <1>0, <2>0, <1>6, LandTyped DEF Edit, PastOK
  <2> QED
    BY <2>1, <2>2, <2>3, <2>4, TypePartsNext
<1>7. ASSUME NEW r \in Request, Delete(r) PROVE TypeOK'
  <2>0. job[r] # None
    BY <1>7 DEF Delete, Flow, FlowOf
  <2>1. PlaceOK' /\ StepOK'
    BY <1>0, <1>7 DEF Delete, Goes, PlaceOK, StepOK, Answers
  <2>2. ClockOK' /\ StampOK'
    BY <1>0, <2>0, <1>7, CurrentNote DEF Delete, ClockOK, StampOK
  <2>3. ListOK'
    BY <1>0, <1>7 DEF Delete, ListOK
  <2>4. PastOK'
    BY <1>0, <2>0, <1>7, CurrentNote DEF Delete, PastOK
  <2> QED
    BY <2>1, <2>2, <2>3, <2>4, TypePartsNext
<1>8. ASSUME NEW r \in Request, Propose(r) PROVE TypeOK'
  <2>0. job[r] # None
    BY <1>8 DEF Propose, Flow, FlowOf
  <2>1. PlaceOK' /\ StepOK'
    <3>1. CASE UNCHANGED at
      <4>1. Goes(r, "not found") \/ Goes(r, "failed") \/ Advance(r, "propose", "review")
        BY <1>8 DEF Propose
      <4>2. CASE Goes(r, "not found") \/ Goes(r, "failed")
        BY <1>0, <1>8, <3>1, <4>2 DEF Propose, Goes, PlaceOK, StepOK, Answers
      <4>3. CASE Advance(r, "propose", "review")
        BY <2>0, <1>8, <4>3, AdvanceTyped DEF Propose
      <4> QED
        BY <4>1, <4>2, <4>3
    <3>2. CASE Advance(r, "propose", "review")
      BY <2>0, <1>8, <3>2, AdvanceTyped DEF Propose
    <3> QED
      BY <1>8, <3>1, <3>2 DEF Propose
  <2>2. ClockOK' /\ StampOK'
    BY <1>0, <1>8 DEF Propose, ClockOK, StampOK
  <2>3. ListOK'
    BY <1>0, <1>8 DEF Propose, ListOK
  <2>4. PastOK'
    <3>1. Current(r) \in Note /\ stamp[Current(r)] \in Nat \cup {None} /\ landed[Current(r)] \in SUBSET Request
      BY <1>0, <2>0, CurrentNote DEF StampOK, ClockOK, PastOK
    <3>2. CASE UNCHANGED <<read, base>>
      BY <1>0, <1>8, <3>2 DEF Propose, PastOK
    <3>3. CASE /\ read' = [read EXCEPT ![r][Current(r)] = stamp[Current(r)]]
               /\ base' = [base EXCEPT ![r][Current(r)] = landed[Current(r)]]
      <4>1. read' \in [Request -> [Note -> Nat \cup {None}]]
        BY <1>0, <3>1, <3>3 DEF PastOK
      <4>2. base' \in [Request -> [Note -> SUBSET Request]]
        BY <1>0, <3>1, <3>3 DEF PastOK
      <4> QED
        BY <1>0, <1>8, <4>1, <4>2 DEF Propose, PastOK
    <3> QED
      BY <1>8, <3>2, <3>3 DEF Propose
  <2> QED
    BY <2>1, <2>2, <2>3, <2>4, TypePartsNext
<1>9. ASSUME NEW r \in Request, Confirm(r) PROVE TypeOK'
  <2>0. job[r] # None
    BY <1>9 DEF Confirm, Flow, FlowOf
  <2>1. PlaceOK' /\ StepOK'
    BY <1>0, <1>9 DEF Confirm, Goes, PlaceOK, StepOK, Answers
  <2>2. ClockOK' /\ StampOK'
    BY <1>0, <1>9, TimeTyped, StampLater DEF Confirm
  <2>3. ListOK'
    BY <1>0, <1>9 DEF Confirm, ListOK
  <2>4. PastOK'
    BY <1>0, <1>9 DEF Confirm, PastOK
  <2> QED
    BY <2>1, <2>2, <2>3, <2>4, TypePartsNext
<1>10. ASSUME NEW r \in Request, Check(r) PROVE TypeOK'
  <2>0. job[r] # None
    BY <1>10 DEF Check, Flow, FlowOf
  <2>1. PlaceOK' /\ StepOK'
    BY <1>0, <1>10 DEF Check, Goes, PlaceOK, StepOK, Answers
  <2>2. ClockOK' /\ StampOK'
    BY <1>0, <1>10 DEF Check, ClockOK, StampOK
  <2>3. ListOK'
    BY <1>0, <1>10 DEF Check, ListOK
  <2>4. PastOK'
    BY <1>0, <1>10 DEF Check, PastOK
  <2> QED
    BY <2>1, <2>2, <2>3, <2>4, TypePartsNext
<1>11. ASSUME NEW r \in Request, WriteNote(r) PROVE TypeOK'
  <2>0. job[r] # None
    BY <1>11 DEF WriteNote, Flow, FlowOf
  <2>1. PlaceOK' /\ StepOK'
    BY <2>0, <1>11, AdvanceTyped DEF WriteNote
  <2>2. ClockOK' /\ StampOK'
    BY <1>0, <2>0, <1>11, LandTyped DEF WriteNote, ClockOK, StampOK
  <2>3. ListOK'
    BY <2>0, <1>11, ListTyped DEF WriteNote
  <2>4. PastOK'
    BY <1>0, <2>0, <1>11, LandTyped DEF WriteNote, PastOK
  <2> QED
    BY <2>1, <2>2, <2>3, <2>4, TypePartsNext
<1>12. ASSUME NEW r \in Request, WriteSession(r) PROVE TypeOK'
  <2>0. job[r] # None
    BY <1>12 DEF WriteSession, Flow, FlowOf
  <2>1. PlaceOK' /\ StepOK'
    BY <1>0, <1>12 DEF WriteSession, Goes, PlaceOK, StepOK, Answers
  <2>2. ClockOK' /\ StampOK'
    BY <1>0, <1>12 DEF WriteSession, ClockOK, StampOK
  <2>3. ListOK'
    BY <1>0, <1>12 DEF WriteSession, ListOK
  <2>4. PastOK'
    BY <1>0, <1>12 DEF WriteSession, PastOK
  <2> QED
    BY <2>1, <2>2, <2>3, <2>4, TypePartsNext
<1>13. ASSUME NEW r \in Request, JoinSession(r) PROVE TypeOK'
  <2>0. job[r] # None
    BY <1>13 DEF JoinSession, Flow, FlowOf
  <2>1. PlaceOK' /\ StepOK'
    BY <1>0, <1>13 DEF JoinSession, Goes, PlaceOK, StepOK, Answers
  <2>2. ClockOK' /\ StampOK'
    BY <1>0, <1>13 DEF JoinSession, ClockOK, StampOK
  <2>3. ListOK'
    BY <1>0, <1>13 DEF JoinSession, ListOK
  <2>4. PastOK'
    BY <1>0, <1>13 DEF JoinSession, PastOK
  <2> QED
    BY <2>1, <2>2, <2>3, <2>4, TypePartsNext
<1>14. ASSUME NEW r \in Request, ConfirmFails(r) PROVE TypeOK'
  <2>0. job[r] # None
    BY <1>14 DEF ConfirmFails, Flow, FlowOf
  <2>1. PlaceOK' /\ StepOK'
    BY <1>0, <1>14 DEF ConfirmFails, Goes, PlaceOK, StepOK, Answers
  <2>2. ClockOK' /\ StampOK'
    BY <1>0, <1>14 DEF ConfirmFails, ClockOK, StampOK
  <2>3. ListOK'
    BY <1>0, <1>14 DEF ConfirmFails, ListOK
  <2>4. PastOK'
    BY <1>0, <1>14 DEF ConfirmFails, PastOK
  <2> QED
    BY <2>1, <2>2, <2>3, <2>4, TypePartsNext
<1>15. CASE UNCHANGED vars
  BY <1>15 DEF vars, TypeOK
<1> QED
  BY <1>1, <1>2, <1>3, <1>4, <1>5, <1>6, <1>7, <1>8, <1>9, <1>10, <1>11, <1>12, <1>13,
     <1>14, <1>15 DEF Next

(* A step says what is at it.                                                 *)
LEMMA NextFlow == Inv /\ [Next]_vars => Flow'
<1> SUFFICES ASSUME TypeOK, \A r \in Request : FlowOf(r), [Next]_vars, NEW q \in Request
             PROVE  FlowOf(q)'
  BY DEF Inv, Flow
<1> USE DEF graph, history
<1>1. ASSUME NEW r \in Request, NEW j \in Job, Arrive(r, j) PROVE FlowOf(q)'
  BY <1>1, JobShape DEF Arrive, Goes, FlowOf, TypeOK, Kinds
<1>2. ASSUME NEW r \in Request, MergeNote(r) PROVE FlowOf(q)'
  BY <1>2 DEF MergeNote, Goes, FlowOf, TypeOK
<1>3. ASSUME NEW r \in Request, LinkNote(r) PROVE FlowOf(q)'
  <2>1. job[r] # None
    BY <1>3 DEF LinkNote, FlowOf
  <2>2. pc' = [pc EXCEPT ![r] = pc'[r]] /\ (pc'[r] = "done" \/ pc'[r] = "merge")
    BY <1>3, <2>1, Advancing DEF LinkNote, TypeOK
  <2> QED
    BY <1>3, <2>1, <2>2 DEF LinkNote, FlowOf, TypeOK
<1>4. ASSUME NEW r \in Request, Skip(r) PROVE FlowOf(q)'
  <2>1. job[r] # None
    BY <1>4 DEF Skip, FlowOf
  <2>2. pc' = [pc EXCEPT ![r] = pc'[r]] /\ (pc'[r] = "done" \/ pc'[r] = "merge")
    BY <1>4, <2>1, Advancing DEF Skip, TypeOK
  <2> QED
    BY <1>4, <2>1, <2>2 DEF Skip, FlowOf, TypeOK
<1>5. ASSUME NEW r \in Request, Exists(r) PROVE FlowOf(q)'
  BY <1>5 DEF Exists, Goes, FlowOf, TypeOK
<1>6. ASSUME NEW r \in Request, Edit(r) PROVE FlowOf(q)'
  BY <1>6 DEF Edit, Goes, FlowOf, TypeOK
<1>7. ASSUME NEW r \in Request, Delete(r) PROVE FlowOf(q)'
  BY <1>7 DEF Delete, Goes, FlowOf, TypeOK
<1>8. ASSUME NEW r \in Request, Propose(r) PROVE FlowOf(q)'
  <2>1. job[r] # None
    BY <1>8 DEF Propose, FlowOf
  <2>2. pc' = [pc EXCEPT ![r] = pc'[r]] /\ pc'[r] \in {"not found", "failed", "propose", "review"}
    <3>1. CASE Advance(r, "propose", "review")
      <4>1. pc' = [pc EXCEPT ![r] = "review"] \/ pc' = [pc EXCEPT ![r] = "propose"]
        BY <2>1, <3>1, Advancing
      <4> QED
        BY <4>1 DEF TypeOK
    <3> QED
      BY <1>8, <3>1 DEF Propose, Goes, TypeOK
  <2> QED
    BY <1>8, <2>1, <2>2 DEF Propose, FlowOf, TypeOK
<1>9. ASSUME NEW r \in Request, Confirm(r) PROVE FlowOf(q)'
  BY <1>9 DEF Confirm, Goes, FlowOf, TypeOK
<1>10. ASSUME NEW r \in Request, Check(r) PROVE FlowOf(q)'
  BY <1>10 DEF Check, Goes, FlowOf, TypeOK
<1>11. ASSUME NEW r \in Request, WriteNote(r) PROVE FlowOf(q)'
  <2>1. job[r] # None
    BY <1>11 DEF WriteNote, FlowOf
  <2>2. pc' = [pc EXCEPT ![r] = pc'[r]] /\ (pc'[r] = "session" \/ pc'[r] = "check")
    BY <1>11, <2>1, Advancing DEF WriteNote, TypeOK
  <2> QED
    BY <1>11, <2>1, <2>2 DEF WriteNote, FlowOf, TypeOK
<1>12. ASSUME NEW r \in Request, WriteSession(r) PROVE FlowOf(q)'
  BY <1>12 DEF WriteSession, Goes, FlowOf, TypeOK
<1>13. ASSUME NEW r \in Request, JoinSession(r) PROVE FlowOf(q)'
  BY <1>13 DEF JoinSession, Goes, FlowOf, TypeOK
<1>14. ASSUME NEW r \in Request, ConfirmFails(r) PROVE FlowOf(q)'
  BY <1>14 DEF ConfirmFails, Goes, FlowOf, TypeOK
<1>15. CASE UNCHANGED vars
  BY <1>15 DEF vars, FlowOf
<1> QED
  BY <1>1, <1>2, <1>3, <1>4, <1>5, <1>6, <1>7, <1>8, <1>9, <1>10, <1>11, <1>12, <1>13,
     <1>14, <1>15 DEF Next

(* What a confirmation wrote stays the head of its list.                     *)
LEMMA NextPrefix == Inv /\ [Next]_vars => Prefix'
<1> SUFFICES ASSUME TypeOK, Flow, \A r \in Request : PrefixOf(r), [Next]_vars, NEW q \in Request
             PROVE  PrefixOf(q)'
  BY DEF Inv, Prefix
<1> USE DEF graph, history
<1>1. ASSUME NEW r \in Request, NEW j \in Job, Arrive(r, j) PROVE PrefixOf(q)'
  BY SMTT(30), <1>1, JobShape DEF Arrive, Goes, PrefixOf, HeadOf, Updates, Untimed, TypeOK
<1>2. ASSUME NEW r \in Request, MergeNote(r) PROVE PrefixOf(q)'
  BY <1>2 DEF MergeNote, Goes, Flow, FlowOf, PrefixOf, HeadOf, Updates, Untimed, TypeOK
<1>3. ASSUME NEW r \in Request, LinkNote(r) PROVE PrefixOf(q)'
  <2>1. job[r] # None
    BY <1>3 DEF LinkNote, Flow, FlowOf
  <2>2. \/ /\ at[r] = Len(job[r].notes)
           /\ pc' = [pc EXCEPT ![r] = "done"] /\ at' = [at EXCEPT ![r] = 1]
        \/ /\ at[r] < Len(job[r].notes)
           /\ pc' = [pc EXCEPT ![r] = "merge"] /\ at' = [at EXCEPT ![r] = at[r] + 1]
    BY <1>3, <2>1, Advancing DEF LinkNote
  <2>3. ~Updates(r)
    BY <1>3 DEF LinkNote, Flow, FlowOf, Updates
  <2>4. CASE q = r
    BY <1>3, <2>2, <2>3, <2>4 DEF LinkNote, PrefixOf, HeadOf, Updates, Untimed, TypeOK
  <2>5. CASE q # r
    BY <1>3, <2>2, <2>5 DEF LinkNote, PrefixOf, HeadOf, Updates, Untimed, TypeOK
  <2> QED
    BY <2>4, <2>5
<1>4. ASSUME NEW r \in Request, Skip(r) PROVE PrefixOf(q)'
  <2>1. job[r] # None
    BY <1>4 DEF Skip, Flow, FlowOf
  <2>2. \/ /\ at[r] = Len(job[r].notes)
           /\ pc' = [pc EXCEPT ![r] = "done"] /\ at' = [at EXCEPT ![r] = 1]
        \/ /\ at[r] < Len(job[r].notes)
           /\ pc' = [pc EXCEPT ![r] = "merge"] /\ at' = [at EXCEPT ![r] = at[r] + 1]
    BY <1>4, <2>1, Advancing DEF Skip
  <2>3. ~Updates(r)
    BY <1>4 DEF Skip, Flow, FlowOf, Updates
  <2>4. CASE q = r
    BY <1>4, <2>2, <2>3, <2>4 DEF Skip, PrefixOf, HeadOf, Updates, Untimed, TypeOK
  <2>5. CASE q # r
    BY <1>4, <2>2, <2>5 DEF Skip, PrefixOf, HeadOf, Updates, Untimed, TypeOK
  <2> QED
    BY <2>4, <2>5
<1>5. ASSUME NEW r \in Request, Exists(r) PROVE PrefixOf(q)'
  BY <1>5 DEF Exists, Goes, Flow, FlowOf, PrefixOf, HeadOf, Updates, Untimed, TypeOK
<1>6. ASSUME NEW r \in Request, Edit(r) PROVE PrefixOf(q)'
  BY <1>6 DEF Edit, Goes, Flow, FlowOf, PrefixOf, HeadOf, Updates, Untimed, TypeOK
<1>7. ASSUME NEW r \in Request, Delete(r) PROVE PrefixOf(q)'
  BY <1>7 DEF Delete, Goes, Flow, FlowOf, PrefixOf, HeadOf, Updates, Untimed, TypeOK
<1>8. ASSUME NEW r \in Request, Propose(r) PROVE PrefixOf(q)'
  <2>1. job[r] # None
    BY <1>8 DEF Propose, Flow, FlowOf
  <2>2. \/ pc' = [pc EXCEPT ![r] = "review"] /\ at' = [at EXCEPT ![r] = 1]
        \/ pc' = [pc EXCEPT ![r] = "propose"] /\ at' = [at EXCEPT ![r] = at[r] + 1]
        \/ pc' = [pc EXCEPT ![r] = "not found"] /\ at' = at
        \/ pc' = [pc EXCEPT ![r] = "failed"] /\ at' = at
    <3>1. CASE Advance(r, "propose", "review")
      BY <2>1, <3>1, Advancing
    <3> QED
      BY <1>8, <3>1 DEF Propose, Goes
  <2>3. CASE q = r
    <3>1. pc[r] = "propose" /\ job' = job /\ affected' = affected /\ sessions' = sessions
      BY <1>8 DEF Propose
    <3>2. pc'[r] \in {"review", "propose", "not found", "failed"} /\ (pc'[r] = "review" => at'[r] = 1)
      BY <2>2 DEF TypeOK
    <3>3. affected[r] = <<>> /\ r \notin sessions
      BY <2>1, <3>1 DEF PrefixOf, Untimed, Updates, Flow, FlowOf
    <3>4. HeadOf(r) => HeadOf(r)'
      BY <3>1 DEF HeadOf
    <3> QED
      BY <2>3, <3>1, <3>2, <3>3, <3>4 DEF PrefixOf, Untimed, Updates
  <2>4. CASE q # r
    BY ZenonT(60), <1>8, <2>2, <2>4 DEF Propose, PrefixOf, HeadOf, Updates, Untimed, TypeOK
  <2> QED
    BY <2>3, <2>4
<1>9. ASSUME NEW r \in Request, Confirm(r) PROVE PrefixOf(q)'
  <2>1. CASE q = r
    <3>1. pc[r] = "review" /\ job' = job /\ affected' = affected /\ sessions' = sessions /\ at' = at
      BY <1>9 DEF Confirm
    <3>2. pc'[r] \in {"too large", "check"}
      BY <1>9 DEF Confirm, Goes, TypeOK
    <3>3. affected[r] = <<>> /\ r \notin sessions /\ at[r] = 1
      BY <3>1 DEF PrefixOf, Untimed, Updates, Flow, FlowOf
    <3>4. HeadOf(r) => HeadOf(r)'
      BY <3>1 DEF HeadOf
    <3>5. Len(affected'[r]) = at'[r] - 1
      BY <3>1, <3>3
    <3> QED
      BY <2>1, <3>1, <3>2, <3>3, <3>4, <3>5 DEF PrefixOf, Untimed, Updates
  <2>2. CASE q # r
    BY <1>9, <2>2 DEF Confirm, Goes, PrefixOf, HeadOf, Updates, Untimed, TypeOK
  <2> QED
    BY <2>1, <2>2
<1>10. ASSUME NEW r \in Request, Check(r) PROVE PrefixOf(q)'
  BY <1>10 DEF Check, Goes, Flow, FlowOf, PrefixOf, HeadOf, Updates, Untimed, TypeOK
<1>11. ASSUME NEW r \in Request, WriteNote(r) PROVE PrefixOf(q)'
  <2>1. job[r] # None
    BY <1>11 DEF WriteNote, Flow, FlowOf
  <2>2. \/ /\ at[r] = Len(job[r].notes)
           /\ pc' = [pc EXCEPT ![r] = "session"] /\ at' = [at EXCEPT ![r] = 1]
        \/ /\ at[r] < Len(job[r].notes)
           /\ pc' = [pc EXCEPT ![r] = "check"] /\ at' = [at EXCEPT ![r] = at[r] + 1]
    BY <1>11, <2>1, Advancing DEF WriteNote
  <2>3. CASE q = r
    <3>1. affected[r] \in Seq(Note) /\ Current(r) \in Note /\ at[r] \in 1 .. Len(job[r].notes)
          /\ Len(job[r].notes) \in Nat
      BY <2>1, CurrentNote DEF TypeOK
    <3>2. Updates(r) /\ HeadOf(r) /\ Len(affected[r]) = at[r] - 1 /\ r \notin sessions
      BY <1>11, <2>1 DEF WriteNote, Flow, FlowOf, PrefixOf, Updates
    <3>3. affected'[r] = Append(affected[r], job[r].notes[at[r]]) /\ job' = job /\ sessions' = sessions
      BY <1>11 DEF WriteNote, Current, TypeOK
    <3>4. Len(affected'[r]) = at[r]
          /\ \A i \in 1 .. at[r] : affected'[r][i] = job[r].notes[i]
      <4>1. PICK touched \in Seq(Note), n \in Nat :
              touched = affected[r] /\ n = Len(touched) /\ at[r] = n + 1
        BY <3>1, <3>2
      <4>2. PICK note \in Note : note = job[r].notes[at[r]]
        BY <3>1 DEF Current
      <4>3. /\ Len(Append(touched, note)) = n + 1 /\ Append(touched, note)[n + 1] = note
            /\ \A i \in 1 .. n : Append(touched, note)[i] = touched[i]
        BY <4>1
      <4>4. \A i \in 1 .. n : touched[i] = job[r].notes[i]
        BY <3>2, <4>1 DEF HeadOf
      <4>5. \A i \in 1 .. n + 1 : i \in 1 .. n \/ i = n + 1
        BY <4>1
      <4> QED
        BY <3>3, <4>1, <4>2, <4>3, <4>4, <4>5
    <3>5. HeadOf(r)'
      BY <3>1, <3>3, <3>4 DEF HeadOf
    <3> QED
      BY <2>2, <2>3, <3>1, <3>2, <3>3, <3>4, <3>5 DEF PrefixOf, Untimed, TypeOK
  <2>4. CASE q # r
    BY SMTT(30), <1>11, <2>2, <2>4 DEF WriteNote, PrefixOf, HeadOf, Updates, Untimed, TypeOK
  <2> QED
    BY <2>3, <2>4
<1>12. ASSUME NEW r \in Request, WriteSession(r) PROVE PrefixOf(q)'
  BY <1>12 DEF WriteSession, Goes, Flow, FlowOf, PrefixOf, HeadOf, Updates, Untimed, TypeOK
<1>13. ASSUME NEW r \in Request, JoinSession(r) PROVE PrefixOf(q)'
  BY <1>13 DEF JoinSession, Goes, Flow, FlowOf, PrefixOf, HeadOf, Updates, Untimed, TypeOK
<1>14. ASSUME NEW r \in Request, ConfirmFails(r) PROVE PrefixOf(q)'
  BY <1>14 DEF ConfirmFails, Goes, Flow, FlowOf, PrefixOf, HeadOf, Updates, Untimed, TypeOK
<1>15. CASE UNCHANGED vars
  BY <1>15 DEF vars, PrefixOf, HeadOf, Updates
<1> QED
  BY <1>1, <1>2, <1>3, <1>4, <1>5, <1>6, <1>7, <1>8, <1>9, <1>10, <1>11, <1>12, <1>13,
     <1>14, <1>15 DEF Next

(* Whoever takes a time takes it once.                                         *)
LEMMA NextClocked == Inv /\ [Next]_vars => Clocked'
<1> SUFFICES ASSUME TypeOK, Flow, Clocked, [Next]_vars PROVE Clocked'
  BY DEF Inv
<1> USE DEF graph, history
<1>1. ASSUME NEW r \in Request, NEW j \in Job, Arrive(r, j) PROVE Clocked'
  <2>1. pc[r] \in Untimed /\ now[r] = 0
    BY <1>1 DEF Arrive, Clocked, Untimed
  <2>2. CASE TakeTime(r)
    <3>1. clock' = clock + 1 /\ now' = [now EXCEPT ![r] = clock + 1] /\ clock \in Nat
          /\ now \in [Request -> 0 .. clock]
      BY <2>2 DEF TakeTime, TypeOK
    <3>2. \A q, s \in Request : now'[q] = now'[s] /\ now'[q] > 0 => q = s
      BY <3>1 DEF Clocked
    <3>3. pc' = [pc EXCEPT ![r] = pc'[r]] /\ pc'[r] \notin Untimed
      BY <1>1, <2>2 DEF Arrive, Goes, TypeOK, Untimed, TakeTime
    <3>4. \A q \in Request : q # r => Timed(q)' = Timed(q)
      BY <1>1, <3>3 DEF Arrive, Timed, TypeOK
    <3> QED
      BY <2>1, <3>1, <3>2, <3>3, <3>4 DEF Clocked, TypeOK
  <2>3. CASE UNCHANGED <<clock, now>>
    BY <1>1, <2>1, <2>3, JobShape DEF Arrive, Goes, Kinds, TakeTime, Clocked, Timed, Untimed, TypeOK, Flow, FlowOf
  <2> QED
    BY <1>1, <2>2, <2>3 DEF Arrive
<1>2. ASSUME NEW r \in Request, MergeNote(r) PROVE Clocked'
  BY <1>2 DEF MergeNote, Goes, Land, Clocked, Timed, Untimed, TypeOK, Flow, FlowOf
<1>3. ASSUME NEW r \in Request, LinkNote(r) PROVE Clocked'
  <2>1. job[r] # None
    BY <1>3 DEF LinkNote, Flow, FlowOf
  <2>2. \/ /\ at[r] = Len(job[r].notes)
           /\ pc' = [pc EXCEPT ![r] = "done"] /\ at' = [at EXCEPT ![r] = 1]
        \/ /\ at[r] < Len(job[r].notes)
           /\ pc' = [pc EXCEPT ![r] = "merge"] /\ at' = [at EXCEPT ![r] = at[r] + 1]
    BY <1>3, <2>1, Advancing DEF LinkNote
  <2> QED
    BY SMTT(30), <1>3, <2>2 DEF LinkNote, Clocked, Timed, Untimed, TypeOK, Flow, FlowOf
<1>4. ASSUME NEW r \in Request, Skip(r) PROVE Clocked'
  <2>1. job[r] # None
    BY <1>4 DEF Skip, Flow, FlowOf
  <2>2. \/ /\ at[r] = Len(job[r].notes)
           /\ pc' = [pc EXCEPT ![r] = "done"] /\ at' = [at EXCEPT ![r] = 1]
        \/ /\ at[r] < Len(job[r].notes)
           /\ pc' = [pc EXCEPT ![r] = "merge"] /\ at' = [at EXCEPT ![r] = at[r] + 1]
    BY <1>4, <2>1, Advancing DEF Skip
  <2> QED
    BY SMTT(30), <1>4, <2>2 DEF Skip, Clocked, Timed, Untimed, TypeOK, Flow, FlowOf
<1>5. ASSUME NEW r \in Request, Exists(r) PROVE Clocked'
  <2>1. pc[r] \in Untimed /\ now[r] = 0
    BY <1>5 DEF Exists, Clocked, Untimed
  <2>2. CASE TakeTime(r)
    <3>1. clock' = clock + 1 /\ now' = [now EXCEPT ![r] = clock + 1] /\ clock \in Nat
          /\ now \in [Request -> 0 .. clock]
      BY <2>2 DEF TakeTime, TypeOK
    <3>2. \A q, s \in Request : now'[q] = now'[s] /\ now'[q] > 0 => q = s
      BY <3>1 DEF Clocked
    <3>3. pc' = [pc EXCEPT ![r] = pc'[r]] /\ pc'[r] \notin Untimed
      BY <1>5, <2>2 DEF Exists, Goes, TypeOK, Untimed, TakeTime
    <3>4. \A q \in Request : q # r => Timed(q)' = Timed(q)
      BY <1>5, <3>3 DEF Exists, Timed, TypeOK
    <3> QED
      BY <2>1, <3>1, <3>2, <3>3, <3>4 DEF Clocked, TypeOK
  <2>3. CASE UNCHANGED <<clock, now>>
    <3>1. clock' # clock + 1
      BY <2>3 DEF TypeOK
    <3>2. job[r].kind # "edit" /\ job' = job
      BY <1>5, <3>1 DEF Exists, TakeTime
    <3>3. \E to \in {"not found", "change"} : pc' = [pc EXCEPT ![r] = to]
      BY <1>5 DEF Exists, Goes
    <3> QED
      BY <2>3, <3>2, <3>3 DEF Clocked, Timed, Untimed, TypeOK
  <2> QED
    BY <1>5, <2>2, <2>3 DEF Exists
<1>6. ASSUME NEW r \in Request, Edit(r) PROVE Clocked'
  BY <1>6 DEF Edit, Goes, Land, Clocked, Timed, Untimed, TypeOK, Flow, FlowOf
<1>7. ASSUME NEW r \in Request, Delete(r) PROVE Clocked'
  BY <1>7 DEF Delete, Goes, Land, Clocked, Timed, Untimed, TypeOK, Flow, FlowOf
<1>8. ASSUME NEW r \in Request, Propose(r) PROVE Clocked'
  <2>1. job[r] # None
    BY <1>8 DEF Propose, Flow, FlowOf
  <2>2. \E to \in {"review", "propose", "not found", "failed"} : pc' = [pc EXCEPT ![r] = to]
    <3>1. CASE Advance(r, "propose", "review")
      BY <2>1, <3>1, Advancing
    <3> QED
      BY <1>8, <3>1 DEF Propose, Goes
  <2> QED
    BY <1>8, <2>2 DEF Propose, Clocked, Timed, Untimed, TypeOK, Flow, FlowOf
<1>9. ASSUME NEW r \in Request, Confirm(r) PROVE Clocked'
  <2>1. pc[r] \in Untimed /\ now[r] = 0
    BY <1>9 DEF Confirm, Clocked, Untimed
  <2>2. CASE TakeTime(r)
    <3>1. clock' = clock + 1 /\ now' = [now EXCEPT ![r] = clock + 1] /\ clock \in Nat
          /\ now \in [Request -> 0 .. clock]
      BY <2>2 DEF TakeTime, TypeOK
    <3>2. \A q, s \in Request : now'[q] = now'[s] /\ now'[q] > 0 => q = s
      BY <3>1 DEF Clocked
    <3>3. pc' = [pc EXCEPT ![r] = pc'[r]] /\ pc'[r] \notin Untimed
      BY <1>9, <2>2 DEF Confirm, Goes, TypeOK, Untimed, TakeTime
    <3>4. \A q \in Request : q # r => Timed(q)' = Timed(q)
      BY <1>9, <3>3 DEF Confirm, Timed, TypeOK
    <3> QED
      BY <2>1, <3>1, <3>2, <3>3, <3>4 DEF Clocked, TypeOK
  <2> QED
    BY <1>9, <2>2 DEF Confirm
<1>10. ASSUME NEW r \in Request, Check(r) PROVE Clocked'
  BY <1>10 DEF Check, Goes, Land, Clocked, Timed, Untimed, TypeOK, Flow, FlowOf
<1>11. ASSUME NEW r \in Request, WriteNote(r) PROVE Clocked'
  <2>1. job[r] # None
    BY <1>11 DEF WriteNote, Flow, FlowOf
  <2>2. \/ /\ at[r] = Len(job[r].notes)
           /\ pc' = [pc EXCEPT ![r] = "session"] /\ at' = [at EXCEPT ![r] = 1]
        \/ /\ at[r] < Len(job[r].notes)
           /\ pc' = [pc EXCEPT ![r] = "check"] /\ at' = [at EXCEPT ![r] = at[r] + 1]
    BY <1>11, <2>1, Advancing DEF WriteNote
  <2> QED
    BY SMTT(30), <1>11, <2>2 DEF WriteNote, Clocked, Timed, Untimed, TypeOK, Flow, FlowOf
<1>12. ASSUME NEW r \in Request, WriteSession(r) PROVE Clocked'
  BY <1>12 DEF WriteSession, Goes, Land, Clocked, Timed, Untimed, TypeOK, Flow, FlowOf
<1>13. ASSUME NEW r \in Request, JoinSession(r) PROVE Clocked'
  BY <1>13 DEF JoinSession, Goes, Land, Clocked, Timed, Untimed, TypeOK, Flow, FlowOf
<1>14. ASSUME NEW r \in Request, ConfirmFails(r) PROVE Clocked'
  BY <1>14 DEF ConfirmFails, Goes, Land, Clocked, Timed, Untimed, TypeOK, Flow, FlowOf
<1>15. CASE UNCHANGED vars
  BY <1>15 DEF vars, Clocked, Timed
<1> QED
  BY <1>1, <1>2, <1>3, <1>4, <1>5, <1>6, <1>7, <1>8, <1>9, <1>10, <1>11, <1>12, <1>13,
     <1>14, <1>15 DEF Next

(* A time once taken is kept.                                               *)
LEMMA TimesKept == Inv /\ [Next]_vars => \A q \in Request : now[q] > 0 => now'[q] = now[q]
<1> SUFFICES ASSUME TypeOK, Clocked, [Next]_vars
             PROVE  \A q \in Request : now[q] > 0 => now'[q] = now[q]
  BY DEF Inv
<1> USE DEF graph, history
<1>1. ASSUME NEW r \in Request, NEW j \in Job, Arrive(r, j)
      PROVE  \A q \in Request : now[q] > 0 => now'[q] = now[q]
  <2>1. now[r] = 0
    BY <1>1 DEF Arrive, Clocked, Untimed
  <2>2. now' = now \/ now' = [now EXCEPT ![r] = clock + 1]
    BY <1>1 DEF Arrive, TakeTime
  <2> QED
    BY <2>1, <2>2 DEF TypeOK
<1>2. ASSUME NEW r \in Request, MergeNote(r) PROVE \A q \in Request : now[q] > 0 => now'[q] = now[q]
  BY <1>2 DEF MergeNote
<1>3. ASSUME NEW r \in Request, LinkNote(r) PROVE \A q \in Request : now[q] > 0 => now'[q] = now[q]
  BY <1>3 DEF LinkNote
<1>4. ASSUME NEW r \in Request, Skip(r) PROVE \A q \in Request : now[q] > 0 => now'[q] = now[q]
  BY <1>4 DEF Skip
<1>5. ASSUME NEW r \in Request, Exists(r) PROVE \A q \in Request : now[q] > 0 => now'[q] = now[q]
  <2>1. now[r] = 0
    BY <1>5 DEF Exists, Clocked, Untimed
  <2>2. now' = now \/ now' = [now EXCEPT ![r] = clock + 1]
    BY <1>5 DEF Exists, TakeTime
  <2> QED
    BY <2>1, <2>2 DEF TypeOK
<1>6. ASSUME NEW r \in Request, Edit(r) PROVE \A q \in Request : now[q] > 0 => now'[q] = now[q]
  BY <1>6 DEF Edit
<1>7. ASSUME NEW r \in Request, Delete(r) PROVE \A q \in Request : now[q] > 0 => now'[q] = now[q]
  BY <1>7 DEF Delete
<1>8. ASSUME NEW r \in Request, Propose(r) PROVE \A q \in Request : now[q] > 0 => now'[q] = now[q]
  BY <1>8 DEF Propose
<1>9. ASSUME NEW r \in Request, Confirm(r) PROVE \A q \in Request : now[q] > 0 => now'[q] = now[q]
  <2>1. now[r] = 0
    BY <1>9 DEF Confirm, Clocked, Untimed
  <2>2. now' = now \/ now' = [now EXCEPT ![r] = clock + 1]
    BY <1>9 DEF Confirm, TakeTime
  <2> QED
    BY <2>1, <2>2 DEF TypeOK
<1>10. ASSUME NEW r \in Request, Check(r) PROVE \A q \in Request : now[q] > 0 => now'[q] = now[q]
  BY <1>10 DEF Check
<1>11. ASSUME NEW r \in Request, WriteNote(r) PROVE \A q \in Request : now[q] > 0 => now'[q] = now[q]
  BY <1>11 DEF WriteNote
<1>12. ASSUME NEW r \in Request, WriteSession(r) PROVE \A q \in Request : now[q] > 0 => now'[q] = now[q]
  BY <1>12 DEF WriteSession
<1>13. ASSUME NEW r \in Request, JoinSession(r) PROVE \A q \in Request : now[q] > 0 => now'[q] = now[q]
  BY <1>13 DEF JoinSession
<1>14. ASSUME NEW r \in Request, ConfirmFails(r) PROVE \A q \in Request : now[q] > 0 => now'[q] = now[q]
  BY <1>14 DEF ConfirmFails
<1>15. CASE UNCHANGED vars
  BY <1>15 DEF vars
<1> QED
  BY <1>1, <1>2, <1>3, <1>4, <1>5, <1>6, <1>7, <1>8, <1>9, <1>10, <1>11, <1>12, <1>13,
     <1>14, <1>15 DEF Next

(* What a step does to a note: nothing, delete it, or write it at a time that *)
(* is the writer's.                                                           *)
Deletes(n) ==
    stamp'[n] = None /\ \E r \in Request : landed'[n] = landed[n] \cup {r}

WritesTo(r, n) ==
    /\ stamp'[n] = now[r] /\ landed'[n] = landed[n] \cup {r}
    /\ now[r] > 0 /\ n = Current(r) /\ pc[r] \in {"merge", "change", "write"}

Effect(n) ==
    \/ stamp'[n] = stamp[n] /\ landed'[n] = landed[n]
    \/ Deletes(n)
    \/ \E r \in Request : WritesTo(r, n)

(* Every step does one of these to every note.                                *)
LEMMA Effects == Inv /\ [Next]_vars => \A n \in Note : Effect(n)
<1> SUFFICES ASSUME TypeOK, Flow, Clocked, [Next]_vars PROVE \A n \in Note : Effect(n)
  BY DEF Inv
<1> USE DEF graph, history
<1>1. ASSUME NEW r \in Request, NEW j \in Job, Arrive(r, j) PROVE \A n \in Note : Effect(n)
  BY <1>1 DEF Arrive, Effect
<1>2. ASSUME NEW r \in Request, MergeNote(r) PROVE \A n \in Note : Effect(n)
  <2>1. job[r] # None /\ pc[r] = "merge"
    BY <1>2 DEF MergeNote, Flow, FlowOf
  <2>2. now[r] > 0 /\ Current(r) \in Note
    BY <1>2, <2>1, CurrentNote DEF MergeNote, Clocked, Timed
  <2>3. CASE UNCHANGED <<stamp, landed>>
    BY <2>3 DEF Effect
  <2>4. CASE Land(r)
    <3>1. WritesTo(r, Current(r))
      BY <2>1, <2>2, <2>4 DEF Land, WritesTo, TypeOK
    <3>2. \A n \in Note : n # Current(r) => stamp'[n] = stamp[n] /\ landed'[n] = landed[n]
      BY <2>2, <2>4 DEF Land, TypeOK
    <3> QED
      BY <3>1, <3>2 DEF Effect
  <2> QED
    BY <1>2, <2>3, <2>4 DEF MergeNote
<1>3. ASSUME NEW r \in Request, LinkNote(r) PROVE \A n \in Note : Effect(n)
  BY <1>3 DEF LinkNote, Effect
<1>4. ASSUME NEW r \in Request, Skip(r) PROVE \A n \in Note : Effect(n)
  BY <1>4 DEF Skip, Effect
<1>5. ASSUME NEW r \in Request, Exists(r) PROVE \A n \in Note : Effect(n)
  BY <1>5 DEF Exists, Effect
<1>6. ASSUME NEW r \in Request, Edit(r) PROVE \A n \in Note : Effect(n)
  <2>1. job[r] # None /\ pc[r] = "change"
    BY <1>6 DEF Edit, Flow, FlowOf
  <2>2. now[r] > 0 /\ Current(r) \in Note
    BY <1>6, <2>1, CurrentNote DEF Edit, Clocked, Timed
  <2>3. CASE UNCHANGED <<stamp, landed>>
    BY <2>3 DEF Effect
  <2>4. CASE Land(r)
    <3>1. WritesTo(r, Current(r))
      BY <2>1, <2>2, <2>4 DEF Land, WritesTo, TypeOK
    <3>2. \A n \in Note : n # Current(r) => stamp'[n] = stamp[n] /\ landed'[n] = landed[n]
      BY <2>2, <2>4 DEF Land, TypeOK
    <3> QED
      BY <3>1, <3>2 DEF Effect
  <2> QED
    BY <1>6, <2>3, <2>4 DEF Edit
<1>7. ASSUME NEW r \in Request, Delete(r) PROVE \A n \in Note : Effect(n)
  <2>1. job[r] # None
    BY <1>7 DEF Delete, Flow, FlowOf
  <2>2. Current(r) \in Note
    BY <2>1, CurrentNote
  <2>3. Deletes(Current(r))
    BY <1>7, <2>2 DEF Delete, Deletes, TypeOK
  <2>4. \A n \in Note : n # Current(r) => stamp'[n] = stamp[n] /\ landed'[n] = landed[n]
    BY <1>7, <2>2 DEF Delete, TypeOK
  <2> QED
    BY <2>3, <2>4 DEF Effect
<1>8. ASSUME NEW r \in Request, Propose(r) PROVE \A n \in Note : Effect(n)
  BY <1>8 DEF Propose, Effect
<1>9. ASSUME NEW r \in Request, Confirm(r) PROVE \A n \in Note : Effect(n)
  BY <1>9 DEF Confirm, Effect
<1>10. ASSUME NEW r \in Request, Check(r) PROVE \A n \in Note : Effect(n)
  BY <1>10 DEF Check, Effect
<1>11. ASSUME NEW r \in Request, WriteNote(r) PROVE \A n \in Note : Effect(n)
  <2>1. job[r] # None /\ pc[r] = "write"
    BY <1>11 DEF WriteNote, Flow, FlowOf
  <2>2. now[r] > 0 /\ Current(r) \in Note
    BY <1>11, <2>1, CurrentNote DEF WriteNote, Clocked, Timed
  <2>3. CASE UNCHANGED <<stamp, landed>>
    BY <2>3 DEF Effect
  <2>4. CASE Land(r)
    <3>1. WritesTo(r, Current(r))
      BY <2>1, <2>2, <2>4 DEF Land, WritesTo, TypeOK
    <3>2. \A n \in Note : n # Current(r) => stamp'[n] = stamp[n] /\ landed'[n] = landed[n]
      BY <2>2, <2>4 DEF Land, TypeOK
    <3> QED
      BY <3>1, <3>2 DEF Effect
  <2> QED
    BY <1>11, <2>3, <2>4 DEF WriteNote
<1>12. ASSUME NEW r \in Request, WriteSession(r) PROVE \A n \in Note : Effect(n)
  BY <1>12 DEF WriteSession, Effect
<1>13. ASSUME NEW r \in Request, JoinSession(r) PROVE \A n \in Note : Effect(n)
  BY <1>13 DEF JoinSession, Effect
<1>14. ASSUME NEW r \in Request, ConfirmFails(r) PROVE \A n \in Note : Effect(n)
  BY <1>14 DEF ConfirmFails, Effect
<1>15. CASE UNCHANGED vars
  BY <1>15 DEF vars, Effect
<1> QED
  BY <1>1, <1>2, <1>3, <1>4, <1>5, <1>6, <1>7, <1>8, <1>9, <1>10, <1>11, <1>12, <1>13,
     <1>14, <1>15 DEF Next

(* What a step has a request read: nothing, or a note as it is.               *)
Read(r, n) ==
    \/ read'[r][n] = read[r][n] /\ base'[r][n] = base[r][n]
    \/ /\ pc[r] = "propose" /\ stamp[n] # None /\ UNCHANGED <<stamp, landed>>
       /\ read'[r][n] = stamp[n] /\ base'[r][n] = landed[n]

(* Every step is one of these to every request.                              *)
LEMMA Reads == Inv /\ [Next]_vars => \A q \in Request, n \in Note : Read(q, n)
<1> SUFFICES ASSUME TypeOK, Flow, [Next]_vars PROVE \A q \in Request, n \in Note : Read(q, n)
  BY DEF Inv
<1> USE DEF graph, history
<1>1. ASSUME NEW r \in Request, NEW j \in Job, Arrive(r, j)
      PROVE  \A q \in Request, n \in Note : Read(q, n)
  BY <1>1 DEF Arrive, Read
<1>2. ASSUME NEW r \in Request, MergeNote(r) PROVE \A q \in Request, n \in Note : Read(q, n)
  BY <1>2 DEF MergeNote, Read
<1>3. ASSUME NEW r \in Request, LinkNote(r) PROVE \A q \in Request, n \in Note : Read(q, n)
  BY <1>3 DEF LinkNote, Read
<1>4. ASSUME NEW r \in Request, Skip(r) PROVE \A q \in Request, n \in Note : Read(q, n)
  BY <1>4 DEF Skip, Read
<1>5. ASSUME NEW r \in Request, Exists(r) PROVE \A q \in Request, n \in Note : Read(q, n)
  BY <1>5 DEF Exists, Read
<1>6. ASSUME NEW r \in Request, Edit(r) PROVE \A q \in Request, n \in Note : Read(q, n)
  BY <1>6 DEF Edit, Read
<1>7. ASSUME NEW r \in Request, Delete(r) PROVE \A q \in Request, n \in Note : Read(q, n)
  BY <1>7 DEF Delete, Read
<1>8. ASSUME NEW r \in Request, Propose(r) PROVE \A q \in Request, n \in Note : Read(q, n)
  <2>1. job[r] # None
    BY <1>8 DEF Propose, Flow, FlowOf
  <2>2. Current(r) \in Note
    BY <2>1, CurrentNote
  <2>3. CASE UNCHANGED <<read, base>>
    BY <2>3 DEF Read
  <2>4. CASE /\ stamp[Current(r)] # None
             /\ read' = [read EXCEPT ![r][Current(r)] = stamp[Current(r)]]
             /\ base' = [base EXCEPT ![r][Current(r)] = landed[Current(r)]]
    <3>1. Read(r, Current(r))
      BY <1>8, <2>2, <2>4 DEF Propose, Read, TypeOK
    <3>2. \A q \in Request, n \in Note : (q # r \/ n # Current(r)) => Read(q, n)
      BY <2>2, <2>4 DEF Read, TypeOK
    <3> QED
      BY <3>1, <3>2
  <2> QED
    BY <1>8, <2>3, <2>4 DEF Propose
<1>9. ASSUME NEW r \in Request, Confirm(r) PROVE \A q \in Request, n \in Note : Read(q, n)
  BY <1>9 DEF Confirm, Read
<1>10. ASSUME NEW r \in Request, Check(r) PROVE \A q \in Request, n \in Note : Read(q, n)
  BY <1>10 DEF Check, Read
<1>11. ASSUME NEW r \in Request, WriteNote(r) PROVE \A q \in Request, n \in Note : Read(q, n)
  BY <1>11 DEF WriteNote, Read
<1>12. ASSUME NEW r \in Request, WriteSession(r) PROVE \A q \in Request, n \in Note : Read(q, n)
  BY <1>12 DEF WriteSession, Read
<1>13. ASSUME NEW r \in Request, JoinSession(r) PROVE \A q \in Request, n \in Note : Read(q, n)
  BY <1>13 DEF JoinSession, Read
<1>14. ASSUME NEW r \in Request, ConfirmFails(r) PROVE \A q \in Request, n \in Note : Read(q, n)
  BY <1>14 DEF ConfirmFails, Read
<1>15. CASE UNCHANGED vars
  BY <1>15 DEF vars, Read
<1> QED
  BY <1>1, <1>2, <1>3, <1>4, <1>5, <1>6, <1>7, <1>8, <1>9, <1>10, <1>11, <1>12, <1>13,
     <1>14, <1>15 DEF Next

(* A note bears the time of a request that wrote it.                          *)
LEMMA NextStampWritten == Inv /\ [Next]_vars => StampWritten'
<1> SUFFICES ASSUME Inv, [Next]_vars, NEW n \in Note,
                    stamp'[n] # None, stamp'[n] # 0
             PROVE  \E q \in landed'[n] : now'[q] = stamp'[n]
  BY DEF StampWritten
<1>1. TypeOK /\ StampWritten
  BY DEF Inv
<1>2. CASE stamp'[n] = stamp[n] /\ landed'[n] = landed[n]
  <2>1. PICK q \in landed[n] : now[q] = stamp[n]
    BY <1>1, <1>2 DEF StampWritten
  <2>2. q \in Request /\ now[q] > 0
    BY <1>1, <1>2, <2>1, NoteAssumption DEF TypeOK
  <2> QED
    BY <1>2, <2>1, <2>2, TimesKept
<1>3. ASSUME NEW r \in Request, WritesTo(r, n) PROVE \E q \in landed'[n] : now'[q] = stamp'[n]
  BY <1>3, TimesKept DEF WritesTo
<1> QED
  BY <1>2, <1>3, Effects DEF Effect, Deletes

(* A request read the time of a request that had written by then.             *)
LEMMA NextReadWritten == Inv /\ [Next]_vars => ReadWritten'
<1> SUFFICES ASSUME Inv, [Next]_vars, NEW r \in Request, NEW n \in Note,
                    read'[r][n] # None, read'[r][n] # 0
             PROVE  \E q \in base'[r][n] : now'[q] = read'[r][n]
  BY DEF ReadWritten
<1>1. TypeOK /\ StampWritten /\ ReadWritten
  BY DEF Inv
<1>2. PICK q \in base'[r][n] : q \in Request /\ now[q] = read'[r][n]
  <2>1. CASE read'[r][n] = read[r][n] /\ base'[r][n] = base[r][n]
    BY <1>1, <2>1 DEF ReadWritten, TypeOK
  <2>2. CASE read'[r][n] = stamp[n] /\ base'[r][n] = landed[n]
    BY <1>1, <2>2 DEF StampWritten, TypeOK
  <2> QED
    BY <2>1, <2>2, Reads DEF Read
<1>3. now[q] > 0
  <2>1. read'[r][n] \in Nat
    BY <1>1, <1>2 DEF TypeOK
  <2> QED
    BY <1>2, <2>1
<1> QED
  BY <1>2, <1>3, TimesKept

(* Whoever writes a note has not written it before.                           *)
LEMMA WritesOnce ==
    ASSUME Inv, NEW r \in Request, NEW n \in Note, n = Current(r),
           pc[r] \in {"merge", "change", "write"}
    PROVE  r \notin landed[n]
<1>1. CASE pc[r] \in {"change", "write"}
  BY <1>1 DEF Inv, Once, OnceOf, Untimed
<1>2. CASE pc[r] = "merge"
  <2>1. job[r] # None
    BY <1>2 DEF Inv, Flow, FlowOf
  <2>2. at[r] \in at[r] .. Len(job[r].notes) /\ n = job[r].notes[at[r]]
    BY <2>1, CurrentNote DEF Inv, Current
  <2> QED
    BY <1>2, <2>2 DEF Inv, Once, OnceOf
<1> QED
  BY <1>1, <1>2

(* A note that bears the time it was read with has had no write since.        *)
LEMMA NextUnchanged == Inv /\ [Next]_vars => Unchanged'
<1> SUFFICES ASSUME Inv, [Next]_vars, NEW r \in Request, NEW n \in Note
             PROVE  /\ base'[r][n] \subseteq landed'[n]
                    /\ read'[r][n] # None /\ stamp'[n] = read'[r][n] => landed'[n] = base'[r][n]
  BY DEF Unchanged
<1>1. TypeOK /\ Unchanged /\ Clocked /\ ReadWritten /\ Once
  BY DEF Inv
<1>2. CASE pc[r] = "propose" /\ UNCHANGED <<stamp, landed>>
           /\ read'[r][n] = stamp[n] /\ base'[r][n] = landed[n]
  BY <1>2
<1>3. CASE read'[r][n] = read[r][n] /\ base'[r][n] = base[r][n]
  <2>1. CASE stamp'[n] = stamp[n] /\ landed'[n] = landed[n]
    BY <1>1, <1>3, <2>1 DEF Unchanged
  <2>2. CASE Deletes(n)
    BY <1>1, <1>3, <2>2 DEF Unchanged, Deletes
  <2>3. ASSUME NEW q \in Request, WritesTo(q, n)
        PROVE  base'[r][n] \subseteq landed'[n] /\ (read'[r][n] # None => stamp'[n] # read'[r][n])
    <3>1. q \notin landed[n]
      BY <1>1, <2>3, WritesOnce DEF WritesTo
    <3>2. ASSUME read[r][n] = now[q] PROVE FALSE
      <4>1. now[q] \in Nat /\ now[q] > 0
        BY <1>1, <2>3 DEF WritesTo, TypeOK
      <4>2. PICK s \in base[r][n] : now[s] = now[q]
        BY <1>1, <3>2, <4>1, NoteAssumption DEF ReadWritten
      <4>3. s \in Request /\ s \in landed[n]
        BY <1>1, <4>2 DEF Unchanged, TypeOK
      <4>4. s = q
        BY <1>1, <4>1, <4>2, <4>3 DEF Clocked
      <4> QED
        BY <3>1, <4>3, <4>4
    <3> QED
      BY <1>1, <1>3, <2>3, <3>2 DEF WritesTo, Unchanged
  <2> QED
    BY <2>1, <2>2, <2>3, Effects DEF Effect
<1> QED
  BY <1>2, <1>3, Reads DEF Read

(* What the writes of a request leave of OnceOf.                              *)
StillOnce(q) ==
    /\ \A n \in Note : pc'[q] \in Untimed \cup {"change"} => q \notin landed'[n]
    /\ pc'[q] \in {"merge", "link"} =>
          \A i \in at'[q] .. Len(job'[q].notes) :
              q \in landed'[job'[q].notes[i]] => pc'[q] = "link" /\ i = at'[q]
    /\ pc'[q] = "write" => q \notin landed'[job'[q].notes[at'[q]]]

(* A step of another request leaves it all.                                   *)
LEMMA OthersOnce ==
    ASSUME TypeOK, Flow, NEW q \in Request, OnceOf(q), NEW r \in Request, q # r,
           \A n \in Note : landed'[n] = landed[n] \/ landed'[n] = landed[n] \cup {r},
           pc'[q] = pc[q], at'[q] = at[q], job'[q] = job[q]
    PROVE  StillOnce(q)
<1>1. \A n \in Note : q \in landed'[n] => q \in landed[n]
  OBVIOUS
<1>2. CASE job[q] = None
  BY <1>1, <1>2 DEF StillOnce, OnceOf, Flow, FlowOf
<1>3. CASE job[q] # None
  <2>1. at[q] \in 1 .. Len(job[q].notes) /\ job[q] \in Job /\ Len(job[q].notes) \in Nat
    BY <1>3, CurrentNote
  <2>2. \A i \in at[q] .. Len(job[q].notes) : job[q].notes[i] \in Note
    BY <2>1, JobShape
  <2> QED
    BY <1>1, <2>1, <2>2 DEF StillOnce, OnceOf, Current
<1> QED
  BY <1>2, <1>3

(* No request writes a note a second time.                                    *)
LEMMA NextStillOnce == Inv /\ [Next]_vars => \A q \in Request : StillOnce(q)
<1> SUFFICES ASSUME TypeOK, Flow, Prefix, Unchanged, \A r \in Request : OnceOf(r), [Next]_vars,
                    NEW q \in Request
             PROVE  StillOnce(q)
  BY DEF Inv, Once
<1> USE DEF graph, history
<1>1. ASSUME NEW r \in Request, NEW j \in Job, Arrive(r, j) PROVE StillOnce(q)
  <2>1. CASE q # r
    <3>1. \A n \in Note : landed'[n] = landed[n] \/ landed'[n] = landed[n] \cup {r}
      BY <1>1 DEF Arrive
    <3>2. pc'[q] = pc[q] /\ at'[q] = at[q] /\ job'[q] = job[q]
      BY <1>1, <2>1 DEF Arrive, Goes, Advance, TypeOK
    <3> QED
      BY <2>1, <3>1, <3>2, OthersOnce
  <2>2. CASE q = r
    <3>1. StillOnce(r)
      <4>1. \A n \in Note : r \notin landed'[n]
        BY <1>1 DEF Arrive, OnceOf, Untimed
      <4>2. at'[r] \in DOMAIN j.notes /\ job'[r] = j
        BY <1>1, JobShape DEF Arrive, Prefix, PrefixOf, TypeOK
      <4>3. \A i \in at'[r] .. Len(job'[r].notes) : job'[r].notes[i] \in Note
        BY <4>2, JobShape
      <4>4. pc'[r] # "write"
        BY <1>1, JobShape DEF Arrive, Goes, TypeOK
      <4> QED
        BY <4>1, <4>3, <4>4 DEF StillOnce
    <3> QED
      BY <2>2, <3>1
  <2> QED
    BY <2>1, <2>2
<1>2. ASSUME NEW r \in Request, MergeNote(r) PROVE StillOnce(q)
  <2>1. CASE q # r
    <3>1. \A n \in Note : landed'[n] = landed[n] \/ landed'[n] = landed[n] \cup {r}
      BY <1>2 DEF MergeNote, Land, TypeOK
    <3>2. pc'[q] = pc[q] /\ at'[q] = at[q] /\ job'[q] = job[q]
      BY <1>2, <2>1 DEF MergeNote, Goes, Advance, TypeOK
    <3> QED
      BY <2>1, <3>1, <3>2, OthersOnce
  <2>2. CASE q = r
    <3>1. StillOnce(r)
      <4>1. pc'[r] = "link" /\ at' = at /\ job' = job /\ pc[r] = "merge" /\ job[r] # None
        BY <1>2 DEF MergeNote, Goes, TypeOK, Flow, FlowOf
      <4>2. job[r] \in Job /\ at[r] \in 1 .. Len(job[r].notes) /\ Len(job[r].notes) \in Nat
            /\ job[r].kind = "ingest"
        BY <4>1, CurrentNote DEF Flow, FlowOf
      <4>3. ASSUME NEW i \in at[r] .. Len(job[r].notes), r \in landed'[job[r].notes[i]] PROVE i = at[r]
        <5>1. job[r].notes[i] \in Note /\ i \in 1 .. Len(job[r].notes)
          BY <4>2, <4>3, JobShape
        <5>2. r \notin landed[job[r].notes[i]]
          BY <4>1, <4>3 DEF OnceOf
        <5>3. job[r].notes[i] = job[r].notes[at[r]]
          BY <1>2, <4>3, <5>1, <5>2 DEF MergeNote, Land, Current, TypeOK
        <5> QED
          BY <4>2, <5>1, <5>3, JobShape
      <4> QED
        BY <4>1, <4>3 DEF StillOnce, Untimed
    <3> QED
      BY <2>2, <3>1
  <2> QED
    BY <2>1, <2>2
<1>3. ASSUME NEW r \in Request, LinkNote(r) PROVE StillOnce(q)
  <2>1. CASE q # r
    <3>1. \A n \in Note : landed'[n] = landed[n] \/ landed'[n] = landed[n] \cup {r}
      BY <1>3 DEF LinkNote
    <3>2. pc'[q] = pc[q] /\ at'[q] = at[q] /\ job'[q] = job[q]
      BY <1>3, <2>1 DEF LinkNote, Goes, Advance, TypeOK
    <3> QED
      BY <2>1, <3>1, <3>2, OthersOnce
  <2>2. CASE q = r
    <3>1. StillOnce(r)
      <4>1. job[r] # None /\ pc[r] \in {"merge", "link"} /\ landed' = landed /\ job' = job
        BY <1>3 DEF LinkNote, Flow, FlowOf
      <4>2. \/ pc'[r] = "done"
            \/ at[r] < Len(job[r].notes) /\ pc'[r] = "merge" /\ at'[r] = at[r] + 1
        BY SMTT(30), <1>3, <4>1, Advancing DEF LinkNote, TypeOK
      <4>3. at[r] \in Nat /\ Len(job[r].notes) \in Nat
        BY <4>1, CurrentNote
      <4> QED
        BY <4>1, <4>2, <4>3 DEF StillOnce, OnceOf, Untimed
    <3> QED
      BY <2>2, <3>1
  <2> QED
    BY <2>1, <2>2
<1>4. ASSUME NEW r \in Request, Skip(r) PROVE StillOnce(q)
  <2>1. CASE q # r
    <3>1. \A n \in Note : landed'[n] = landed[n] \/ landed'[n] = landed[n] \cup {r}
      BY <1>4 DEF Skip
    <3>2. pc'[q] = pc[q] /\ at'[q] = at[q] /\ job'[q] = job[q]
      BY <1>4, <2>1 DEF Skip, Goes, Advance, TypeOK
    <3> QED
      BY <2>1, <3>1, <3>2, OthersOnce
  <2>2. CASE q = r
    <3>1. StillOnce(r)
      <4>1. job[r] # None /\ pc[r] \in {"merge", "link"} /\ landed' = landed /\ job' = job
        BY <1>4 DEF Skip, Flow, FlowOf
      <4>2. \/ pc'[r] = "done"
            \/ at[r] < Len(job[r].notes) /\ pc'[r] = "merge" /\ at'[r] = at[r] + 1
        BY SMTT(30), <1>4, <4>1, Advancing DEF Skip, TypeOK
      <4>3. at[r] \in Nat /\ Len(job[r].notes) \in Nat
        BY <4>1, CurrentNote
      <4> QED
        BY <4>1, <4>2, <4>3 DEF StillOnce, OnceOf, Untimed
    <3> QED
      BY <2>2, <3>1
  <2> QED
    BY <2>1, <2>2
<1>5. ASSUME NEW r \in Request, Exists(r) PROVE StillOnce(q)
  <2>1. CASE q # r
    <3>1. \A n \in Note : landed'[n] = landed[n] \/ landed'[n] = landed[n] \cup {r}
      BY <1>5 DEF Exists
    <3>2. pc'[q] = pc[q] /\ at'[q] = at[q] /\ job'[q] = job[q]
      BY <1>5, <2>1 DEF Exists, Goes, Advance, TypeOK
    <3> QED
      BY <2>1, <3>1, <3>2, OthersOnce
  <2>2. CASE q = r
    <3>1. StillOnce(r)
      <4>1. pc[r] = "exists" /\ landed' = landed /\ pc'[r] \in {"not found", "change"}
        BY <1>5 DEF Exists, Goes, TypeOK
      <4> QED
        BY <4>1 DEF StillOnce, OnceOf, Untimed
    <3> QED
      BY <2>2, <3>1
  <2> QED
    BY <2>1, <2>2
<1>6. ASSUME NEW r \in Request, Edit(r) PROVE StillOnce(q)
  <2>1. CASE q # r
    <3>1. \A n \in Note : landed'[n] = landed[n] \/ landed'[n] = landed[n] \cup {r}
      BY <1>6 DEF Edit, Land, TypeOK
    <3>2. pc'[q] = pc[q] /\ at'[q] = at[q] /\ job'[q] = job[q]
      BY <1>6, <2>1 DEF Edit, Goes, Advance, TypeOK
    <3> QED
      BY <2>1, <3>1, <3>2, OthersOnce
  <2>2. CASE q = r
    <3>1. StillOnce(r)
      <4>1. pc'[r] \in {"done"}
        BY <1>6 DEF Edit, Goes, TypeOK
      <4> QED
        BY <4>1 DEF StillOnce, Untimed
    <3> QED
      BY <2>2, <3>1
  <2> QED
    BY <2>1, <2>2
<1>7. ASSUME NEW r \in Request, Delete(r) PROVE StillOnce(q)
  <2>1. CASE q # r
    <3>1. \A n \in Note : landed'[n] = landed[n] \/ landed'[n] = landed[n] \cup {r}
      BY <1>7 DEF Delete, TypeOK
    <3>2. pc'[q] = pc[q] /\ at'[q] = at[q] /\ job'[q] = job[q]
      BY <1>7, <2>1 DEF Delete, Goes, Advance, TypeOK
    <3> QED
      BY <2>1, <3>1, <3>2, OthersOnce
  <2>2. CASE q = r
    <3>1. StillOnce(r)
      <4>1. pc'[r] \in {"done"}
        BY <1>7 DEF Delete, Goes, TypeOK
      <4> QED
        BY <4>1 DEF StillOnce, Untimed
    <3> QED
      BY <2>2, <3>1
  <2> QED
    BY <2>1, <2>2
<1>8. ASSUME NEW r \in Request, Propose(r) PROVE StillOnce(q)
  <2>1. CASE q # r
    <3>1. \A n \in Note : landed'[n] = landed[n] \/ landed'[n] = landed[n] \cup {r}
      BY <1>8 DEF Propose
    <3>2. pc'[q] = pc[q] /\ at'[q] = at[q] /\ job'[q] = job[q]
      BY ZenonT(60), <1>8, <2>1 DEF Propose, Goes, Advance, TypeOK
    <3> QED
      BY <2>1, <3>1, <3>2, OthersOnce
  <2>2. CASE q = r
    <3>1. StillOnce(r)
      <4>1. pc[r] = "propose" /\ landed' = landed /\ job[r] # None
        BY <1>8 DEF Propose, Flow, FlowOf
      <4>2. pc'[r] \in {"review", "propose", "not found", "failed"}
        <5>1. CASE Advance(r, "propose", "review")
          <6>1. pc' = [pc EXCEPT ![r] = "review"] \/ pc' = [pc EXCEPT ![r] = "propose"]
            BY <4>1, <5>1, Advancing
          <6> QED
            BY <6>1 DEF TypeOK
        <5> QED
          BY <1>8, <5>1 DEF Propose, Goes, TypeOK
      <4> QED
        BY <4>1, <4>2 DEF StillOnce, OnceOf, Untimed
    <3> QED
      BY <2>2, <3>1
  <2> QED
    BY <2>1, <2>2
<1>9. ASSUME NEW r \in Request, Confirm(r) PROVE StillOnce(q)
  <2>1. CASE q # r
    <3>1. \A n \in Note : landed'[n] = landed[n] \/ landed'[n] = landed[n] \cup {r}
      BY <1>9 DEF Confirm
    <3>2. pc'[q] = pc[q] /\ at'[q] = at[q] /\ job'[q] = job[q]
      BY <1>9, <2>1 DEF Confirm, Goes, Advance, TypeOK
    <3> QED
      BY <2>1, <3>1, <3>2, OthersOnce
  <2>2. CASE q = r
    <3>1. StillOnce(r)
      <4>1. pc'[r] \in {"too large", "check"}
        BY <1>9 DEF Confirm, Goes, TypeOK
      <4> QED
        BY <4>1 DEF StillOnce, Untimed
    <3> QED
      BY <2>2, <3>1
  <2> QED
    BY <2>1, <2>2
<1>10. ASSUME NEW r \in Request, Check(r) PROVE StillOnce(q)
  <2>1. CASE q # r
    <3>1. \A n \in Note : landed'[n] = landed[n] \/ landed'[n] = landed[n] \cup {r}
      BY <1>10 DEF Check
    <3>2. pc'[q] = pc[q] /\ at'[q] = at[q] /\ job'[q] = job[q]
      BY <1>10, <2>1 DEF Check, Goes, Advance, TypeOK
    <3> QED
      BY <2>1, <3>1, <3>2, OthersOnce
  <2>2. CASE q = r
    <3>1. StillOnce(r)
      <4>1. /\ pc[r] = "check" /\ landed' = landed /\ job' = job /\ at' = at /\ job[r] # None
            /\ pc'[r] \in {"not found", "conflict", "write"}
        BY <1>10 DEF Check, Goes, TypeOK, Flow, FlowOf
      <4>2. CASE pc'[r] = "write"
        <5>1. stamp[Current(r)] # None /\ stamp[Current(r)] = read[r][Current(r)]
          BY <1>10, <4>2 DEF Check, Goes, TypeOK
        <5>2. landed[Current(r)] = base[r][Current(r)] /\ r \notin base[r][Current(r)]
          BY <4>1, <5>1, CurrentNote DEF Unchanged, OnceOf
        <5> QED
          BY <4>1, <4>2, <5>2 DEF StillOnce, Current, Untimed
      <4> QED
        BY <4>1, <4>2 DEF StillOnce, Untimed
    <3> QED
      BY <2>2, <3>1
  <2> QED
    BY <2>1, <2>2
<1>11. ASSUME NEW r \in Request, WriteNote(r) PROVE StillOnce(q)
  <2>1. CASE q # r
    <3>1. \A n \in Note : landed'[n] = landed[n] \/ landed'[n] = landed[n] \cup {r}
      BY <1>11 DEF WriteNote, Land, TypeOK
    <3>2. pc'[q] = pc[q] /\ at'[q] = at[q] /\ job'[q] = job[q]
      BY <1>11, <2>1 DEF WriteNote, Goes, Advance, TypeOK
    <3> QED
      BY <2>1, <3>1, <3>2, OthersOnce
  <2>2. CASE q = r
    <3>1. StillOnce(r)
      <4>1. job[r] # None
        BY <1>11 DEF WriteNote, Flow, FlowOf
      <4>2. pc'[r] \in {"check", "session"}
        BY <1>11, <4>1, Advancing DEF WriteNote, TypeOK
      <4> QED
        BY <4>2 DEF StillOnce, Untimed
    <3> QED
      BY <2>2, <3>1
  <2> QED
    BY <2>1, <2>2
<1>12. ASSUME NEW r \in Request, WriteSession(r) PROVE StillOnce(q)
  <2>1. CASE q # r
    <3>1. \A n \in Note : landed'[n] = landed[n] \/ landed'[n] = landed[n] \cup {r}
      BY <1>12 DEF WriteSession
    <3>2. pc'[q] = pc[q] /\ at'[q] = at[q] /\ job'[q] = job[q]
      BY <1>12, <2>1 DEF WriteSession, Goes, Advance, TypeOK
    <3> QED
      BY <2>1, <3>1, <3>2, OthersOnce
  <2>2. CASE q = r
    <3>1. StillOnce(r)
      <4>1. pc'[r] \in {"join"}
        BY <1>12 DEF WriteSession, Goes, TypeOK
      <4> QED
        BY <4>1 DEF StillOnce, Untimed
    <3> QED
      BY <2>2, <3>1
  <2> QED
    BY <2>1, <2>2
<1>13. ASSUME NEW r \in Request, JoinSession(r) PROVE StillOnce(q)
  <2>1. CASE q # r
    <3>1. \A n \in Note : landed'[n] = landed[n] \/ landed'[n] = landed[n] \cup {r}
      BY <1>13 DEF JoinSession
    <3>2. pc'[q] = pc[q] /\ at'[q] = at[q] /\ job'[q] = job[q]
      BY <1>13, <2>1 DEF JoinSession, Goes, Advance, TypeOK
    <3> QED
      BY <2>1, <3>1, <3>2, OthersOnce
  <2>2. CASE q = r
    <3>1. StillOnce(r)
      <4>1. pc'[r] \in {"done"}
        BY <1>13 DEF JoinSession, Goes, TypeOK
      <4> QED
        BY <4>1 DEF StillOnce, Untimed
    <3> QED
      BY <2>2, <3>1
  <2> QED
    BY <2>1, <2>2
<1>14. ASSUME NEW r \in Request, ConfirmFails(r) PROVE StillOnce(q)
  <2>1. CASE q # r
    <3>1. \A n \in Note : landed'[n] = landed[n] \/ landed'[n] = landed[n] \cup {r}
      BY <1>14 DEF ConfirmFails
    <3>2. pc'[q] = pc[q] /\ at'[q] = at[q] /\ job'[q] = job[q]
      BY <1>14, <2>1 DEF ConfirmFails, Goes, Advance, TypeOK
    <3> QED
      BY <2>1, <3>1, <3>2, OthersOnce
  <2>2. CASE q = r
    <3>1. StillOnce(r)
      <4>1. pc'[r] \in {"failed"}
        BY <1>14 DEF ConfirmFails, Goes, TypeOK
      <4> QED
        BY <4>1 DEF StillOnce, Untimed
    <3> QED
      BY <2>2, <3>1
  <2> QED
    BY <2>1, <2>2
<1>15. CASE UNCHANGED vars
  BY <1>15 DEF vars, StillOnce, OnceOf, Current
<1> QED
  BY <1>1, <1>2, <1>3, <1>4, <1>5, <1>6, <1>7, <1>8, <1>9, <1>10, <1>11, <1>12, <1>13,
     <1>14, <1>15 DEF Next

(* So every note is written by a request once.                                *)
LEMMA NextOnce == Inv /\ [Next]_vars => Once'
<1> SUFFICES ASSUME Inv, [Next]_vars, NEW q \in Request PROVE OnceOf(q)'
  BY DEF Once
<1>1. \A n \in Note : q \notin base'[q][n]
  BY Reads DEF Read, Inv, Once, OnceOf, Untimed
<1> QED
  BY <1>1, NextStillOnce DEF StillOnce, OnceOf, Current

(* A step of another request leaves what a confirmation was sent with.        *)
LEMMA OthersSent ==
    ASSUME TypeOK, Flow, NEW q \in Request, SentOf(q),
           \A n \in Note : landed[n] \subseteq landed'[n],
           pc'[q] = pc[q], at'[q] = at[q], job'[q] = job[q], sent'[q] = sent[q],
           base'[q] = base[q], affected'[q] = affected[q]
    PROVE  SentOf(q)'
<1>1. Current(q)' = Current(q) /\ Updates(q)' = Updates(q)
  BY DEF Current, Updates
<1> QED
  BY <1>1 DEF SentOf

(* What a confirmation wrote had no change it was sent without.               *)
LEMMA NextSent == Inv /\ [Next]_vars => Sent'
<1> SUFFICES ASSUME TypeOK, Flow, Prefix, Unchanged, \A r \in Request : SentOf(r), [Next]_vars,
                    NEW q \in Request
             PROVE  SentOf(q)'
  BY DEF Inv, Sent
<1> USE DEF graph, history
<1>1. ASSUME NEW r \in Request, NEW j \in Job, Arrive(r, j) PROVE SentOf(q)'
  <2>0. \A n \in Note : landed[n] \subseteq landed'[n]
    BY <1>1 DEF Arrive
  <2>1. CASE q # r
    <3>1. /\ pc'[q] = pc[q] /\ at'[q] = at[q] /\ job'[q] = job[q] /\ sent'[q] = sent[q]
          /\ base'[q] = base[q] /\ affected'[q] = affected[q]
      BY <1>1, <2>1 DEF Arrive, Goes, Advance, TypeOK
    <3> QED
      BY <2>0, <3>1, OthersSent
  <2>2. CASE q = r
    <3>0. \A n \in Note : landed[n] \subseteq landed'[n]
      BY <2>0
    <3>1. SentOf(r)'
      <4>1. affected'[r] = <<>>
        BY <1>1 DEF Arrive, Prefix, PrefixOf, Untimed
      <4>2. pc'[r] \in {"merge", "propose", "exists"}
        BY <1>1, JobShape DEF Arrive, Goes, TypeOK, Kinds
      <4> QED
        BY <4>1, <4>2 DEF SentOf
    <3> QED
      BY <2>2, <3>1
  <2> QED
    BY <2>1, <2>2
<1>2. ASSUME NEW r \in Request, MergeNote(r) PROVE SentOf(q)'
  <2>0. \A n \in Note : landed[n] \subseteq landed'[n]
    BY <1>2 DEF MergeNote, Land, TypeOK
  <2>1. CASE q # r
    <3>1. /\ pc'[q] = pc[q] /\ at'[q] = at[q] /\ job'[q] = job[q] /\ sent'[q] = sent[q]
          /\ base'[q] = base[q] /\ affected'[q] = affected[q]
      BY <1>2, <2>1 DEF MergeNote, Goes, Advance, TypeOK
    <3> QED
      BY <2>0, <3>1, OthersSent
  <2>2. CASE q = r
    <3>0. \A n \in Note : landed[n] \subseteq landed'[n]
      BY <2>0
    <3>1. SentOf(r)'
      <4>1. ~Updates(r)' /\ job[r] # None
        BY <1>2 DEF MergeNote, Flow, FlowOf, Updates
      <4>2. pc'[r] \in {"link"}
        BY <1>2 DEF MergeNote, Goes, TypeOK
      <4> QED
        BY <4>1, <4>2 DEF SentOf
    <3> QED
      BY <2>2, <3>1
  <2> QED
    BY <2>1, <2>2
<1>3. ASSUME NEW r \in Request, LinkNote(r) PROVE SentOf(q)'
  <2>0. \A n \in Note : landed[n] \subseteq landed'[n]
    BY <1>3 DEF LinkNote
  <2>1. CASE q # r
    <3>1. /\ pc'[q] = pc[q] /\ at'[q] = at[q] /\ job'[q] = job[q] /\ sent'[q] = sent[q]
          /\ base'[q] = base[q] /\ affected'[q] = affected[q]
      BY <1>3, <2>1 DEF LinkNote, Goes, Advance, TypeOK
    <3> QED
      BY <2>0, <3>1, OthersSent
  <2>2. CASE q = r
    <3>0. \A n \in Note : landed[n] \subseteq landed'[n]
      BY <2>0
    <3>1. SentOf(r)'
      <4>1. ~Updates(r)' /\ job[r] # None
        BY <1>3 DEF LinkNote, Flow, FlowOf, Updates
      <4>2. pc'[r] \in {"done", "merge"}
        BY <1>3, <4>1, Advancing DEF LinkNote, TypeOK
      <4> QED
        BY <4>1, <4>2 DEF SentOf
    <3> QED
      BY <2>2, <3>1
  <2> QED
    BY <2>1, <2>2
<1>4. ASSUME NEW r \in Request, Skip(r) PROVE SentOf(q)'
  <2>0. \A n \in Note : landed[n] \subseteq landed'[n]
    BY <1>4 DEF Skip
  <2>1. CASE q # r
    <3>1. /\ pc'[q] = pc[q] /\ at'[q] = at[q] /\ job'[q] = job[q] /\ sent'[q] = sent[q]
          /\ base'[q] = base[q] /\ affected'[q] = affected[q]
      BY <1>4, <2>1 DEF Skip, Goes, Advance, TypeOK
    <3> QED
      BY <2>0, <3>1, OthersSent
  <2>2. CASE q = r
    <3>0. \A n \in Note : landed[n] \subseteq landed'[n]
      BY <2>0
    <3>1. SentOf(r)'
      <4>1. ~Updates(r)' /\ job[r] # None
        BY <1>4 DEF Skip, Flow, FlowOf, Updates
      <4>2. pc'[r] \in {"done", "merge"}
        BY <1>4, <4>1, Advancing DEF Skip, TypeOK
      <4> QED
        BY <4>1, <4>2 DEF SentOf
    <3> QED
      BY <2>2, <3>1
  <2> QED
    BY <2>1, <2>2
<1>5. ASSUME NEW r \in Request, Exists(r) PROVE SentOf(q)'
  <2>0. \A n \in Note : landed[n] \subseteq landed'[n]
    BY <1>5 DEF Exists
  <2>1. CASE q # r
    <3>1. /\ pc'[q] = pc[q] /\ at'[q] = at[q] /\ job'[q] = job[q] /\ sent'[q] = sent[q]
          /\ base'[q] = base[q] /\ affected'[q] = affected[q]
      BY <1>5, <2>1 DEF Exists, Goes, Advance, TypeOK
    <3> QED
      BY <2>0, <3>1, OthersSent
  <2>2. CASE q = r
    <3>0. \A n \in Note : landed[n] \subseteq landed'[n]
      BY <2>0
    <3>1. SentOf(r)'
      <4>1. ~Updates(r)' /\ job[r] # None
        BY <1>5 DEF Exists, Flow, FlowOf, Updates
      <4>2. pc'[r] \in {"not found", "change"}
        BY <1>5 DEF Exists, Goes, TypeOK
      <4> QED
        BY <4>1, <4>2 DEF SentOf
    <3> QED
      BY <2>2, <3>1
  <2> QED
    BY <2>1, <2>2
<1>6. ASSUME NEW r \in Request, Edit(r) PROVE SentOf(q)'
  <2>0. \A n \in Note : landed[n] \subseteq landed'[n]
    BY ZenonT(60), <1>6 DEF Edit, Land, TypeOK
  <2>1. CASE q # r
    <3>1. /\ pc'[q] = pc[q] /\ at'[q] = at[q] /\ job'[q] = job[q] /\ sent'[q] = sent[q]
          /\ base'[q] = base[q] /\ affected'[q] = affected[q]
      BY <1>6, <2>1 DEF Edit, Goes, Advance, TypeOK
    <3> QED
      BY <2>0, <3>1, OthersSent
  <2>2. CASE q = r
    <3>0. \A n \in Note : landed[n] \subseteq landed'[n]
      BY <2>0
    <3>1. SentOf(r)'
      <4>1. ~Updates(r)' /\ job[r] # None
        BY <1>6 DEF Edit, Flow, FlowOf, Updates
      <4>2. pc'[r] \in {"done"}
        BY <1>6 DEF Edit, Goes, TypeOK
      <4> QED
        BY <4>1, <4>2 DEF SentOf
    <3> QED
      BY <2>2, <3>1
  <2> QED
    BY <2>1, <2>2
<1>7. ASSUME NEW r \in Request, Delete(r) PROVE SentOf(q)'
  <2>0. \A n \in Note : landed[n] \subseteq landed'[n]
    BY <1>7 DEF Delete, TypeOK
  <2>1. CASE q # r
    <3>1. /\ pc'[q] = pc[q] /\ at'[q] = at[q] /\ job'[q] = job[q] /\ sent'[q] = sent[q]
          /\ base'[q] = base[q] /\ affected'[q] = affected[q]
      BY <1>7, <2>1 DEF Delete, Goes, Advance, TypeOK
    <3> QED
      BY <2>0, <3>1, OthersSent
  <2>2. CASE q = r
    <3>0. \A n \in Note : landed[n] \subseteq landed'[n]
      BY <2>0
    <3>1. SentOf(r)'
      <4>1. ~Updates(r)' /\ job[r] # None
        BY <1>7 DEF Delete, Flow, FlowOf, Updates
      <4>2. pc'[r] \in {"done"}
        BY <1>7 DEF Delete, Goes, TypeOK
      <4> QED
        BY <4>1, <4>2 DEF SentOf
    <3> QED
      BY <2>2, <3>1
  <2> QED
    BY <2>1, <2>2
<1>8. ASSUME NEW r \in Request, Propose(r) PROVE SentOf(q)'
  <2>0. \A n \in Note : landed[n] \subseteq landed'[n]
    BY <1>8 DEF Propose
  <2>1. CASE q # r
    <3>1. /\ pc'[q] = pc[q] /\ at'[q] = at[q] /\ job'[q] = job[q] /\ sent'[q] = sent[q]
          /\ base'[q] = base[q] /\ affected'[q] = affected[q]
      BY ZenonT(60), <1>8, <2>1 DEF Propose, Goes, Advance, TypeOK
    <3> QED
      BY <2>0, <3>1, OthersSent
  <2>2. CASE q = r
    <3>0. \A n \in Note : landed[n] \subseteq landed'[n]
      BY <2>0
    <3>1. SentOf(r)'
      <4>1. pc[r] = "propose" /\ affected' = affected /\ job[r] # None
        BY <1>8 DEF Propose, Flow, FlowOf
      <4>2. pc'[r] \in {"review", "propose", "not found", "failed"}
        <5>1. CASE Advance(r, "propose", "review")
          <6>1. pc' = [pc EXCEPT ![r] = "review"] \/ pc' = [pc EXCEPT ![r] = "propose"]
            BY <4>1, <5>1, Advancing
          <6> QED
            BY <6>1 DEF TypeOK
        <5> QED
          BY <1>8, <5>1 DEF Propose, Goes, TypeOK
      <4>3. DOMAIN affected'[r] = {}
        <5>1. affected'[r] = <<>>
          BY <4>1 DEF Prefix, PrefixOf, Untimed
        <5> QED
          BY <5>1
      <4> QED
        BY <4>1, <4>2, <4>3 DEF SentOf
    <3> QED
      BY <2>2, <3>1
  <2> QED
    BY <2>1, <2>2
<1>9. ASSUME NEW r \in Request, Confirm(r) PROVE SentOf(q)'
  <2>0. \A n \in Note : landed[n] \subseteq landed'[n]
    BY <1>9 DEF Confirm
  <2>1. CASE q # r
    <3>1. /\ pc'[q] = pc[q] /\ at'[q] = at[q] /\ job'[q] = job[q] /\ sent'[q] = sent[q]
          /\ base'[q] = base[q] /\ affected'[q] = affected[q]
      BY <1>9, <2>1 DEF Confirm, Goes, Advance, TypeOK
    <3> QED
      BY <2>0, <3>1, OthersSent
  <2>2. CASE q = r
    <3>0. \A n \in Note : landed[n] \subseteq landed'[n]
      BY <2>0
    <3>1. SentOf(r)'
      <4>1. /\ pc[r] = "review" /\ job' = job /\ affected' = affected /\ base' = base /\ landed' = landed
            /\ sent'[r] = landed
        BY <1>9 DEF Confirm, TypeOK
      <4>2. pc'[r] \in {"too large", "check"}
        BY <1>9 DEF Confirm, Goes, TypeOK
      <4>3. DOMAIN affected'[r] = {}
        <5>1. affected'[r] = <<>>
          BY <4>1 DEF Prefix, PrefixOf, Untimed
        <5> QED
          BY <5>1
      <4>4. \A n \in Note : base[r][n] \subseteq landed[n]
        BY DEF Unchanged
      <4> QED
        BY <4>1, <4>2, <4>3, <4>4 DEF SentOf
    <3> QED
      BY <2>2, <3>1
  <2> QED
    BY <2>1, <2>2
<1>10. ASSUME NEW r \in Request, Check(r) PROVE SentOf(q)'
  <2>0. \A n \in Note : landed[n] \subseteq landed'[n]
    BY <1>10 DEF Check
  <2>1. CASE q # r
    <3>1. /\ pc'[q] = pc[q] /\ at'[q] = at[q] /\ job'[q] = job[q] /\ sent'[q] = sent[q]
          /\ base'[q] = base[q] /\ affected'[q] = affected[q]
      BY <1>10, <2>1 DEF Check, Goes, Advance, TypeOK
    <3> QED
      BY <2>0, <3>1, OthersSent
  <2>2. CASE q = r
    <3>0. \A n \in Note : landed[n] \subseteq landed'[n]
      BY <2>0
    <3>1. SentOf(r)'
      <4>1. /\ pc[r] = "check" /\ landed' = landed /\ job' = job /\ at' = at /\ job[r] # None
            /\ base' = base /\ sent' = sent /\ affected' = affected
            /\ pc'[r] \in {"not found", "conflict", "write"}
        BY <1>10 DEF Check, Goes, TypeOK, Flow, FlowOf
      <4>2. CASE pc'[r] = "write"
        <5>1. stamp[Current(r)] # None /\ stamp[Current(r)] = read[r][Current(r)] /\ Current(r) \in Note
          BY <1>10, <4>1, <4>2, CurrentNote DEF Check, Goes, TypeOK
        <5>2. landed[Current(r)] = base[r][Current(r)]
          BY <5>1 DEF Unchanged
        <5>3. sent[r][Current(r)] = base[r][Current(r)]
          BY <4>1, <5>1, <5>2 DEF SentOf
        <5> QED
          BY <4>1, <4>2, <5>3 DEF SentOf, Current, Updates
      <4> QED
        BY <4>1, <4>2 DEF SentOf, Updates
    <3> QED
      BY <2>2, <3>1
  <2> QED
    BY <2>1, <2>2
<1>11. ASSUME NEW r \in Request, WriteNote(r) PROVE SentOf(q)'
  <2>0. \A n \in Note : landed[n] \subseteq landed'[n]
    BY ZenonT(60), <1>11 DEF WriteNote, Land, TypeOK
  <2>1. CASE q # r
    <3>1. /\ pc'[q] = pc[q] /\ at'[q] = at[q] /\ job'[q] = job[q] /\ sent'[q] = sent[q]
          /\ base'[q] = base[q] /\ affected'[q] = affected[q]
      BY <1>11, <2>1 DEF WriteNote, Goes, Advance, TypeOK
    <3> QED
      BY <2>0, <3>1, OthersSent
  <2>2. CASE q = r
    <3>0. \A n \in Note : landed[n] \subseteq landed'[n]
      BY <2>0
    <3>1. SentOf(r)'
      <4>1. /\ job[r] # None /\ pc[r] = "write" /\ job' = job /\ sent' = sent /\ base' = base
            /\ affected'[r] = Append(affected[r], Current(r)) /\ affected[r] \in Seq(Note)
        BY <1>11 DEF WriteNote, Flow, FlowOf, TypeOK
      <4>2. pc'[r] \in {"check", "session"} /\ Current(r) \in Note
        BY SMTT(30), <1>11, <4>1, Advancing, CurrentNote DEF WriteNote, TypeOK
      <4>3. \A n \in Note : base[r][n] \subseteq sent[r][n] /\ sent[r][n] \subseteq landed[n]
        BY <4>1 DEF SentOf
      <4>4. Updates(r) /\ \A i \in DOMAIN affected[r] : sent[r][affected[r][i]] = base[r][affected[r][i]]
        BY <4>1 DEF SentOf, Updates, Flow, FlowOf
      <4>5. sent[r][Current(r)] = base[r][Current(r)]
        BY <4>1 DEF SentOf
      <4>6. \A i \in DOMAIN affected'[r] : sent[r][affected'[r][i]] = base[r][affected'[r][i]]
        BY <4>1, <4>2, <4>4, <4>5
      <4> QED
        BY <3>0, <4>1, <4>2, <4>3, <4>6 DEF SentOf
    <3> QED
      BY <2>2, <3>1
  <2> QED
    BY <2>1, <2>2
<1>12. ASSUME NEW r \in Request, WriteSession(r) PROVE SentOf(q)'
  <2>0. \A n \in Note : landed[n] \subseteq landed'[n]
    BY <1>12 DEF WriteSession
  <2>1. CASE q # r
    <3>1. /\ pc'[q] = pc[q] /\ at'[q] = at[q] /\ job'[q] = job[q] /\ sent'[q] = sent[q]
          /\ base'[q] = base[q] /\ affected'[q] = affected[q]
      BY <1>12, <2>1 DEF WriteSession, Goes, Advance, TypeOK
    <3> QED
      BY <2>0, <3>1, OthersSent
  <2>2. CASE q = r
    <3>0. \A n \in Note : landed[n] \subseteq landed'[n]
      BY <2>0
    <3>1. SentOf(r)'
      <4>1. /\ pc[r] \in {"check", "write", "session", "join"} /\ pc'[r] = "join"
            /\ job' = job /\ sent' = sent /\ base' = base /\ landed' = landed /\ affected' = affected
        BY <1>12 DEF WriteSession, Goes, TypeOK
      <4> QED
        BY <4>1 DEF SentOf, Updates
    <3> QED
      BY <2>2, <3>1
  <2> QED
    BY <2>1, <2>2
<1>13. ASSUME NEW r \in Request, JoinSession(r) PROVE SentOf(q)'
  <2>0. \A n \in Note : landed[n] \subseteq landed'[n]
    BY <1>13 DEF JoinSession
  <2>1. CASE q # r
    <3>1. /\ pc'[q] = pc[q] /\ at'[q] = at[q] /\ job'[q] = job[q] /\ sent'[q] = sent[q]
          /\ base'[q] = base[q] /\ affected'[q] = affected[q]
      BY <1>13, <2>1 DEF JoinSession, Goes, Advance, TypeOK
    <3> QED
      BY <2>0, <3>1, OthersSent
  <2>2. CASE q = r
    <3>0. \A n \in Note : landed[n] \subseteq landed'[n]
      BY <2>0
    <3>1. SentOf(r)'
      <4>1. /\ pc[r] \in {"check", "write", "session", "join"} /\ pc'[r] = "done"
            /\ job' = job /\ sent' = sent /\ base' = base /\ landed' = landed /\ affected' = affected
        BY <1>13 DEF JoinSession, Goes, TypeOK
      <4> QED
        BY <4>1 DEF SentOf, Updates
    <3> QED
      BY <2>2, <3>1
  <2> QED
    BY <2>1, <2>2
<1>14. ASSUME NEW r \in Request, ConfirmFails(r) PROVE SentOf(q)'
  <2>0. \A n \in Note : landed[n] \subseteq landed'[n]
    BY <1>14 DEF ConfirmFails
  <2>1. CASE q # r
    <3>1. /\ pc'[q] = pc[q] /\ at'[q] = at[q] /\ job'[q] = job[q] /\ sent'[q] = sent[q]
          /\ base'[q] = base[q] /\ affected'[q] = affected[q]
      BY <1>14, <2>1 DEF ConfirmFails, Goes, Advance, TypeOK
    <3> QED
      BY <2>0, <3>1, OthersSent
  <2>2. CASE q = r
    <3>0. \A n \in Note : landed[n] \subseteq landed'[n]
      BY <2>0
    <3>1. SentOf(r)'
      <4>1. /\ pc[r] \in {"check", "write", "session", "join"} /\ pc'[r] = "failed"
            /\ job' = job /\ sent' = sent /\ base' = base /\ landed' = landed /\ affected' = affected
        BY <1>14 DEF ConfirmFails, Goes, TypeOK
      <4> QED
        BY <4>1 DEF SentOf, Updates
    <3> QED
      BY <2>2, <3>1
  <2> QED
    BY <2>1, <2>2
<1>15. CASE UNCHANGED vars
  BY <1>15 DEF vars, SentOf, Updates, Current
<1> QED
  BY <1>1, <1>2, <1>3, <1>4, <1>5, <1>6, <1>7, <1>8, <1>9, <1>10, <1>11, <1>12, <1>13,
     <1>14, <1>15 DEF Next

(* What takes a note away, or its class, is a delete that was asked for.      *)
Kept ==
    \A n \in Note :
        /\ DeleteAsked(n) => DeleteAsked(n)'
        /\ n \in linked => n \in linked' \/ DeleteAsked(n)'
        /\ stamp[n] # None => stamp'[n] # None \/ DeleteAsked(n)'

(* Every step keeps the rest.                                                *)
LEMMA NextKept == Inv /\ [Next]_vars => Kept
<1> SUFFICES ASSUME TypeOK, Flow, [Next]_vars PROVE Kept
  BY DEF Inv
<1> USE NoteAssumption DEF graph, history
<1>1. ASSUME NEW r \in Request, NEW j \in Job, Arrive(r, j) PROVE Kept
  <2>1. pc[r] = "idle" /\ job[r] = None /\ job' = [job EXCEPT ![r] = j] /\ UNCHANGED <<linked, stamp>>
    BY <1>1 DEF Arrive, Flow, FlowOf
  <2>2. \A q \in Request : job[q] # None => job'[q] = job[q]
    BY <2>1 DEF TypeOK
  <2> QED
    BY <2>1, <2>2 DEF Kept, DeleteAsked
<1>2. ASSUME NEW r \in Request, MergeNote(r) PROVE Kept
  <2>1. UNCHANGED <<linked, job>> /\ job[r] # None
    BY <1>2 DEF MergeNote, Flow, FlowOf
  <2>2. \A n \in Note : stamp[n] # None => stamp'[n] # None
    BY <1>2, <2>1, LandTyped DEF MergeNote
  <2> QED
    BY <2>1, <2>2 DEF Kept, DeleteAsked
<1>3. ASSUME NEW r \in Request, LinkNote(r) PROVE Kept
  BY <1>3 DEF LinkNote, Kept, DeleteAsked
<1>4. ASSUME NEW r \in Request, Skip(r) PROVE Kept
  BY <1>4 DEF Skip, Kept, DeleteAsked
<1>5. ASSUME NEW r \in Request, Exists(r) PROVE Kept
  BY <1>5 DEF Exists, Kept, DeleteAsked
<1>6. ASSUME NEW r \in Request, Edit(r) PROVE Kept
  <2>1. UNCHANGED <<linked, job>> /\ job[r] # None
    BY <1>6 DEF Edit, Flow, FlowOf
  <2>2. \A n \in Note : stamp[n] # None => stamp'[n] # None
    BY <1>6, <2>1, LandTyped DEF Edit
  <2> QED
    BY <2>1, <2>2 DEF Kept, DeleteAsked
<1>7. ASSUME NEW r \in Request, Delete(r) PROVE Kept
  <2>1. job[r] # None /\ job[r].kind = "delete" /\ UNCHANGED job
    BY <1>7 DEF Delete, Flow, FlowOf
  <2>2. Current(r) = job[r].notes[1] /\ Current(r) \in Note
    BY <2>1, CurrentNote, JobAssumption DEF Current
  <2>3. \A n \in Note : n = Current(r) => DeleteAsked(n)'
    BY <2>1, <2>2 DEF DeleteAsked
  <2>4. \A n \in Note : DeleteAsked(n) => DeleteAsked(n)'
    BY <2>1 DEF DeleteAsked
  <2>5. \A n \in Note : n # Current(r) => stamp'[n] = stamp[n] /\ (n \in linked => n \in linked')
    BY <1>7, <2>2 DEF Delete, TypeOK
  <2> QED
    BY <2>3, <2>4, <2>5 DEF Kept
<1>8. ASSUME NEW r \in Request, Propose(r) PROVE Kept
  BY <1>8 DEF Propose, Kept, DeleteAsked
<1>9. ASSUME NEW r \in Request, Confirm(r) PROVE Kept
  BY <1>9 DEF Confirm, Kept, DeleteAsked
<1>10. ASSUME NEW r \in Request, Check(r) PROVE Kept
  BY <1>10 DEF Check, Kept, DeleteAsked
<1>11. ASSUME NEW r \in Request, WriteNote(r) PROVE Kept
  <2>1. UNCHANGED <<linked, job>> /\ job[r] # None
    BY <1>11 DEF WriteNote, Flow, FlowOf
  <2>2. \A n \in Note : stamp[n] # None => stamp'[n] # None
    BY <1>11, <2>1, LandTyped DEF WriteNote
  <2> QED
    BY <2>1, <2>2 DEF Kept, DeleteAsked
<1>12. ASSUME NEW r \in Request, WriteSession(r) PROVE Kept
  BY <1>12 DEF WriteSession, Kept, DeleteAsked
<1>13. ASSUME NEW r \in Request, JoinSession(r) PROVE Kept
  BY <1>13 DEF JoinSession, Kept, DeleteAsked
<1>14. ASSUME NEW r \in Request, ConfirmFails(r) PROVE Kept
  BY <1>14 DEF ConfirmFails, Kept, DeleteAsked
<1>15. CASE UNCHANGED vars
  BY <1>15 DEF vars, Kept, DeleteAsked
<1> QED
  BY <1>1, <1>2, <1>3, <1>4, <1>5, <1>6, <1>7, <1>8, <1>9, <1>10, <1>11, <1>12, <1>13,
     <1>14, <1>15 DEF Next

(* What a step of another request leaves of LinkOf.                           *)
LEMMA OthersLinked ==
    ASSUME TypeOK, Flow, Kept, NEW q \in Request, LinkOf(q),
           pc'[q] = pc[q], at'[q] = at[q], job'[q] = job[q], affected'[q] = affected[q]
    PROVE  LinkOf(q)'
<1>1. Current(q)' = Current(q)
  BY DEF Current
<1>2. pc[q] = "link" => Current(q) \in Note
  BY CurrentNote DEF Flow, FlowOf
<1>3. \A i \in DOMAIN affected[q] : affected[q][i] \in Note
  BY DEF TypeOK
<1> QED
  BY <1>1, <1>2, <1>3 DEF LinkOf, Kept

(* A note counted as inserted stays joined until a delete of it is asked for. *)
LEMMA NextLinked == Inv /\ [Next]_vars => Linked'
<1> SUFFICES ASSUME TypeOK, Flow, Flow', Prefix, Kept, \A r \in Request : LinkOf(r), [Next]_vars,
                    NEW q \in Request
             PROVE  LinkOf(q)'
  BY NextKept, NextFlow DEF Inv, Linked
<1> USE DEF graph, history
<1>1. ASSUME NEW r \in Request, NEW j \in Job, Arrive(r, j) PROVE LinkOf(q)'
  <2>1. CASE q # r
    <3>1. pc'[q] = pc[q] /\ at'[q] = at[q] /\ job'[q] = job[q] /\ affected'[q] = affected[q]
      BY <1>1, <2>1 DEF Arrive, Goes, Advance, TypeOK
    <3> QED
      BY <3>1, OthersLinked
  <2>2. CASE q = r
    <3>1. LinkOf(r)'
      <4>1. DOMAIN affected'[r] = {}
        <5>1. affected'[r] = <<>>
          BY <1>1 DEF Arrive, Prefix, PrefixOf, Untimed
        <5> QED
          BY <5>1
      <4>2. pc'[r] # "link"
        BY <1>1, JobShape DEF Arrive, Goes, TypeOK, Kinds
      <4> QED
        BY <4>1, <4>2 DEF LinkOf
    <3> QED
      BY <2>2, <3>1
  <2> QED
    BY <2>1, <2>2
<1>2. ASSUME NEW r \in Request, MergeNote(r) PROVE LinkOf(q)'
  <2>1. CASE q # r
    <3>1. pc'[q] = pc[q] /\ at'[q] = at[q] /\ job'[q] = job[q] /\ affected'[q] = affected[q]
      BY <1>2, <2>1 DEF MergeNote, Goes, Advance, TypeOK
    <3> QED
      BY <3>1, OthersLinked
  <2>2. CASE q = r
    <3>1. LinkOf(r)'
      <4>1. job[r] # None /\ UNCHANGED <<job, at, affected>> /\ now[r] \in Nat
        BY <1>2 DEF MergeNote, Flow, FlowOf, TypeOK
      <4>2. Current(r)' = Current(r) /\ stamp'[Current(r)] = now[r]
        BY <1>2, <4>1, CurrentNote DEF MergeNote, Land, Current, TypeOK
      <4>3. \A i \in DOMAIN affected[r] : affected[r][i] \in Note
        BY DEF TypeOK
      <4> QED
        BY <4>1, <4>2, <4>3, NoteAssumption DEF LinkOf, Kept
    <3> QED
      BY <2>2, <3>1
  <2> QED
    BY <2>1, <2>2
<1>3. ASSUME NEW r \in Request, LinkNote(r) PROVE LinkOf(q)'
  <2>1. CASE q # r
    <3>1. pc'[q] = pc[q] /\ at'[q] = at[q] /\ job'[q] = job[q] /\ affected'[q] = affected[q]
      BY <1>3, <2>1 DEF LinkNote, Goes, Advance, TypeOK
    <3> QED
      BY <3>1, OthersLinked
  <2>2. CASE q = r
    <3>1. LinkOf(r)'
      <4>1. /\ job[r] # None /\ job' = job /\ job[r].kind = "ingest"
            /\ affected'[r] = Append(affected[r], Current(r)) /\ affected[r] \in Seq(Note)
        BY <1>3 DEF LinkNote, Flow, FlowOf, TypeOK
      <4>2. pc'[r] # "link" /\ Current(r) \in Note
        <5>1. pc' = [pc EXCEPT ![r] = "done"] \/ pc' = [pc EXCEPT ![r] = "merge"]
          BY <1>3, <4>1, Advancing DEF LinkNote
        <5> QED
          BY <4>1, <5>1, CurrentNote DEF TypeOK
      <4>3. ASSUME NEW n \in Note, n = Current(r) PROVE n \in linked' \/ DeleteAsked(n)'
        <5>1. stamp[n] # None => n \in linked'
          BY <1>3, <4>3 DEF LinkNote
        <5>2. stamp[n] # None \/ DeleteAsked(n)
          BY <1>3, <4>3 DEF LinkNote, LinkOf
        <5>3. DeleteAsked(n) => DeleteAsked(n)'
          BY DEF Kept
        <5> QED
          BY <5>1, <5>2, <5>3
      <4>4. ASSUME NEW i \in DOMAIN affected[r], NEW n \in Note, n = affected[r][i]
            PROVE  n \in linked' \/ DeleteAsked(n)'
        <5>1. n \in linked \/ DeleteAsked(n)
          BY <4>1, <4>4 DEF LinkOf
        <5> QED
          BY <5>1 DEF Kept
      <4>5. ASSUME NEW i \in DOMAIN affected'[r], NEW n \in Note, n = affected'[r][i]
            PROVE  n \in linked' \/ DeleteAsked(n)'
        <5>1. n = Current(r) \/ \E k \in DOMAIN affected[r] : n = affected[r][k]
          BY <4>1, <4>2, <4>5
        <5> QED
          BY <4>3, <4>4, <5>1
      <4>6. \A i \in DOMAIN affected'[r] : affected'[r][i] \in Note
        BY <4>1, <4>2
      <4>7. ASSUME NEW i \in DOMAIN affected'[r]
            PROVE  affected'[r][i] \in linked' \/ DeleteAsked(affected[r][i])'
        BY <4>5, <4>6
      <4> QED
        BY <4>2, <4>7 DEF LinkOf
    <3> QED
      BY <2>2, <3>1
  <2> QED
    BY <2>1, <2>2
<1>4. ASSUME NEW r \in Request, Skip(r) PROVE LinkOf(q)'
  <2>1. CASE q # r
    <3>1. pc'[q] = pc[q] /\ at'[q] = at[q] /\ job'[q] = job[q] /\ affected'[q] = affected[q]
      BY <1>4, <2>1 DEF Skip, Goes, Advance, TypeOK
    <3> QED
      BY <3>1, OthersLinked
  <2>2. CASE q = r
    <3>1. LinkOf(r)'
      <4>1. job[r] # None /\ job' = job /\ affected' = affected
        BY <1>4 DEF Skip, Flow, FlowOf
      <4>2. pc'[r] # "link"
        BY <1>4, <4>1, Advancing DEF Skip, TypeOK
      <4>3. \A i \in DOMAIN affected[r] : affected[r][i] \in Note
        BY DEF TypeOK
      <4> QED
        BY <4>1, <4>2, <4>3 DEF LinkOf, Kept
    <3> QED
      BY <2>2, <3>1
  <2> QED
    BY <2>1, <2>2
<1>5. ASSUME NEW r \in Request, Exists(r) PROVE LinkOf(q)'
  <2>1. CASE q # r
    <3>1. pc'[q] = pc[q] /\ at'[q] = at[q] /\ job'[q] = job[q] /\ affected'[q] = affected[q]
      BY <1>5, <2>1 DEF Exists, Goes, Advance, TypeOK
    <3> QED
      BY <3>1, OthersLinked
  <2>2. CASE q = r
    <3>1. job'[r].kind # "ingest"
      BY <1>5 DEF Exists, Flow, FlowOf
    <3> QED
      BY <2>2, <3>1 DEF LinkOf, Flow, FlowOf
  <2> QED
    BY <2>1, <2>2
<1>6. ASSUME NEW r \in Request, Edit(r) PROVE LinkOf(q)'
  <2>1. CASE q # r
    <3>1. pc'[q] = pc[q] /\ at'[q] = at[q] /\ job'[q] = job[q] /\ affected'[q] = affected[q]
      BY <1>6, <2>1 DEF Edit, Goes, Advance, TypeOK
    <3> QED
      BY <3>1, OthersLinked
  <2>2. CASE q = r
    <3>1. job'[r].kind # "ingest"
      BY <1>6 DEF Edit, Flow, FlowOf
    <3> QED
      BY <2>2, <3>1 DEF LinkOf, Flow, FlowOf
  <2> QED
    BY <2>1, <2>2
<1>7. ASSUME NEW r \in Request, Delete(r) PROVE LinkOf(q)'
  <2>1. CASE q # r
    <3>1. pc'[q] = pc[q] /\ at'[q] = at[q] /\ job'[q] = job[q] /\ affected'[q] = affected[q]
      BY <1>7, <2>1 DEF Delete, Goes, Advance, TypeOK
    <3> QED
      BY <3>1, OthersLinked
  <2>2. CASE q = r
    <3>1. job'[r].kind # "ingest"
      BY <1>7 DEF Delete, Flow, FlowOf
    <3> QED
      BY <2>2, <3>1 DEF LinkOf, Flow, FlowOf
  <2> QED
    BY <2>1, <2>2
<1>8. ASSUME NEW r \in Request, Propose(r) PROVE LinkOf(q)'
  <2>1. CASE q # r
    <3>1. pc'[q] = pc[q] /\ at'[q] = at[q] /\ job'[q] = job[q] /\ affected'[q] = affected[q]
      BY ZenonT(60), <1>8, <2>1 DEF Propose, Goes, Advance, TypeOK
    <3> QED
      BY <3>1, OthersLinked
  <2>2. CASE q = r
    <3>1. job'[r].kind # "ingest"
      BY <1>8 DEF Propose, Flow, FlowOf
    <3> QED
      BY <2>2, <3>1 DEF LinkOf, Flow, FlowOf
  <2> QED
    BY <2>1, <2>2
<1>9. ASSUME NEW r \in Request, Confirm(r) PROVE LinkOf(q)'
  <2>1. CASE q # r
    <3>1. pc'[q] = pc[q] /\ at'[q] = at[q] /\ job'[q] = job[q] /\ affected'[q] = affected[q]
      BY <1>9, <2>1 DEF Confirm, Goes, Advance, TypeOK
    <3> QED
      BY <3>1, OthersLinked
  <2>2. CASE q = r
    <3>1. job'[r].kind # "ingest"
      BY <1>9 DEF Confirm, Flow, FlowOf
    <3> QED
      BY <2>2, <3>1 DEF LinkOf, Flow, FlowOf
  <2> QED
    BY <2>1, <2>2
<1>10. ASSUME NEW r \in Request, Check(r) PROVE LinkOf(q)'
  <2>1. CASE q # r
    <3>1. pc'[q] = pc[q] /\ at'[q] = at[q] /\ job'[q] = job[q] /\ affected'[q] = affected[q]
      BY <1>10, <2>1 DEF Check, Goes, Advance, TypeOK
    <3> QED
      BY <3>1, OthersLinked
  <2>2. CASE q = r
    <3>1. job'[r].kind # "ingest"
      BY <1>10 DEF Check, Flow, FlowOf
    <3> QED
      BY <2>2, <3>1 DEF LinkOf, Flow, FlowOf
  <2> QED
    BY <2>1, <2>2
<1>11. ASSUME NEW r \in Request, WriteNote(r) PROVE LinkOf(q)'
  <2>1. CASE q # r
    <3>1. pc'[q] = pc[q] /\ at'[q] = at[q] /\ job'[q] = job[q] /\ affected'[q] = affected[q]
      BY <1>11, <2>1 DEF WriteNote, Goes, Advance, TypeOK
    <3> QED
      BY <3>1, OthersLinked
  <2>2. CASE q = r
    <3>1. job'[r].kind # "ingest"
      BY <1>11 DEF WriteNote, Flow, FlowOf
    <3> QED
      BY <2>2, <3>1 DEF LinkOf, Flow, FlowOf
  <2> QED
    BY <2>1, <2>2
<1>12. ASSUME NEW r \in Request, WriteSession(r) PROVE LinkOf(q)'
  <2>1. CASE q # r
    <3>1. pc'[q] = pc[q] /\ at'[q] = at[q] /\ job'[q] = job[q] /\ affected'[q] = affected[q]
      BY <1>12, <2>1 DEF WriteSession, Goes, Advance, TypeOK
    <3> QED
      BY <3>1, OthersLinked
  <2>2. CASE q = r
    <3>1. job'[r].kind # "ingest"
      BY <1>12 DEF WriteSession, Flow, FlowOf
    <3> QED
      BY <2>2, <3>1 DEF LinkOf, Flow, FlowOf
  <2> QED
    BY <2>1, <2>2
<1>13. ASSUME NEW r \in Request, JoinSession(r) PROVE LinkOf(q)'
  <2>1. CASE q # r
    <3>1. pc'[q] = pc[q] /\ at'[q] = at[q] /\ job'[q] = job[q] /\ affected'[q] = affected[q]
      BY <1>13, <2>1 DEF JoinSession, Goes, Advance, TypeOK
    <3> QED
      BY <3>1, OthersLinked
  <2>2. CASE q = r
    <3>1. job'[r].kind # "ingest"
      BY <1>13 DEF JoinSession, Flow, FlowOf
    <3> QED
      BY <2>2, <3>1 DEF LinkOf, Flow, FlowOf
  <2> QED
    BY <2>1, <2>2
<1>14. ASSUME NEW r \in Request, ConfirmFails(r) PROVE LinkOf(q)'
  <2>1. CASE q # r
    <3>1. pc'[q] = pc[q] /\ at'[q] = at[q] /\ job'[q] = job[q] /\ affected'[q] = affected[q]
      BY <1>14, <2>1 DEF ConfirmFails, Goes, Advance, TypeOK
    <3> QED
      BY <3>1, OthersLinked
  <2>2. CASE q = r
    <3>1. job'[r].kind # "ingest"
      BY <1>14 DEF ConfirmFails, Flow, FlowOf
    <3> QED
      BY <2>2, <3>1 DEF LinkOf, Flow, FlowOf
  <2> QED
    BY <2>1, <2>2
<1>15. CASE UNCHANGED vars
  BY <1>15 DEF vars, LinkOf, Current, DeleteAsked
<1> QED
  BY <1>1, <1>2, <1>3, <1>4, <1>5, <1>6, <1>7, <1>8, <1>9, <1>10, <1>11, <1>12, <1>13,
     <1>14, <1>15 DEF Next

(* Sequences of notes with the same elements are equal.                       *)
LEMMA SeqEqual ==
    ASSUME NEW s \in Seq(Note), NEW u \in Seq(Note), Len(s) = Len(u),
           \A i \in 1 .. Len(s) : s[i] = u[i]
    PROVE  s = u
OBVIOUS

(* The invariant of every behaviour.                                          *)
LEMMA Invariance == Spec => []Inv
<1>1. Inv /\ [Next]_vars => Inv'
  <2> SUFFICES ASSUME Inv, [Next]_vars PROVE Inv'
    OBVIOUS
  <2>1. TypeOK' /\ Flow' /\ Prefix' /\ Clocked'
    BY NextTypes, NextFlow, NextPrefix, NextClocked
  <2>2. StampWritten' /\ ReadWritten' /\ Unchanged' /\ Once'
    BY NextStampWritten, NextReadWritten, NextUnchanged, NextOnce
  <2>3. Sent' /\ Linked'
    BY NextSent, NextLinked
  <2> QED
    BY <2>1, <2>2, <2>3 DEF Inv
<1> QED
  BY InitInv, <1>1, PTL DEF Spec

------------------------------------------------------------------------------
(* Types; a note joined to its class is there.                                *)
THEOREM TypeCorrect == Spec => []TypeOK
BY Invariance, PTL DEF Inv

(* A confirmation never overwrites a change it was confirmed without having   *)
(* seen: one updatedAt per request tells all writes of a note apart, whatever *)
(* is deleted and ingested anew.                                              *)
THEOREM ConfirmedEditsKept == Spec => []EditsNotLost
<1>1. Inv => EditsNotLost
  BY DEF Inv, Sent, SentOf, Updates, EditsNotLost
<1> QED
  BY Invariance, <1>1, PTL

(* What a confirmation wrote is the head of its list however it ended.        *)
THEOREM ConfirmationsArePrefixes == Spec => []ConfirmIsPrefix
<1>1. Inv => ConfirmIsPrefix
  <2> SUFFICES ASSUME Inv, NEW r \in Request, job[r] # None, job[r].kind = "update"
               PROVE  /\ affected[r] = SubSeq(job[r].notes, 1, Len(affected[r]))
                      /\ r \in sessions => affected[r] = job[r].notes
                      /\ pc[r] \in {"conflict", "not found", "too large"} => r \notin sessions
    BY DEF ConfirmIsPrefix
  <2>1. PrefixOf(r) /\ TypeOK /\ job[r] \in Job
    BY DEF Inv, Prefix, TypeOK
  <2>2. affected[r] \in Seq(Note) /\ job[r].notes \in Seq(Note) /\ Len(affected[r]) \in Nat
        /\ Len(job[r].notes) \in Nat
    BY <2>1, JobShape DEF TypeOK
  <2>3. HeadOf(r)
    BY <2>1 DEF PrefixOf, Updates
  <2>4. affected[r] = SubSeq(job[r].notes, 1, Len(affected[r]))
    <3> DEFINE head == SubSeq(job[r].notes, 1, Len(affected[r]))
    <3>1. head \in Seq(Note) /\ Len(head) = Len(affected[r])
      BY <2>2, <2>3 DEF HeadOf
    <3>2. \A i \in 1 .. Len(affected[r]) : head[i] = affected[r][i]
      BY <2>2, <2>3 DEF HeadOf
    <3> QED
      BY <2>2, <3>1, <3>2, SeqEqual
  <2>5. r \in sessions => affected[r] = job[r].notes
    BY <2>1, <2>2, <2>3, SeqEqual DEF HeadOf, PrefixOf, Updates
  <2>6. pc[r] \in {"conflict", "not found", "too large"} => r \notin sessions
    BY <2>1 DEF PrefixOf, Updates
  <2> QED
    BY <2>4, <2>5, <2>6
<1> QED
  BY Invariance, <1>1, PTL

(* A note counted as inserted is there and joined until its delete.           *)
THEOREM InsertedNotesLinked == Spec => []InsertedIsLinked
<1>1. Inv => InsertedIsLinked
  BY DEF Inv, Linked, LinkOf, DeleteAsked, InsertedIsLinked
<1> QED
  BY Invariance, <1>1, PTL
================================================================================
