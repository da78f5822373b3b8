---------------------------- MODULE KnowledgeNotes ----------------------------
(***************************************************************************)
(* Knowledge notes (the /knowledge routes of app.py): folders are          *)
(* ingested, notes edited and deleted, and updates proposed by a language  *)
(* model, reviewed and confirmed, by requests that interleave query by     *)
(* query.                                                                  *)
(*                                                                         *)
(* A note is abstracted to its updatedAt, a time its last writer took:     *)
(* times differ, and are numbered as they are taken. What is written is    *)
(* left out; which writes a note has seen is history. The language model   *)
(* (called through n8n) and Neo4j are external.                            *)
(***************************************************************************)
EXTENDS Integers, Sequences, Functions

CONSTANTS
    Request,  \* requests; a proposal and its confirmation count as one
    Note,
    Job,      \* what a request may ask for
    Known,    \* notes there are at first
    None

Kinds == {"ingest", "edit", "delete", "update"}

(* large: a proposed content beyond 100 KB.                                   *)
Jobs == [kind : Kinds, notes : Seq(Note), large : BOOLEAN]

(* rglob lists every file once; the other lists are the client's.             *)
ASSUME JobAssumption ==
    /\ Job \subseteq Jobs
    /\ \A j \in Job : /\ j.notes # <<>>
                      /\ j.kind \in {"edit", "delete"} => Len(j.notes) = 1
                      /\ j.kind = "ingest" => IsInjective(j.notes)
ASSUME NoteAssumption == None \notin Job \cup Nat /\ Known \subseteq Note

VARIABLES
    stamp,    \* updatedAt of every note; None: there is none
    linked,   \* notes with an INSTANCE_OF relationship
    sessions, \* requests that left a SpecSession
    clock,    \* times taken
    pc,       \* per request: "idle", its next step, or its answer
    job,      \* what it asked for
    at,       \* the place of its next note in the list
    now,      \* the time its handler took
    read,     \* per note: the updatedAt the proposal was made from
    affected, \* notes the confirmation wrote or the folder inserted, so far
    landed,   \* history: per note, the requests that wrote it
    base,     \* history: per note, those when the proposal read it
    sent      \* history: per note, those when the confirmation arrived

graph == <<stamp, linked, sessions>>
history == <<landed, base, sent>>
vars == <<graph, clock, pc, job, at, now, read, affected, history>>

Answers == {"done", "not found", "conflict", "too large", "failed"}

(* The note a request is at.                                                  *)
Current(r) == job[r].notes[at[r]]

Last(r) == at[r] = Len(job[r].notes)

Goes(r, to) == pc' = [pc EXCEPT ![r] = to]

(* To the next note, or to what follows the last one.                         *)
Advance(r, again, finally) ==
    IF Last(r) THEN Goes(r, finally) /\ at' = [at EXCEPT ![r] = 1]
    ELSE Goes(r, again) /\ at' = [at EXCEPT ![r] = @ + 1]

------------------------------------------------------------------------------
Init ==
    /\ stamp = [n \in Note |-> IF n \in Known THEN 0 ELSE None]
    /\ linked = Known /\ sessions = {} /\ clock = 0
    /\ pc = [r \in Request |-> "idle"]
    /\ job = [r \in Request |-> None]
    /\ at = [r \in Request |-> 1]
    /\ now = [r \in Request |-> 0]
    /\ read = [r \in Request |-> [n \in Note |-> None]]
    /\ affected = [r \in Request |-> <<>>]
    /\ landed = [n \in Note |-> {}]
    /\ base = [r \in Request |-> [n \in Note |-> {}]]
    /\ sent = [r \in Request |-> [n \in Note |-> {}]]

(* datetime.now.                                                              *)
TakeTime(r) == clock' = clock + 1 /\ now' = [now EXCEPT ![r] = clock + 1]

(* A handler begins; ingest takes one time for all its files here.            *)
Arrive(r, j) ==
    /\ pc[r] = "idle"
    /\ job' = [job EXCEPT ![r] = j]
    /\ \/ j.kind = "ingest" /\ TakeTime(r) /\ Goes(r, "merge")
       \/ j.kind = "update" /\ UNCHANGED <<clock, now>> /\ Goes(r, "propose")
       \/ j.kind \in {"edit", "delete"} /\ UNCHANGED <<clock, now>> /\ Goes(r, "exists")
    /\ UNCHANGED <<graph, at, read, affected, history>>

(* The write of r to the note it is at.                                       *)
Land(r) ==
    /\ stamp' = [stamp EXCEPT ![Current(r)] = now[r]]
    /\ landed' = [landed EXCEPT ![Current(r)] = @ \cup {r}]

(* ingest_folder, file by file: the note is merged,                           *)
MergeNote(r) ==
    /\ pc[r] = "merge"
    /\ Land(r)
    /\ Goes(r, "link")
    /\ UNCHANGED <<linked, sessions, clock, job, at, now, read, affected, base, sent>>

(* then joined to its class if it is still there (tags likewise),             *)
LinkNote(r) ==
    /\ pc[r] = "link"
    /\ linked' = IF stamp[Current(r)] = None THEN linked ELSE linked \cup {Current(r)}
    /\ affected' = [affected EXCEPT ![r] = Append(@, Current(r))]
    /\ Advance(r, "merge", "done")
    /\ UNCHANGED <<stamp, sessions, clock, job, now, read, history>>

(* Defect: a file whose relationship fails counts as inserted.                *)
SkipCounted(r) ==
    /\ pc[r] \in {"merge", "link"}
    /\ affected' = [affected EXCEPT ![r] = Append(@, Current(r))]
    /\ Advance(r, "merge", "done")
    /\ UNCHANGED <<graph, clock, job, now, read, history>>

(* and a file that is too large, cannot be read, or whose queries fail is     *)
(* skipped, wherever it got to.                                               *)
Skip(r) ==
    /\ pc[r] \in {"merge", "link"}
    /\ Advance(r, "merge", "done")
    /\ UNCHANGED <<graph, clock, job, now, read, affected, history>>

(* Edits and deletes look for the note first; an edit then takes its time.    *)
Exists(r) ==
    /\ pc[r] = "exists"
    /\ Goes(r, IF stamp[Current(r)] = None THEN "not found" ELSE "change")
    /\ IF job[r].kind = "edit" THEN TakeTime(r) ELSE UNCHANGED <<clock, now>>
    /\ UNCHANGED <<graph, job, at, read, affected, history>>

(* Defect: updatedAt is left alone when a note is edited.                     *)
EditUnstamped(r) ==
    /\ pc[r] = "change" /\ job[r].kind = "edit"
    /\ IF stamp[Current(r)] = None THEN UNCHANGED landed
       ELSE landed' = [landed EXCEPT ![Current(r)] = @ \cup {r}]
    /\ Goes(r, "done")
    /\ UNCHANGED <<graph, clock, job, at, now, read, affected, base, sent>>

(* MATCH ... SET does nothing to a note that has gone.                        *)
Edit(r) ==
    /\ pc[r] = "change" /\ job[r].kind = "edit"
    /\ IF stamp[Current(r)] = None THEN UNCHANGED <<stamp, landed>> ELSE Land(r)
    /\ Goes(r, "done")
    /\ UNCHANGED <<linked, sessions, clock, job, at, now, read, affected, base, sent>>

Delete(r) ==
    /\ pc[r] = "change" /\ job[r].kind = "delete"
    /\ stamp' = [stamp EXCEPT ![Current(r)] = None]
    /\ linked' = linked \ {Current(r)}
    /\ landed' = [landed EXCEPT ![Current(r)] = @ \cup {r}]
    /\ Goes(r, "done")
    /\ UNCHANGED <<sessions, clock, job, at, now, read, affected, base, sent>>

(* knowledge_update_propose: every note is read, then the language model asked*)
(* about it, which may fail.                                                  *)
Propose(r) ==
    /\ pc[r] = "propose"
    /\ IF stamp[Current(r)] = None THEN Goes(r, "not found") /\ UNCHANGED <<read, base, at>>
       ELSE /\ read' = [read EXCEPT ![r][Current(r)] = stamp[Current(r)]]
            /\ base' = [base EXCEPT ![r][Current(r)] = landed[Current(r)]]
            /\ \/ Goes(r, "failed") /\ UNCHANGED at
               \/ Advance(r, "propose", "review")
    /\ UNCHANGED <<graph, clock, job, now, affected, landed, sent>>

(* The user confirms: sizes are checked before anything is written.           *)
Confirm(r) ==
    /\ pc[r] = "review"
    /\ TakeTime(r)
    /\ sent' = [sent EXCEPT ![r] = landed]
    /\ Goes(r, IF job[r].large THEN "too large" ELSE "check")
    /\ UNCHANGED <<graph, job, at, read, affected, landed, base>>

(* Defect: a note that was modified is passed over.                           *)
CheckPassing(r) ==
    /\ pc[r] = "check"
    /\ LET found == stamp[Current(r)]
       IN  IF found # None /\ found = read[r][Current(r)]
           THEN Goes(r, "write") /\ UNCHANGED at
           ELSE Advance(r, "check", "session")
    /\ UNCHANGED <<graph, clock, job, now, read, affected, history>>

(* Note by note: it must be there, as it was when the proposal was made,      *)
Check(r) ==
    /\ pc[r] = "check"
    /\ LET found == stamp[Current(r)]
       IN  Goes(r, IF found = None THEN "not found"
                   ELSE IF found # read[r][Current(r)] THEN "conflict"
                   ELSE "write")
    /\ UNCHANGED <<graph, clock, job, at, now, read, affected, history>>

(* and is written by the next query.                                          *)
WriteNote(r) ==
    /\ pc[r] = "write"
    /\ IF stamp[Current(r)] = None THEN UNCHANGED <<stamp, landed>> ELSE Land(r)
    /\ affected' = [affected EXCEPT ![r] = Append(@, Current(r))]
    /\ Advance(r, "check", "session")
    /\ UNCHANGED <<linked, sessions, clock, job, now, read, base, sent>>

(* At the end a session is merged, and joined to its class.                   *)
WriteSession(r) ==
    /\ pc[r] = "session"
    /\ sessions' = sessions \cup {r}
    /\ Goes(r, "join")
    /\ UNCHANGED <<stamp, linked, clock, job, at, now, read, affected, history>>

JoinSession(r) ==
    /\ pc[r] = "join"
    /\ Goes(r, "done")
    /\ UNCHANGED <<graph, clock, job, at, now, read, affected, history>>

(* A query of the confirmation fails: 500, what was written stays.            *)
ConfirmFails(r) ==
    /\ pc[r] \in {"check", "write", "session", "join"}
    /\ Goes(r, "failed")
    /\ UNCHANGED <<graph, clock, job, at, now, read, affected, history>>

Next ==
    \E r \in Request :
        \/ \E j \in Job : Arrive(r, j)
        \/ MergeNote(r) \/ LinkNote(r) \/ Skip(r)
        \/ Exists(r) \/ Edit(r) \/ Delete(r)
        \/ Propose(r) \/ Confirm(r) \/ Check(r) \/ WriteNote(r) \/ WriteSession(r)
        \/ JoinSession(r) \/ ConfirmFails(r)

Spec == Init /\ [][Next]_vars

------------------------------------------------------------------------------
(* Types.                                                                     *)
TypeOK ==
    /\ stamp \in [Note -> (0 .. clock) \cup {None}] /\ linked \subseteq Note
    /\ \A n \in linked : stamp[n] # None
    /\ sessions \subseteq Request /\ clock \in Nat
    /\ pc \in [Request -> {"idle", "merge", "link", "exists", "change", "propose", "review",
                           "check", "write", "session", "join"} \cup Answers]
    /\ job \in [Request -> Job \cup {None}] /\ now \in [Request -> 0 .. clock]
    /\ at \in [Request -> Nat] /\ affected \in [Request -> Seq(Note)]
    /\ \A r \in Request : job[r] # None => at[r] \in DOMAIN job[r].notes
    /\ read \in [Request -> [Note -> Nat \cup {None}]]
    /\ landed \in [Note -> SUBSET Request]
    /\ base \in [Request -> [Note -> SUBSET Request]]
    /\ sent \in [Request -> [Note -> SUBSET Request]]

(* A confirmation never overwrites a change that landed after its proposal    *)
(* read the note and before it was confirmed: updatedAt tells every write of  *)
(* a note from every other, a note deleted and ingested anew included         *)
(* (knowledge_update_confirm's 409).                                          *)
EditsNotLost ==
    \A r \in Request : job[r] # None /\ job[r].kind = "update" =>
        \A i \in DOMAIN affected[r] :
            sent[r][affected[r][i]] = base[r][affected[r][i]]

(* Whatever became of a confirmation, what it wrote is the head of its list,  *)
(* up to the note that refused it, and a session is left when that is the     *)
(* whole list (the loop writes as it checks, outside a transaction).          *)
ConfirmIsPrefix ==
    \A r \in Request : job[r] # None /\ job[r].kind = "update" =>
        /\ affected[r] = SubSeq(job[r].notes, 1, Len(affected[r]))
        /\ r \in sessions => affected[r] = job[r].notes
        /\ pc[r] \in {"conflict", "not found", "too large"} => r \notin sessions

(* A note counted as inserted was merged and joined to its class, unless a    *)
(* delete of it has been asked for (ingest_folder counts what failed as       *)
(* skipped, although its note may have been written).                         *)
InsertedIsLinked ==
    \A r \in Request : job[r] # None /\ job[r].kind = "ingest" =>
        \A i \in DOMAIN affected[r] :
            \/ affected[r][i] \in linked
            \/ \E q \in Request : /\ job[q] # None /\ job[q].kind = "delete"
                                  /\ job[q].notes[1] = affected[r][i]
===============================================================================
