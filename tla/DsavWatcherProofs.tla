-------------------------- MODULE DsavWatcherProofs --------------------------
(***************************************************************************)
(* Theorems about DsavWatcher, for every number of projects, runs, threads *)
(* and configurations and for every bound.                                 *)
(***************************************************************************)
EXTENDS DsavWatcher, FiniteSetTheorems, TLAPS

(* The locals of poll_once that a program point relies on.                    *)
Locals ==
    \A t \in Thread :
        /\ pc[t] \in {"newest", "coalesce", "shacl", "complete", "fail", "publish"}
              => proj[t] \in Project /\ conf[t] \in Configs
        /\ pc[t] \in {"shacl", "complete", "fail", "publish"} => kept[t] \in Run

Typed == TypeOK /\ Locals

ThreadTypes ==
    /\ pc \in [Thread -> PC]
    /\ tickNow \in [Thread -> Nat]
    /\ todo \in [Thread -> SUBSET Project]
    /\ proj \in [Thread -> Project \cup {None}]
    /\ conf \in [Thread -> Configs \cup {None}]
    /\ kept \in [Thread -> Run \cup {None}]
    /\ Locals

------------------------------------------------------------------------------
(* What the helper actions of a tick leave behind.                            *)

(* A thread that goes on within its tick keeps the locals its next step        *)
(* reads.                                                                      *)
LEMMA GotoTyped ==
    ASSUME NEW t \in Thread, Typed, NEW label \in PC,
           label \in {"newest", "coalesce", "shacl", "complete", "fail", "publish"}
              => proj[t] \in Project /\ conf[t] \in Configs,
           label \in {"shacl", "complete", "fail", "publish"} => kept[t] \in Run,
           Goto(t, label)
    PROVE  ThreadTypes'
  BY DEF Typed, TypeOK, Locals, Goto, ThreadTypes

(* A thread that goes on to the next project stays typed (the loop of          *)
(* poll_once).                                                                 *)
LEMMA NextProjectTyped ==
    ASSUME NEW t \in Thread, Typed, NextProject(t)
    PROVE  ThreadTypes'
  BY DEF Typed, TypeOK, Locals, NextProject, ThreadTypes, PC

(* A thread that leaves its tick stays typed (the end of poll_once).           *)
LEMMA LeaveTickTyped ==
    ASSUME NEW t \in Thread, Typed, LeaveTick(t)
    PROVE  ThreadTypes'
  BY DEF Typed, TypeOK, Locals, LeaveTick, ThreadTypes, PC

(* A thread that is started is typed (start_watcher).                          *)
LEMMA SpawnTyped ==
    ASSUME NEW t \in Thread, Typed, SpawnThread(t)
    PROVE  ThreadTypes' /\ stopEvent' \in BOOLEAN /\ watcher' \in Thread \cup {None}
  BY DEF Typed, TypeOK, Locals, SpawnThread, ThreadTypes, PC

(* A query that lost its acknowledgement leaves the types as they are.         *)
LEMMA UnacknowledgedTyped ==
    ASSUME NEW t \in Thread, Typed, Unacknowledged(t)
    PROVE  ThreadTypes' /\ faults' \in Nat
  BY LeaveTickTyped DEF Unacknowledged, Typed, TypeOK

(* Nothing has been captured, no thread runs.                                  *)
LEMMA InitTyped == Init => Typed
<1> SUFFICES ASSUME Init PROVE Typed
  OBVIOUS
<1>1. /\ status \in [Run -> Status]
      /\ window \in [Project -> SUBSET Stamp]
  BY DEF Init, Status
<1>2. /\ pc \in [Thread -> PC]
      /\ todo \in [Thread -> SUBSET Project]
      /\ Locals
  BY DEF Init, PC, Locals
<1>3. QED
  BY <1>1, <1>2 DEF Init, Typed, TypeOK

(* Every step preserves the types of the state and of the ticks' locals.      *)
LEMMA NextTyped == Typed /\ [Next]_vars => Typed'
<1> SUFFICES ASSUME Typed, [Next]_vars PROVE Typed'
  OBVIOUS
<1> USE ConstantsAssumption
<1>1. CASE ClockTick
  BY <1>1 DEF ClockTick, Typed, TypeOK, Locals, rowVars, processVars, threadVars
<1>2. ASSUME NEW p \in Project, NEW c \in Configs, UpsertConfig(p, c) PROVE Typed'
  BY <1>2 DEF UpsertConfig, Typed, TypeOK, Locals, rowVars, processVars, threadVars
<1>3. ASSUME NEW r \in Run, StampCapture(r) PROVE Typed'
  BY <1>3 DEF StampCapture, Typed, TypeOK, Locals, processVars, threadVars, Status
<1>4. ASSUME NEW r \in Run, PersistCapture(r) PROVE Typed'
  BY <1>4 DEF PersistCapture, Typed, TypeOK, Locals, processVars, threadVars, Status
<1>5. ASSUME NEW t \in Thread, StartProcess(t) PROVE Typed'
  BY <1>5, SpawnTyped DEF StartProcess, Typed, TypeOK, ThreadTypes, rowVars
<1>6. CASE StopWatcher
  BY <1>6 DEF StopWatcher, Typed, TypeOK, Locals, rowVars, threadVars
<1>7. ASSUME NEW t \in Thread, ReenterLifespan(t) PROVE Typed'
  <2>1. restarts' \in Nat
    BY <1>7 DEF ReenterLifespan, Typed, TypeOK
  <2>2. QED
    BY <1>7, <2>1, SpawnTyped DEF ReenterLifespan, Typed, TypeOK, ThreadTypes, rowVars
<1>8. CASE EndProcess
  <2>1. status' \in [Run -> Status]
    BY <1>8 DEF EndProcess, Typed, TypeOK, Status
  <2>2. window' \in [Project -> SUBSET Stamp]
    BY <1>8 DEF EndProcess, Typed, TypeOK
  <2>3. ThreadTypes'
    BY <1>8 DEF EndProcess, ThreadTypes, Locals, PC
  <2>4. UNCHANGED <<capturedAt, attempts, judged, completedAt, sent, cfg, now, faults>>
    BY <1>8 DEF EndProcess
  <2>5. /\ proc' \in {"down", "serving", "stopping"} /\ restarts' \in Nat
        /\ stopEvent' \in BOOLEAN /\ watcher' \in Thread \cup {None}
    <3>1. proc' = "down" /\ restarts' = restarts + 1 /\ stopEvent' = FALSE /\ watcher' = None
      BY <1>8 DEF EndProcess
    <3>2. restarts' \in Nat
      BY <3>1 DEF Typed, TypeOK
    <3>3. QED
      BY <3>1, <3>2
  <2>6. QED
    BY <2>1, <2>2, <2>3, <2>4, <2>5 DEF Typed, TypeOK, ThreadTypes
<1>9. ASSUME NEW t \in Thread, ThreadStep(t) PROVE Typed'
  <2>1. CASE LeaveLoop(t)
    BY <2>1, GotoTyped DEF LeaveLoop, Typed, TypeOK, ThreadTypes, rowVars, processVars, PC
  <2>2. CASE BeginTick(t)
    BY <2>2 DEF BeginTick, Typed, TypeOK, Locals, rowVars, processVars, PC
  <2>3. CASE EndTick(t)
    <3>1. ThreadTypes'
      BY <2>3, LeaveTickTyped DEF EndTick
    <3>2. UNCHANGED <<rowVars, cfg, now, faults, processVars, window>>
      BY <2>3 DEF EndTick
    <3>3. QED
      BY <3>1, <3>2 DEF Typed, TypeOK, ThreadTypes, rowVars, processVars
  <2>4. CASE AbortTick(t)
    <3>1. ThreadTypes'
      BY <2>4, LeaveTickTyped DEF AbortTick
    <3>2. UNCHANGED <<rowVars, cfg, now, processVars, window>>
      BY <2>4 DEF AbortTick
    <3>3. faults' \in Nat
      BY <2>4 DEF AbortTick, Typed, TypeOK
    <3>4. QED
      BY <3>1, <3>2, <3>3 DEF Typed, TypeOK, ThreadTypes, rowVars, processVars
  <2>5. ASSUME NEW p \in Project, ReadConfig(t, p) PROVE Typed'
    <3>1. cfg[p] \in Configs
      BY DEF Typed, TypeOK
    <3>2. CASE ~cfg[p].enabled
      BY <2>5, <3>2 DEF ReadConfig, Typed, TypeOK, Locals, ThreadTypes, rowVars, processVars
    <3>3. CASE cfg[p].enabled
      <4>1. /\ todo' = [todo EXCEPT ![t] = @ \ {p}]
            /\ pc' = [pc EXCEPT ![t] = "newest"]
            /\ proj' = [proj EXCEPT ![t] = p]
            /\ conf' = [conf EXCEPT ![t] = cfg[p]]
            /\ UNCHANGED <<tickNow, kept>>
        BY <2>5, <3>3 DEF ReadConfig
      <4>2. ThreadTypes'
        BY <3>1, <4>1 DEF Typed, TypeOK, Locals, ThreadTypes, PC
      <4>3. UNCHANGED <<rowVars, cfg, now, faults, processVars, window>>
        BY <2>5 DEF ReadConfig
      <4>4. QED
        BY <4>2, <4>3 DEF Typed, TypeOK, ThreadTypes, rowVars, processVars
    <3>4. QED
      BY <3>2, <3>3
  <2>6. CASE CheckGuards(t)
    <3>1. ThreadTypes'
      BY <2>6, NextProjectTyped, GotoTyped DEF CheckGuards, Typed, Locals, PC
    <3>2. window' \in [Project -> SUBSET Stamp]
      BY <2>6 DEF CheckGuards, PruneWindow, Pruned, Typed, TypeOK
    <3>3. QED
      BY <2>6, <3>1, <3>2 DEF CheckGuards, Typed, TypeOK, ThreadTypes, rowVars, processVars
  <2>7. CASE Coalesce(t)
    <3>1. CASE NextProject(t) /\ Acknowledged /\ UNCHANGED status
      BY <2>7, <3>1, NextProjectTyped
      DEF Coalesce, Acknowledged, Typed, TypeOK, ThreadTypes, processVars
    <3>2. ASSUME NEW k \in Newest(Captured(proj[t])),
                 status' = [r \in Run |-> IF r \in Stale(k) THEN "superseded" ELSE status[r]],
                 \/ /\ Acknowledged
                    /\ pc' = [pc EXCEPT ![t] = "shacl"]
                    /\ kept' = [kept EXCEPT ![t] = k]
                    /\ UNCHANGED <<tickNow, todo, proj, conf>>
                 \/ Unacknowledged(t)
          PROVE  Typed'
      <4>1. k \in Run
        BY DEF Newest, Captured
      <4>2. status' \in [Run -> Status]
        BY <3>2 DEF Typed, TypeOK, Status
      <4>3. ThreadTypes' /\ faults' \in Nat
        <5>1. CASE Unacknowledged(t)
          BY <5>1, UnacknowledgedTyped
        <5>2. CASE /\ Acknowledged
                   /\ pc' = [pc EXCEPT ![t] = "shacl"]
                   /\ kept' = [kept EXCEPT ![t] = k]
                   /\ UNCHANGED <<tickNow, todo, proj, conf>>
          <6>1. pc[t] = "coalesce"
            BY <2>7 DEF Coalesce
          <6>2. QED
            BY <5>2, <6>1, <4>1
            DEF Acknowledged, Typed, TypeOK, Locals, ThreadTypes, PC
        <5>3. QED
          BY <3>2, <5>1, <5>2
      <4>4. UNCHANGED <<capturedAt, attempts, judged, completedAt, sent,
                        cfg, now, processVars, window>>
        BY <2>7 DEF Coalesce
      <4>5. QED
        BY <4>2, <4>3, <4>4 DEF Typed, TypeOK, ThreadTypes, processVars, Locals
    <3>3. QED
      BY <2>7, <3>1, <3>2 DEF Coalesce
  <2>8. CASE ShaclAnswers(t)
    <3>1. ThreadTypes'
      BY <2>8, GotoTyped DEF ShaclAnswers, Typed, Locals, PC
    <3>2. QED
      BY <2>8, <3>1 DEF ShaclAnswers, Typed, TypeOK, ThreadTypes, rowVars, processVars
  <2>9. CASE Complete(t)
    <3>1. ThreadTypes' /\ faults' \in Nat
      BY <2>9, GotoTyped, NextProjectTyped, UnacknowledgedTyped
      DEF Complete, Acknowledged, Typed, TypeOK, Locals, PC
    <3>2. window' \in [Project -> SUBSET Stamp]
      <4>1. [at |-> tickNow[t], run |-> kept[t], by |-> t] \in Stamp
        BY <2>9 DEF Complete, Typed, TypeOK, Locals, Stamp
      <4>2. window \in [Project -> SUBSET Stamp]
        BY DEF Typed, TypeOK
      <4>3. QED
        BY <2>9, <4>1, <4>2 DEF Complete
    <3>3. /\ status' \in [Run -> Status]
          /\ judged' \in [Run -> BOOLEAN]
          /\ completedAt' \in [Run -> Nat]
      BY <2>9 DEF Complete, Typed, TypeOK, Status
    <3>4. UNCHANGED <<capturedAt, attempts, sent, cfg, now, processVars>>
      BY <2>9 DEF Complete
    <3>5. QED
      BY <3>1, <3>2, <3>3, <3>4 DEF Typed, TypeOK, ThreadTypes, processVars
  <2>10. CASE Fail(t)
    <3>1. ThreadTypes' /\ faults' \in Nat
      BY <2>10, NextProjectTyped, UnacknowledgedTyped DEF Fail, Acknowledged, Typed, TypeOK
    <3>2. status' \in [Run -> Status] /\ attempts' \in [Run -> Nat]
      <4>1. kept[t] \in Run /\ attempts[kept[t]] + 1 \in Nat
        BY <2>10 DEF Fail, Typed, TypeOK, Locals
      <4>2. attempts' = [attempts EXCEPT ![kept[t]] = attempts[kept[t]] + 1]
        BY <2>10 DEF Fail, NextAttempts
      <4>3. \/ status' = [status EXCEPT ![kept[t]] = "failed"]
            \/ status' = [status EXCEPT ![kept[t]] = "captured"]
        BY <2>10 DEF Fail
      <4>4. QED
        BY <4>1, <4>2, <4>3 DEF Typed, TypeOK, Status
    <3>3. UNCHANGED <<capturedAt, judged, completedAt, sent, cfg, now, processVars, window>>
      BY <2>10 DEF Fail
    <3>4. QED
      BY <3>1, <3>2, <3>3 DEF Typed, TypeOK, ThreadTypes, processVars
  <2>11. CASE Publish(t)
    BY <2>11, NextProjectTyped DEF Publish, Typed, TypeOK, ThreadTypes, processVars
  <2>12. QED
    BY <1>9, <2>1, <2>2, <2>3, <2>4, <2>5, <2>6, <2>7, <2>8, <2>9, <2>10, <2>11
    DEF ThreadStep
<1>10. CASE UNCHANGED vars
  BY <1>10 DEF vars, rowVars, processVars, threadVars, Typed, TypeOK, Locals
<1>11. QED
  BY <1>1, <1>2, <1>3, <1>4, <1>5, <1>6, <1>7, <1>8, <1>9, <1>10 DEF Next

(* The types hold in every state.                                              *)
LEMMA TypedAlways == Spec => []Typed
  BY InitTyped, NextTyped, PTL DEF Spec

(* The state keeps its types, and poll_once never uses a local of a turn it    *)
(* has not set in that turn.                                                   *)
THEOREM TypeCorrect == Spec => [](TypeOK /\ Locals)
  BY TypedAlways DEF Typed

------------------------------------------------------------------------------
(* The steps that touch ValidationRun rows, and what COALESCE_QUERY does.      *)

(* The steps that write to a ValidationRun row are those of six statements.    *)
LEMMA RowSteps ==
    ASSUME [Next]_vars
    PROVE  \/ UNCHANGED rowVars
           \/ \E r \in Run : StampCapture(r)
           \/ \E r \in Run : PersistCapture(r)
           \/ EndProcess
           \/ \E t \in Thread : Coalesce(t) \/ Complete(t) \/ Fail(t) \/ Publish(t)
<1>1. ASSUME NEW t \in Thread, ThreadStep(t)
      PROVE  UNCHANGED rowVars \/ Coalesce(t) \/ Complete(t) \/ Fail(t) \/ Publish(t)
  BY <1>1 DEF ThreadStep, LeaveLoop, BeginTick, EndTick, AbortTick, ReadConfig,
              CheckGuards, ShaclAnswers
<1>2. QED
  BY <1>1 DEF Next, vars, ClockTick, UpsertConfig, StartProcess, StopWatcher, ReenterLifespan

(* What COALESCE_QUERY does to the rows: one that is newest is kept, others    *)
(* of its project may be superseded.                                           *)
LEMMA CoalesceRows ==
    ASSUME NEW t \in Thread, Typed, Coalesce(t)
    PROVE  /\ UNCHANGED <<capturedAt, attempts, judged, completedAt, sent>>
           /\ \/ UNCHANGED status
              \/ \E k \in Run :
                    /\ status[k] = "captured" /\ ProjectOf[k] = proj[t]
                    /\ \A r \in Captured(proj[t]) : capturedAt[r] <= capturedAt[k]
                    /\ status' = [r \in Run |-> IF r \in Stale(k)
                                                THEN "superseded" ELSE status[r]]
  BY DEF Coalesce, Newest, Captured

------------------------------------------------------------------------------
(* The retry budget.                                                           *)

(* No attempt has been made.                                                   *)
LEMMA BudgetInit == Init => AttemptsWithinBudget
  BY DEF Init, AttemptsWithinBudget

(* Every step keeps the retry budget (FAIL_QUERY).                             *)
LEMMA BudgetNext ==
    ASSUME \E c \in Configs : c.maxAttempts > 0,
           Typed, AttemptsWithinBudget, [Next]_vars
    PROVE  AttemptsWithinBudget'
<1>1. CASE UNCHANGED rowVars
  BY <1>1 DEF rowVars, AttemptsWithinBudget
<1>2. ASSUME NEW r \in Run, StampCapture(r) PROVE AttemptsWithinBudget'
  BY <1>2 DEF StampCapture, AttemptsWithinBudget, Typed, TypeOK
<1>3. ASSUME NEW r \in Run, PersistCapture(r) PROVE AttemptsWithinBudget'
  <2>1. PICK c \in Configs : 0 < c.maxAttempts
    BY ConstantsAssumption
  <2>2. QED
    BY <1>3, <2>1 DEF PersistCapture, AttemptsWithinBudget, Typed, TypeOK
<1>4. CASE EndProcess
  BY <1>4 DEF EndProcess, AttemptsWithinBudget
<1>5. ASSUME NEW t \in Thread, Coalesce(t) PROVE AttemptsWithinBudget'
  BY <1>5, CoalesceRows DEF AttemptsWithinBudget
<1>6. ASSUME NEW t \in Thread, Complete(t) PROVE AttemptsWithinBudget'
  BY <1>6 DEF Complete, AttemptsWithinBudget, Typed, TypeOK
<1>7. ASSUME NEW t \in Thread, Fail(t) PROVE AttemptsWithinBudget'
  <2> DEFINE k == kept[t]
  <2>1. conf[t] \in Configs /\ k \in Run /\ attempts \in [Run -> Nat] /\ status \in [Run -> Status]
    BY <1>7 DEF Fail, Typed, TypeOK, Locals
  <2>2. conf[t].maxAttempts \in Nat /\ attempts[k] + 1 \in Nat
    BY <2>1, ConstantsAssumption
  <2>3. /\ attempts' = [attempts EXCEPT ![k] = attempts[k] + 1]
        /\ status' = [status EXCEPT ![k] = IF attempts[k] + 1 >= conf[t].maxAttempts
                                           THEN "failed" ELSE "captured"]
    BY <1>7 DEF Fail, OutOfAttempts, NextAttempts
  <2>4. /\ status'[k] = "captured" => attempts'[k] < conf[t].maxAttempts
        /\ status'[k] = "failed" => attempts'[k] >= conf[t].maxAttempts
    BY <2>1, <2>2, <2>3
  <2>5. ASSUME NEW r \in Run, r # k
        PROVE  status'[r] = status[r] /\ attempts'[r] = attempts[r]
    BY <2>1, <2>3, <2>5
  <2>6. QED
    BY <2>1, <2>4, <2>5 DEF AttemptsWithinBudget
<1>8. ASSUME NEW t \in Thread, Publish(t) PROVE AttemptsWithinBudget'
  BY <1>8 DEF Publish, AttemptsWithinBudget
<1>9. QED
  BY <1>1, <1>2, <1>3, <1>4, <1>5, <1>6, <1>7, <1>8, RowSteps

(* The retry budget, whatever faults, restarts, pollers and configuration      *)
(* changes come between two attempts.                                          *)
THEOREM RetryBudget ==
    ASSUME \E c \in Configs : c.maxAttempts > 0
    PROVE  Spec => []AttemptsWithinBudget
<1>1. Typed /\ AttemptsWithinBudget /\ [Next]_vars => AttemptsWithinBudget'
  BY BudgetNext
<1>2. QED
  BY <1>1, BudgetInit, TypedAlways, PTL DEF Spec

------------------------------------------------------------------------------
(* The newest snapshot of a burst.                                             *)

(* No row has been superseded.                                                 *)
LEMMA NewestInit == Init => NewestSurvives
  BY DEF Init, NewestSurvives

(* Every step keeps a newest snapshot of each project (COALESCE_QUERY).        *)
LEMMA NewestNext ==
    ASSUME Typed, NewestSurvives, [Next]_vars
    PROVE  NewestSurvives'
<1> DEFINE Survivor(r) == \E s \in Persisted(ProjectOf[r]) :
              status[s] # "superseded" /\ capturedAt[r] <= capturedAt[s]
<1> USE DEF Typed, TypeOK
<1>1. CASE UNCHANGED rowVars
  BY <1>1 DEF rowVars, NewestSurvives, Persisted
<1>2. ASSUME NEW x \in Run, StampCapture(x) PROVE NewestSurvives'
  BY <1>2 DEF StampCapture, NewestSurvives, Persisted
<1>3. ASSUME NEW x \in Run, PersistCapture(x) PROVE NewestSurvives'
  BY <1>3 DEF PersistCapture, NewestSurvives, Persisted
<1>4. CASE EndProcess
  BY <1>4 DEF EndProcess, NewestSurvives, Persisted
<1>5. ASSUME NEW t \in Thread, Coalesce(t) PROVE NewestSurvives'
  <2>1. UNCHANGED capturedAt
    BY <1>5, CoalesceRows
  <2>2. CASE UNCHANGED status
    BY <2>1, <2>2 DEF NewestSurvives, Persisted
  <2>3. ASSUME NEW k \in Run,
               status[k] = "captured", ProjectOf[k] = proj[t],
               \A r \in Captured(proj[t]) : capturedAt[r] <= capturedAt[k],
               status' = [r \in Run |-> IF r \in Stale(k) THEN "superseded" ELSE status[r]]
        PROVE  NewestSurvives'
    <3> SUFFICES ASSUME NEW r \in Run, status'[r] = "superseded" PROVE Survivor(r)'
      BY DEF NewestSurvives
    <3>1. status'[k] = "captured"
      BY <2>3 DEF Stale
    <3>2. \A s \in Stale(k) : capturedAt[s] <= capturedAt[k] /\ ProjectOf[s] = ProjectOf[k]
      BY <2>3 DEF Stale, Captured
    <3>3. CASE r \in Stale(k)
      BY <2>1, <2>3, <3>1, <3>2, <3>3 DEF Persisted
    <3>4. CASE r \notin Stale(k)
      <4>1. PICK s \in Persisted(ProjectOf[r]) :
               status[s] # "superseded" /\ capturedAt[r] <= capturedAt[s]
        BY <2>3, <3>4 DEF NewestSurvives
      <4>2. s \in Run /\ ProjectOf[s] = ProjectOf[r]
        BY <4>1 DEF Persisted
      <4>3. CASE s \in Stale(k)
        <5>1. capturedAt[r] <= capturedAt[k] /\ ProjectOf[k] = ProjectOf[r]
          BY <3>2, <4>1, <4>2, <4>3
        <5>2. QED
          BY <2>1, <3>1, <5>1 DEF Persisted
      <4>4. CASE s \notin Stale(k)
        BY <2>1, <2>3, <4>1, <4>2, <4>4 DEF Persisted
      <4>5. QED
        BY <4>3, <4>4
    <3>5. QED
      BY <3>3, <3>4
  <2>4. QED
    BY <1>5, <2>2, <2>3, CoalesceRows
<1>6. ASSUME NEW t \in Thread, Complete(t) PROVE NewestSurvives'
  BY <1>6 DEF Complete, NewestSurvives, Persisted
<1>7. ASSUME NEW t \in Thread, Fail(t) PROVE NewestSurvives'
  BY <1>7 DEF Fail, NewestSurvives, Persisted
<1>8. ASSUME NEW t \in Thread, Publish(t) PROVE NewestSurvives'
  BY <1>8 DEF Publish, NewestSurvives, Persisted
<1>9. QED
  BY <1>1, <1>2, <1>3, <1>4, <1>5, <1>6, <1>7, <1>8, RowSteps

(* A superseded snapshot always has a newer one of its project that stands,    *)
(* even where two pollers run at once.                                         *)
THEOREM NewestSnapshotStands == Spec => []NewestSurvives
<1>1. Typed /\ NewestSurvives /\ [Next]_vars => NewestSurvives'
  BY NewestNext
<1>2. QED
  BY <1>1, NewestInit, TypedAlways, PTL DEF Spec

------------------------------------------------------------------------------
(* A service whose lifespan is entered once per process has one poller.        *)

OnePoller ==
    /\ proc = "down" => \A t \in Thread : pc[t] = "dead"
    /\ \A t, u \in Thread : pc[t] # "dead" /\ pc[u] # "dead" => t = u

(* No thread is alive.                                                         *)
LEMMA OnePollerInit == Init => OnePoller
  BY DEF Init, OnePoller

(* A thread takes a step only while it lives, and no step of a thread starts   *)
(* another one.                                                                *)
LEMMA ThreadStepPc ==
    ASSUME Typed, NEW t \in Thread, ThreadStep(t)
    PROVE  /\ pc[t] # "dead"
           /\ \A u \in Thread : u # t => pc'[u] = pc[u]
           /\ UNCHANGED processVars
  BY DEF ThreadStep, LeaveLoop, BeginTick, EndTick, AbortTick, ReadConfig, CheckGuards,
         Coalesce, ShaclAnswers, Complete, Fail, Publish, Goto, NextProject, LeaveTick,
         Unacknowledged, Typed, TypeOK, processVars

(* Where the lifespan is entered once per process, no step makes a second      *)
(* poller (start_watcher, stop_watcher).                                       *)
LEMMA OnePollerNext ==
    ASSUME ~LifespanReentry, Typed, OnePoller, [Next]_vars
    PROVE  OnePoller'
<1>1. CASE UNCHANGED <<proc, pc>>
  BY <1>1 DEF OnePoller
<1>2. ASSUME NEW t \in Thread, StartProcess(t) PROVE OnePoller'
  BY <1>2 DEF StartProcess, SpawnThread, OnePoller, Typed, TypeOK
<1>3. CASE StopWatcher
  BY <1>3 DEF StopWatcher, threadVars, OnePoller
<1>4. CASE EndProcess
  BY <1>4 DEF EndProcess, OnePoller
<1>5. ASSUME NEW t \in Thread, ThreadStep(t) PROVE OnePoller'
  BY <1>5, ThreadStepPc DEF OnePoller, processVars
<1>6. QED
  BY <1>1, <1>2, <1>3, <1>4, <1>5
  DEF Next, vars, threadVars, processVars, ClockTick, UpsertConfig, StampCapture,
      PersistCapture, ReenterLifespan

------------------------------------------------------------------------------
(* The row a tick has kept, and how the other fields of a row bear on its      *)
(* status.                                                                     *)

RowFacts ==
    /\ \A r \in Run : judged[r] <=> status[r] = "completed"
    /\ \A r \in Run : sent[r] => judged[r]
    /\ \A r \in Run : status[r] \in {"absent", "requested"} => attempts[r] = 0

Inv == Typed /\ OnePoller /\ KeptStillCaptured /\ RowFacts

(* No thread has kept a row, and no row has a verdict.                         *)
LEMMA KeptInit == Init => KeptStillCaptured /\ RowFacts
  BY DEF Init, KeptStillCaptured, RowFacts

(* With one poller the row it has kept stays captured until it writes its      *)
(* verdict.                                                                    *)
LEMMA KeptNext ==
    ASSUME ~LifespanReentry, Inv, [Next]_vars
    PROVE  KeptStillCaptured'
<1> USE DEF Inv, Typed, TypeOK, Locals
<1>1. CASE UNCHANGED <<status, pc, kept>>
  BY <1>1 DEF KeptStillCaptured
<1>2. ASSUME NEW r \in Run, StampCapture(r) PROVE KeptStillCaptured'
  BY <1>2 DEF StampCapture, threadVars, KeptStillCaptured
<1>3. ASSUME NEW r \in Run, PersistCapture(r) PROVE KeptStillCaptured'
  BY <1>3 DEF PersistCapture, threadVars, KeptStillCaptured
<1>4. ASSUME NEW t \in Thread, StartProcess(t) PROVE KeptStillCaptured'
  BY <1>4 DEF StartProcess, SpawnThread, rowVars, KeptStillCaptured
<1>5. CASE EndProcess
  BY <1>5 DEF EndProcess, KeptStillCaptured
<1>6. ASSUME NEW t \in Thread, ThreadStep(t) PROVE KeptStillCaptured'
  <2>1. \A u \in Thread : u # t => pc[u] = "dead" /\ pc'[u] = "dead"
    BY <1>6, ThreadStepPc DEF OnePoller
  <2>2. SUFFICES
          /\ pc'[t] \in {"shacl", "complete", "fail"} => status'[kept'[t]] = "captured"
          /\ pc'[t] = "publish" => status'[kept'[t]] = "completed"
    BY <2>1 DEF KeptStillCaptured
  <2>3. CASE LeaveLoop(t) \/ BeginTick(t) \/ EndTick(t) \/ AbortTick(t)
    BY <2>3 DEF LeaveLoop, BeginTick, EndTick, AbortTick, Goto, LeaveTick
  <2>4. ASSUME NEW p \in Project, ReadConfig(t, p) PROVE pc'[t] \in {"next", "newest"}
    BY <2>4 DEF ReadConfig
  <2>5. CASE CheckGuards(t)
    BY <2>5 DEF CheckGuards, NextProject, Goto
  <2>6. CASE Coalesce(t)
    <3>1. CASE NextProject(t) \/ Unacknowledged(t)
      BY <3>1 DEF NextProject, Unacknowledged, LeaveTick
    <3>2. ASSUME NEW k \in Newest(Captured(proj[t])),
                 status' = [r \in Run |-> IF r \in Stale(k) THEN "superseded" ELSE status[r]],
                 pc' = [pc EXCEPT ![t] = "shacl"],
                 kept' = [kept EXCEPT ![t] = k]
          PROVE  pc'[t] = "shacl" /\ status'[kept'[t]] = "captured"
      BY <3>2 DEF Newest, Captured, Stale
    <3>3. QED
      BY <2>6, <3>1, <3>2 DEF Coalesce
  <2>7. CASE ShaclAnswers(t)
    BY <2>7 DEF ShaclAnswers, Goto, rowVars, KeptStillCaptured
  <2>8. CASE Complete(t)
    <3>1. kept[t] \in Run
      BY <2>8 DEF Complete
    <3>2. status'[kept[t]] = "completed"
      BY <2>8, <3>1 DEF Complete
    <3>3. \/ pc'[t] \in {"next", "idle"}
          \/ pc'[t] = "publish" /\ kept' = kept
      BY <2>8 DEF Complete, Goto, NextProject, Unacknowledged, LeaveTick
    <3>4. QED
      BY <3>2, <3>3
  <2>9. CASE Fail(t) \/ Publish(t)
    BY <2>9 DEF Fail, Publish, NextProject, Unacknowledged, LeaveTick
  <2>10. QED
    BY <1>6, <2>3, <2>4, <2>5, <2>6, <2>7, <2>8, <2>9 DEF ThreadStep
<1>7. QED
  BY <1>1, <1>2, <1>3, <1>4, <1>5, <1>6
  DEF Next, vars, rowVars, threadVars, processVars, ClockTick, UpsertConfig, StopWatcher,
      ReenterLifespan

(* Every step keeps a row's verdict, its publication and its status together   *)
(* (COMPLETE_QUERY, FAIL_QUERY).                                               *)
LEMMA RowFactsNext ==
    ASSUME Inv, [Next]_vars
    PROVE  RowFacts'
<1> USE DEF Inv, Typed, TypeOK, Locals, RowFacts
<1>1. CASE UNCHANGED rowVars
  BY <1>1 DEF rowVars
<1>2. ASSUME NEW r \in Run, StampCapture(r) PROVE RowFacts'
  BY <1>2 DEF StampCapture
<1>3. ASSUME NEW r \in Run, PersistCapture(r) PROVE RowFacts'
  BY <1>3 DEF PersistCapture
<1>4. CASE EndProcess
  BY <1>4 DEF EndProcess
<1>5. ASSUME NEW t \in Thread, Coalesce(t) PROVE RowFacts'
  BY <1>5, CoalesceRows DEF Stale, Captured
<1>6. ASSUME NEW t \in Thread, Complete(t) PROVE RowFacts'
  BY <1>6 DEF Complete
<1>7. ASSUME NEW t \in Thread, Fail(t) PROVE RowFacts'
  BY <1>7 DEF Fail, KeptStillCaptured
<1>8. ASSUME NEW t \in Thread, Publish(t) PROVE RowFacts'
  BY <1>8 DEF Publish, KeptStillCaptured
<1>9. QED
  BY <1>1, <1>2, <1>3, <1>4, <1>5, <1>6, <1>7, <1>8, RowSteps

(* The invariant holds in every state of a process that enters its lifespan    *)
(* once.                                                                       *)
LEMMA InvAlways == ASSUME ~LifespanReentry PROVE Spec => []Inv
<1>1. Init => Inv
  BY InitTyped, OnePollerInit, KeptInit DEF Inv
<1>2. Inv /\ [Next]_vars => Inv'
  BY NextTyped, OnePollerNext, KeptNext, RowFactsNext DEF Inv
<1>3. QED
  BY <1>1, <1>2, PTL DEF Spec

(* Although no lock is held, the row kept by COALESCE_QUERY is still captured  *)
(* when COMPLETE_QUERY or FAIL_QUERY hits it by its run id.                    *)
THEOREM KeptRowCaptured == ASSUME ~LifespanReentry PROVE Spec => []KeptStillCaptured
  BY InvAlways, PTL DEF Inv

(* A verdict is never on a superseded row, and SendStatus never without one.   *)
THEOREM VerdictsAgree ==
    ASSUME ~LifespanReentry
    PROVE  Spec => [](SupersededUnjudged /\ SentHasVerdict)
<1>1. Inv => SupersededUnjudged /\ SentHasVerdict
  BY DEF Inv, RowFacts, SupersededUnjudged, SentHasVerdict
<1>2. QED
  BY <1>1, InvAlways, PTL

(* A verdict is for ever.                                                      *)
THEOREM VerdictsFinal == ASSUME ~LifespanReentry PROVE Spec => VerdictFinal
<1> DEFINE Keeps == \A r \in Run : status[r] \in Verdicts => status'[r] = status[r]
<1>1. ASSUME Inv, [Next]_vars PROVE [Keeps]_vars
  <2> USE <1>1 DEF Inv, Typed, TypeOK, Locals, Verdicts
  <2>1. CASE UNCHANGED rowVars
    BY <2>1 DEF rowVars
  <2>2. ASSUME NEW r \in Run, StampCapture(r) \/ PersistCapture(r) PROVE Keeps
    BY <2>2 DEF StampCapture, PersistCapture
  <2>3. CASE EndProcess
    BY <2>3 DEF EndProcess
  <2>4. ASSUME NEW t \in Thread, Coalesce(t) PROVE Keeps
    BY <2>4, CoalesceRows DEF Stale, Captured
  <2>5. ASSUME NEW t \in Thread, Complete(t) \/ Fail(t) PROVE Keeps
    BY <2>5 DEF Complete, Fail, KeptStillCaptured
  <2>6. ASSUME NEW t \in Thread, Publish(t) PROVE Keeps
    BY <2>6 DEF Publish
  <2>7. QED
    BY <2>1, <2>2, <2>3, <2>4, <2>5, <2>6, RowSteps
<1>2. QED
  BY <1>1, InvAlways, PTL DEF Spec, VerdictFinal

------------------------------------------------------------------------------
(* The watcher implements RunLifecycle.                                        *)

Phase == [r \in Run |-> IF status[r] = "requested" THEN "absent" ELSE status[r]]

(* A service without captures is a life cycle without runs.                    *)
LEMMA LifecycleInit == Init => Lifecycle!Init
  BY DEF Init, Lifecycle!Init

(* Every step of the service is a step of the life cycle or leaves it alone.   *)
LEMMA LifecycleNext ==
    ASSUME Inv, [Next]_vars
    PROVE  [Lifecycle!Next]_(Lifecycle!lifecycleVars)
<1> USE DEF Inv, Typed, TypeOK, Locals
<1>1. SUFFICES \/ Phase' = Phase /\ attempts' = attempts
               \/ \E r \in Run : \/ Lifecycle!Capture(r) \/ Lifecycle!Coalesce(r)
                                 \/ Lifecycle!Judge(r) \/ Lifecycle!Try(r)
  BY DEF Phase, Lifecycle!Next, Lifecycle!lifecycleVars
<1>2. CASE UNCHANGED rowVars
  BY <1>2 DEF rowVars, Phase
<1>3. ASSUME NEW r \in Run, StampCapture(r) PROVE Phase' = Phase /\ attempts' = attempts
  BY <1>3 DEF StampCapture, Phase
<1>4. ASSUME NEW r \in Run, PersistCapture(r) PROVE Lifecycle!Capture(r)
  <2>1. Phase[r] = "absent" /\ Phase' = [Phase EXCEPT ![r] = "captured"]
    BY <1>4 DEF PersistCapture, Phase
  <2>2. attempts' = attempts
    BY <1>4 DEF PersistCapture, RowFacts
  <2>3. QED
    BY <2>1, <2>2 DEF Phase, Lifecycle!Capture
<1>5. CASE EndProcess
  BY <1>5 DEF EndProcess, Phase
<1>6. ASSUME NEW t \in Thread, Coalesce(t)
      PROVE  \/ Phase' = Phase /\ attempts' = attempts
             \/ \E k \in Run : Lifecycle!Coalesce(k)
  <2>1. UNCHANGED attempts
    BY <1>6, CoalesceRows
  <2>2. CASE UNCHANGED status
    BY <2>1, <2>2 DEF Phase
  <2>3. ASSUME NEW k \in Run, status[k] = "captured", ProjectOf[k] = proj[t],
               status' = [r \in Run |-> IF r \in Stale(k) THEN "superseded" ELSE status[r]]
        PROVE  Lifecycle!Coalesce(k)
    BY <2>1, <2>3 DEF Stale, Captured, Lifecycle!Coalesce, Lifecycle!Waiting
  <2>4. QED
    BY <1>6, <2>2, <2>3, CoalesceRows
<1>7. ASSUME NEW t \in Thread, Complete(t) PROVE \E k \in Run : Lifecycle!Judge(k)
  <2>0. PICK k \in Run : k = kept[t]
    BY <1>7 DEF Complete
  <2>1. status[k] = "captured" /\ attempts' = attempts
        /\ status' = [status EXCEPT ![k] = "completed"]
    BY <1>7, <2>0 DEF Complete, KeptStillCaptured
  <2>2. Phase[k] = "captured" /\ Phase' = [Phase EXCEPT ![k] = "completed"]
    BY <2>1 DEF Phase
  <2>3. QED
    BY <2>1, <2>2 DEF Phase, Lifecycle!Judge
<1>8. ASSUME NEW t \in Thread, Fail(t) PROVE \E k \in Run : Lifecycle!Try(k)
  <2>0. PICK k \in Run : k = kept[t]
    BY <1>8 DEF Fail
  <2>1. status[k] = "captured" /\ attempts' = [attempts EXCEPT ![k] = attempts[k] + 1]
    BY <1>8, <2>0 DEF Fail, NextAttempts, KeptStillCaptured
  <2>2. PICK outcome \in {"captured", "failed"} : status' = [status EXCEPT ![k] = outcome]
    BY <1>8, <2>0 DEF Fail
  <2>3. Phase[k] = "captured" /\ Phase' = [Phase EXCEPT ![k] = outcome]
    BY <2>1, <2>2 DEF Phase
  <2>4. QED
    BY <2>1, <2>3 DEF Phase, Lifecycle!Try
<1>9. ASSUME NEW t \in Thread, Publish(t) PROVE Phase' = Phase /\ attempts' = attempts
  BY <1>9 DEF Publish, Phase
<1>10. QED
  BY <1>2, <1>3, <1>4, <1>5, <1>6, <1>7, <1>8, <1>9, RowSteps

(* What was published to Speckle has its verdict: the watcher completes a row *)
(* before it publishes it, and no step takes the verdict back (COMPLETE_QUERY, *)
(* the auto-publish of poll_once).                                             *)
THEOREM SentIsJudged == ASSUME ~LifespanReentry PROVE Spec => []SentHasVerdict
<1>1. Inv => SentHasVerdict
  BY DEF Inv, RowFacts, SentHasVerdict
<1>2. QED
  BY <1>1, InvAlways, PTL

(* Where the lifespan is entered once per process, every behaviour of the      *)
(* service is a behaviour of the life cycle its readers rely on.               *)
THEOREM ImplementsLifecycle == ASSUME ~LifespanReentry PROVE Spec => LifecycleSpec
<1>1. Inv /\ [Next]_vars => [Lifecycle!Next]_(Lifecycle!lifecycleVars)
  BY LifecycleNext
<1>2. QED
  BY <1>1, LifecycleInit, InvAlways, PTL DEF Spec, LifecycleSpec, Lifecycle!Spec

------------------------------------------------------------------------------
(* The rate limiter. What the limit is checked against is still what the       *)
(* completion is recorded into, and no stamp is later than the tick's clock.   *)

(* The stamps of W that share the trailing window which ends at "at".          *)
Trailing(W, at) == {f \in W : f.at <= at /\ at - f.at < Window}

RateInv ==
    /\ \A p \in Project : IsFiniteSet(window[p])
    /\ \A p \in Project : \A e \in window[p] : e.at <= now
    /\ \A t \in Thread : pc[t] \notin {"dead", "idle"} =>
          \A p \in Project : \A e \in window[p] : e.at <= tickNow[t]
    /\ \A t \in Thread : tickNow[t] <= now
    /\ \A t \in Thread : pc[t] \in {"coalesce", "shacl", "complete"} =>
          Cardinality(Pruned(proj[t], tickNow[t])) < conf[t].limit
    /\ RecordedWithinLimit

(* Fewer stamps have no more of them in a trailing window.                     *)
LEMMA TrailingSubset ==
    ASSUME NEW W, IsFiniteSet(W), NEW V \in SUBSET W, NEW at
    PROVE  /\ IsFiniteSet(Trailing(V, at)) /\ IsFiniteSet(Trailing(W, at))
           /\ Cardinality(Trailing(V, at)) \in Nat
           /\ Cardinality(Trailing(W, at)) \in Nat
           /\ Cardinality(Trailing(V, at)) <= Cardinality(Trailing(W, at))
<1>1. Trailing(V, at) \subseteq Trailing(W, at) /\ Trailing(W, at) \subseteq W
  BY DEF Trailing
<1>2. QED
  BY <1>1, FS_Subset, FS_CardinalityType

(* No completion has been recorded.                                            *)
LEMMA RateInit == Init => RateInv
  BY FS_EmptySet DEF Init, RateInv, RecordedWithinLimit

(* A step that records nothing and starts no tick.                             *)
LEMMA RateQuiet ==
    ASSUME Typed, RateInv, now' \in Nat, now <= now',
           \A t \in Thread : tickNow'[t] <= now',
           \A p \in Project : window'[p] \in SUBSET window[p],
           \A t \in Thread : pc'[t] \notin {"dead", "idle"} =>
              pc[t] \notin {"dead", "idle"} /\ tickNow'[t] = tickNow[t],
           \A t \in Thread : pc'[t] \in {"coalesce", "shacl", "complete"} =>
              Cardinality(Pruned(proj[t], tickNow[t]))' < conf'[t].limit
    PROVE  RateInv'
<1> USE DEF Typed, TypeOK
<1>1. \A p \in Project : IsFiniteSet(window'[p])
  BY FS_Subset DEF RateInv
<1>2. \A p \in Project : \A e \in window'[p] : e.at <= now'
  BY DEF RateInv, Stamp
<1>3. ASSUME NEW t \in Thread, pc'[t] \notin {"dead", "idle"},
             NEW p \in Project, NEW e \in window'[p]
      PROVE  e.at <= tickNow'[t]
  BY <1>3 DEF RateInv
<1>4. RecordedWithinLimit'
  <2> SUFFICES ASSUME NEW p \in Project, NEW e \in window'[p]
               PROVE  \E c \in Configs : Cardinality(Trailing(window'[p], e.at)) <= c.limit
    BY DEF RecordedWithinLimit, Trailing
  <2>1. PICK c \in Configs : Cardinality(Trailing(window[p], e.at)) <= c.limit
    BY DEF RateInv, RecordedWithinLimit, Trailing
  <2>2. Cardinality(Trailing(window'[p], e.at)) <= Cardinality(Trailing(window[p], e.at))
        /\ Cardinality(Trailing(window'[p], e.at)) \in Nat
        /\ Cardinality(Trailing(window[p], e.at)) \in Nat
    BY TrailingSubset DEF RateInv
  <2>3. c.limit \in Nat
    BY ConstantsAssumption
  <2>4. QED
    BY <2>1, <2>2, <2>3
<1>5. QED
  BY <1>1, <1>2, <1>3, <1>4 DEF RateInv

(* Checking the limit prunes the window and leaves room for one completion.    *)
LEMMA RateCheck ==
    ASSUME Inv, RateInv, NEW t \in Thread, CheckGuards(t)
    PROVE  RateInv'
<1> USE DEF Inv, Typed, TypeOK, Locals
<1>1. \A u \in Thread : u # t => pc'[u] = "dead"
  BY ThreadStepPc DEF ThreadStep, OnePoller
<1>2. UNCHANGED <<now, tickNow>> /\ pc[t] = "newest" /\ proj[t] \in Project
  BY DEF CheckGuards, NextProject, Goto
<1>3. \A p \in Project : window'[p] \in SUBSET window[p]
  BY DEF CheckGuards, PruneWindow, Pruned
<1>4. CASE pc'[t] = "next"
  BY <1>1, <1>2, <1>3, <1>4, RateQuiet DEF RateInv
<1>5. CASE pc'[t] # "next"
  <2>1. PruneWindow(t) /\ ~RateLimited(t) /\ Goto(t, "coalesce")
    BY <1>5 DEF CheckGuards, NextProject
  <2>2. Pruned(proj[t], tickNow[t])' = Pruned(proj[t], tickNow[t])
    BY <1>2, <2>1 DEF PruneWindow, Pruned, Goto
  <2>3. Cardinality(Pruned(proj[t], tickNow[t])) \in Nat /\ conf[t].limit \in Nat
    <3>1. IsFiniteSet(window[proj[t]]) /\ Pruned(proj[t], tickNow[t]) \subseteq window[proj[t]]
      BY <1>2 DEF RateInv, Pruned
    <3>2. QED
      BY <1>2, <3>1, FS_Subset, FS_CardinalityType, ConstantsAssumption
  <2>4. Cardinality(Pruned(proj[t], tickNow[t]))' < conf'[t].limit
    BY <2>1, <2>2, <2>3 DEF RateLimited, Goto
  <2>5. QED
    BY <1>1, <1>2, <1>3, <2>1, <2>4, RateQuiet DEF RateInv, Goto
<1>6. QED
  BY <1>4, <1>5

(* A completion takes the room the check left, although any time may have      *)
(* passed since.                                                               *)
LEMMA RateComplete ==
    ASSUME Inv, RateInv, NEW t \in Thread, Complete(t)
    PROVE  RateInv'
<1> USE DEF Inv, Typed, TypeOK, Locals
<1> DEFINE q == proj[t]
           new == [at |-> tickNow[t], run |-> kept[t], by |-> t]
<1>1. /\ \A u \in Thread : u # t => pc'[u] = "dead"
      /\ pc'[t] \in {"publish", "next", "idle"}
      /\ pc'[t] = "idle" => window' = window
      /\ pc'[t] # "idle" => tickNow' = tickNow
      /\ \A u \in Thread : tickNow'[u] <= now
      /\ now' = now /\ q \in Project
  <2>1. \A u \in Thread : u # t => pc'[u] = "dead"
    BY ThreadStepPc DEF ThreadStep, OnePoller
  <2>2. \/ pc'[t] \in {"publish", "next"} /\ tickNow' = tickNow
        \/ pc'[t] = "idle" /\ tickNow' = [tickNow EXCEPT ![t] = 0] /\ window' = window
    BY DEF Complete, Goto, NextProject, Unacknowledged, LeaveTick
  <2>3. now' = now /\ q \in Project
    BY DEF Complete
  <2>4. QED
    BY <2>1, <2>2, <2>3 DEF RateInv
<1>2. CASE pc'[t] = "idle"
  BY <1>1, <1>2, RateQuiet DEF RateInv
<1>3. CASE pc'[t] # "idle"
  <2>1. window' = [window EXCEPT ![q] = window[q] \cup {new}]
    BY <1>3 DEF Complete, Unacknowledged, LeaveTick
  <2>2. conf[t] \in Configs /\ pc[t] = "complete"
    BY DEF Complete
  <2>3. tickNow[t] \in Nat /\ tickNow[t] <= now /\ new.at = tickNow[t]
    BY DEF RateInv
  <2>4. \A p \in Project : IsFiniteSet(window'[p])
    BY ZenonT(60), <1>1, <2>1, FS_AddElement DEF RateInv
  <2>5. \A p \in Project : \A e \in window'[p] : e.at <= now /\ e.at <= tickNow[t]
    BY <1>1, <2>1, <2>2, <2>3 DEF RateInv
  <2>6. Cardinality(Trailing(window'[q], tickNow[t])) <= conf[t].limit
    <3>1. IsFiniteSet(Pruned(q, tickNow[t])) /\ conf[t].limit \in Nat
      <4>1. IsFiniteSet(window[q]) /\ Pruned(q, tickNow[t]) \subseteq window[q]
        BY <1>1 DEF RateInv, Pruned
      <4>2. QED
        BY <2>2, <4>1, FS_Subset, ConstantsAssumption
    <3>2. Cardinality(Pruned(q, tickNow[t])) < conf[t].limit
      BY <2>2 DEF RateInv
    <3>3. Trailing(window'[q], tickNow[t]) \subseteq Pruned(q, tickNow[t]) \cup {new}
      BY <1>1, <2>1 DEF Trailing, Pruned
    <3>4. /\ IsFiniteSet(Pruned(q, tickNow[t]) \cup {new})
          /\ Cardinality(Pruned(q, tickNow[t]) \cup {new}) <= conf[t].limit
      <4>1. Cardinality(Pruned(q, tickNow[t])) \in Nat
        BY <3>1, FS_CardinalityType
      <4>2. /\ IsFiniteSet(Pruned(q, tickNow[t]) \cup {new})
            /\ \/ Cardinality(Pruned(q, tickNow[t]) \cup {new})
                     = Cardinality(Pruned(q, tickNow[t]))
               \/ Cardinality(Pruned(q, tickNow[t]) \cup {new})
                     = Cardinality(Pruned(q, tickNow[t])) + 1
        BY <3>1, FS_AddElement, Zenon
      <4>3. QED
        BY <3>1, <3>2, <4>1, <4>2
    <3>5. QED
      BY <3>1, <3>3, <3>4, FS_Subset, FS_CardinalityType
  <2>7. RecordedWithinLimit'
    <3> SUFFICES ASSUME NEW p \in Project, NEW e \in window'[p]
                 PROVE  \E c \in Configs : Cardinality(Trailing(window'[p], e.at)) <= c.limit
      BY DEF RecordedWithinLimit, Trailing
    <3>1. CASE p # q
      BY <1>1, <2>1, <3>1 DEF RateInv, RecordedWithinLimit, Trailing
    <3>2. CASE p = q /\ e.at = tickNow[t]
      BY <2>2, <2>6, <3>2
    <3>3. CASE p = q /\ e.at # tickNow[t]
      <4>1. e \in window[q] /\ e.at \in Int
        BY <1>1, <2>1, <2>3, <3>3 DEF Stamp
      <4>2. ~(tickNow[t] <= e.at)
        BY SMTT(30), <2>3, <2>5, <3>3, <4>1
      <4>3. Trailing(window'[q], e.at) = Trailing(window[q], e.at)
        BY <1>1, <2>1, <2>3, <4>2 DEF Trailing
      <4>4. QED
        BY <1>1, <3>3, <4>1, <4>3 DEF RateInv, RecordedWithinLimit, Trailing
    <3>4. QED
      BY <3>1, <3>2, <3>3
  <2>8. QED
    BY <1>1, <1>3, <2>4, <2>5, <2>7 DEF RateInv
<1>4. QED
  BY <1>2, <1>3

(* Every step keeps the room that the limiter saw (within_rate_limit,          *)
(* record_completion).                                                         *)
LEMMA RateNext ==
    ASSUME ~LifespanReentry, Inv, RateInv, [Next]_vars
    PROVE  RateInv'
<1> USE DEF Inv, Typed, TypeOK, Locals
<1>1. CASE UNCHANGED <<now, window, pc, tickNow, proj, conf>>
  BY <1>1 DEF RateInv, RecordedWithinLimit, Pruned
<1>2. CASE ClockTick
  BY <1>2, RateQuiet DEF ClockTick, RateInv, threadVars, Pruned
<1>3. ASSUME NEW t \in Thread, StartProcess(t) PROVE RateInv'
  <2>1. \A u \in Thread : pc'[u] \in {"dead", "idle"}
    BY <1>3 DEF StartProcess, SpawnThread, OnePoller
  <2>2. QED
    BY <1>3, <2>1, RateQuiet DEF StartProcess, SpawnThread, RateInv
<1>4. CASE EndProcess
  BY <1>4, RateQuiet DEF EndProcess
<1>5. ASSUME NEW t \in Thread, ThreadStep(t) PROVE RateInv'
  <2>1. \A u \in Thread : u # t => pc'[u] = "dead"
    BY <1>5, ThreadStepPc DEF OnePoller
  <2>2. CASE LeaveLoop(t) \/ EndTick(t) \/ AbortTick(t)
    <3>1. pc'[t] \in {"dead", "idle"} /\ UNCHANGED <<now, window>>
          /\ \A u \in Thread : tickNow'[u] <= now'
      BY <2>2 DEF LeaveLoop, EndTick, AbortTick, Goto, LeaveTick, RateInv
    <3>2. QED
      BY <2>1, <3>1, RateQuiet
  <2>3. CASE BeginTick(t)
    BY SMTT(30), <2>1, <2>3 DEF BeginTick, RateInv, RecordedWithinLimit
  <2>4. ASSUME NEW p \in Project, ReadConfig(t, p) PROVE RateInv'
    <3>1. pc'[t] \in {"next", "newest"} /\ pc[t] = "next" /\ UNCHANGED <<now, window, tickNow>>
      BY <2>4 DEF ReadConfig
    <3>2. QED
      BY <2>1, <3>1, RateQuiet DEF RateInv
  <2>5. CASE Coalesce(t)
    <3>1. UNCHANGED <<now, window>> /\ pc[t] = "coalesce"
      BY <2>5 DEF Coalesce
    <3>2. \/ pc'[t] = "next" /\ UNCHANGED tickNow
          \/ pc'[t] = "shacl" /\ UNCHANGED <<tickNow, proj, conf>>
          \/ pc'[t] = "idle" /\ tickNow' = [tickNow EXCEPT ![t] = 0]
      BY <2>5 DEF Coalesce, NextProject, Unacknowledged, LeaveTick
    <3>3. Pruned(proj[t], tickNow[t])' = Pruned(proj'[t], tickNow'[t])
      BY <3>1 DEF Pruned
    <3>4. QED
      BY SMTT(30), <2>1, <3>1, <3>2, <3>3, RateQuiet DEF RateInv
  <2>6. CASE ShaclAnswers(t)
    BY <2>1, <2>6, RateQuiet DEF ShaclAnswers, Goto, RateInv, Pruned
  <2>7. CASE Fail(t) \/ Publish(t)
    <3>1. \/ pc'[t] = "next" /\ UNCHANGED tickNow
          \/ pc'[t] = "idle" /\ tickNow' = [tickNow EXCEPT ![t] = 0]
      BY <2>7 DEF Fail, Publish, NextProject, Unacknowledged, LeaveTick
    <3>2. UNCHANGED <<now, window>> /\ pc[t] \notin {"dead", "idle"}
      BY <2>7 DEF Fail, Publish
    <3>3. QED
      BY <2>1, <3>1, <3>2, RateQuiet DEF RateInv
  <2>8. QED
    BY <1>5, <2>2, <2>3, <2>4, <2>5, <2>6, <2>7, RateCheck, RateComplete DEF ThreadStep
<1>6. QED
  BY <1>1, <1>2, <1>3, <1>4, <1>5
  DEF Next, vars, threadVars, UpsertConfig, StampCapture, PersistCapture, StopWatcher,
      ReenterLifespan

(* The completions the limiter has recorded, each at the time its tick began,  *)
(* stay within the limit of every trailing window.                             *)
THEOREM RecordedRate == ASSUME ~LifespanReentry PROVE Spec => []RecordedWithinLimit
<1>1. Inv /\ RateInv /\ [Next]_vars => RateInv'
  BY RateNext
<1>2. RateInv => RecordedWithinLimit
  BY DEF RateInv
<1>3. QED
  BY <1>1, <1>2, RateInit, InvAlways, PTL DEF Spec
==============================================================================
