----------------------------- MODULE DsavWatcher -----------------------------
(***************************************************************************)
(* The DesignState auto-validation watcher of the data service             *)
(* (dsav_watcher.py), with the capture route and the FastAPI lifespan of   *)
(* app.py that feed and own it.                                            *)
(*                                                                         *)
(* A capture inserts a ValidationRun row; a polling thread debounces,      *)
(* coalesces, asks the SHACL sidecar for a verdict, completes or fails the *)
(* row and optionally publishes it.  Every Cypher query is one step: the   *)
(* watcher holds no lock and no transaction across two of them, so capture *)
(* requests, configuration writes, the clock, a restart of the process and *)
(* (where the lifespan is entered again) a second poller interleave with   *)
(* them.  A query may also fail, or commit and lose its acknowledgement.   *)
(***************************************************************************)
EXTENDS Integers, FiniteSets

CONSTANTS
    Project,          \* the projects rows belong to
    Run,              \* the run ids the capture route mints (uuid4, never reused)
    ProjectOf,        \* the project each run id is minted for
    Thread,           \* identities of watcher threads
    Configs,          \* AutoValidation configurations an operator may write
    Window,           \* RATE_LIMIT_WINDOW_SECONDS
    MaxTime,          \* bound: the clock stops here
    MaxRestarts,      \* bound: shutdowns and crashes of the data service
    MaxFaults,        \* bound: failed or unacknowledged queries of the watcher
    LifespanReentry,  \* may one process enter the lifespan again after leaving it?
    None              \* no project, no run, no thread, no configuration

ASSUME ConstantsAssumption ==
    /\ ProjectOf \in [Run -> Project]
    /\ Configs \subseteq [enabled : BOOLEAN, publish : BOOLEAN,
                          debounce : Nat, limit : Nat, maxAttempts : Nat]
    /\ Window \in Nat /\ MaxTime \in Nat /\ MaxRestarts \in Nat /\ MaxFaults \in Nat
    /\ LifespanReentry \in BOOLEAN
    /\ None \notin Project \cup Run \cup Thread \cup Configs

VARIABLES
    (* The ValidationRun rows. A run that is "absent" has no row; a           *)
    (* "requested" one lives only in the capture handler that minted its id   *)
    (* and its timestamp.                                                     *)
    status,       \* run.status
    capturedAt,   \* run.capturedAt
    attempts,     \* run.attempts
    judged,       \* ValidStatus, shaclReportJson and completedAt are set
    completedAt,  \* run.completedAt, where judged
    sent,         \* run.SendStatus
    cfg,          \* the IntegrationConfig{provider:'AutoValidation'} rows
    now,          \* wall clock
    faults,       \* queries that failed so far
    (* The data-service process and its memory.                               *)
    proc,         \* "down", "serving", or "stopping" (past stop_watcher)
    restarts,     \* shutdowns and crashes so far, and lifespans entered again
    stopEvent,    \* _stop_event
    watcher,      \* _watcher_thread
    window,       \* _completion_timestamps
    (* The threads' program counters and the locals of poll_once.             *)
    pc, tickNow, todo, proj, conf, kept

rowVars     == <<status, capturedAt, attempts, judged, completedAt, sent>>
processVars == <<proc, restarts, stopEvent, watcher>>
threadVars  == <<pc, tickNow, todo, proj, conf, kept>>
vars == <<rowVars, cfg, now, faults, processVars, window, threadVars>>

Status == {"absent", "requested", "captured", "completed", "superseded", "failed"}
Verdicts == {"completed", "superseded", "failed"}

PC == {"dead", "idle", "next", "newest", "coalesce", "shacl", "complete", "fail", "publish"}

(* A timestamp of the window: the tick that recorded it, for which run.       *)
Stamp == [at : Int, run : Run, by : Thread]

Persisted(p) == {r \in Run : ProjectOf[r] = p /\ status[r] \notin {"absent", "requested"}}

Captured(p)  == {r \in Run : ProjectOf[r] = p /\ status[r] = "captured"}

(* Defect: ORDER BY capturedAt ASC.                                            *)
Oldest(S) == {r \in S : \A s \in S : capturedAt[r] <= capturedAt[s]}

Newest(S)    == {r \in S : \A s \in S : capturedAt[s] <= capturedAt[r]}

Live == {t \in Thread : pc[t] # "dead"}

------------------------------------------------------------------------------
TypeOK ==
    /\ status \in [Run -> Status]
    /\ capturedAt \in [Run -> Nat]
    /\ attempts \in [Run -> Nat]
    /\ judged \in [Run -> BOOLEAN]
    /\ completedAt \in [Run -> Nat]
    /\ sent \in [Run -> BOOLEAN]
    /\ cfg \in [Project -> Configs]
    /\ now \in Nat
    /\ faults \in Nat
    /\ proc \in {"down", "serving", "stopping"}
    /\ restarts \in Nat
    /\ stopEvent \in BOOLEAN
    /\ watcher \in Thread \cup {None}
    /\ window \in [Project -> SUBSET Stamp]
    /\ pc \in [Thread -> PC]
    /\ tickNow \in [Thread -> Nat]
    /\ todo \in [Thread -> SUBSET Project]
    /\ proj \in [Thread -> Project \cup {None}]
    /\ conf \in [Thread -> Configs \cup {None}]
    /\ kept \in [Thread -> Run \cup {None}]

Init ==
    /\ status = [r \in Run |-> "absent"]
    /\ capturedAt = [r \in Run |-> 0]
    /\ attempts = [r \in Run |-> 0]
    /\ judged = [r \in Run |-> FALSE]
    /\ completedAt = [r \in Run |-> 0]
    /\ sent = [r \in Run |-> FALSE]
    /\ cfg \in [Project -> Configs]
    /\ now = 0 /\ faults = 0
    /\ proc = "down" /\ restarts = 0
    /\ stopEvent = FALSE /\ watcher = None
    /\ window = [p \in Project |-> {}]
    /\ pc = [t \in Thread |-> "dead"]
    /\ tickNow = [t \in Thread |-> 0]
    /\ todo = [t \in Thread |-> {}]
    /\ proj = [t \in Thread |-> None]
    /\ conf = [t \in Thread |-> None]
    /\ kept = [t \in Thread |-> None]

------------------------------------------------------------------------------
(* The environment: the clock, the operator and the capture route.            *)

ClockTick ==
    /\ now < MaxTime
    /\ now' = now + 1
    /\ UNCHANGED <<rowVars, cfg, faults, processVars, window, threadVars>>

(* upsert_auto_validation_config: one SET of every field, at any time.        *)
UpsertConfig(p, c) ==
    /\ cfg' = [cfg EXCEPT ![p] = c]
    /\ UNCHANGED <<rowVars, now, faults, processVars, window, threadVars>>

(* capture_design_state accepts a request: it mints the run id and reads the  *)
(* clock before it writes, so rows may be inserted out of timestamp order.    *)
(* A refused request (401, 403, 413) changes nothing.                         *)
StampCapture(r) ==
    /\ proc = "serving"
    /\ status[r] = "absent"
    /\ status' = [status EXCEPT ![r] = "requested"]
    /\ capturedAt' = [capturedAt EXCEPT ![r] = now]
    /\ UNCHANGED <<attempts, judged, completedAt, sent, cfg, now, faults,
                   processVars, window, threadVars>>

(* capture_state: the row appears. A failed insert leaves it "requested".     *)
PersistCapture(r) ==
    /\ proc # "down"
    /\ status[r] = "requested"
    /\ status' = [status EXCEPT ![r] = "captured"]
    /\ attempts' = [attempts EXCEPT ![r] = 0]
    /\ sent' = [sent EXCEPT ![r] = FALSE]
    /\ UNCHANGED <<capturedAt, judged, completedAt, cfg, now, faults,
                   processVars, window, threadVars>>

------------------------------------------------------------------------------
(* The lifespan: start_watcher, stop_watcher, and the end of the process.     *)

(* start_watcher: nothing to do while the recorded thread is alive; else the  *)
(* event is cleared and a fresh thread enters _poll_loop.                     *)
SpawnThread(t) ==
    /\ watcher \notin Live
    /\ pc[t] = "dead"
    /\ stopEvent' = FALSE
    /\ watcher' = t
    /\ pc' = [pc EXCEPT ![t] = "idle"]
    /\ UNCHANGED <<tickNow, todo, proj, conf, kept>>

StartProcess(t) ==
    /\ proc = "down"
    /\ proc' = "serving"
    /\ SpawnThread(t)
    /\ UNCHANGED <<rowVars, cfg, now, faults, restarts, window>>

(* stop_watcher: the event is set and the thread forgotten; join(timeout)     *)
(* returns when the thread has ended or the timeout has passed, whatever the  *)
(* thread is doing by then.                                                   *)
StopWatcher ==
    /\ proc = "serving"
    /\ restarts < MaxRestarts
    /\ proc' = "stopping"
    /\ stopEvent' = TRUE
    /\ watcher' = None
    /\ UNCHANGED <<rowVars, cfg, now, faults, restarts, window, threadVars>>

(* The same process enters the lifespan again (as each `with TestClient(app)` *)
(* block does): the old thread is a daemon of a process that has not ended.   *)
ReenterLifespan(t) ==
    /\ LifespanReentry
    /\ proc = "stopping"
    /\ proc' = "serving"
    /\ restarts' = restarts + 1
    /\ SpawnThread(t)
    /\ UNCHANGED <<rowVars, cfg, now, faults, window>>

(* The process ends, orderly after "stopping" or by a crash: its threads, its *)
(* memory and the requests it was serving are gone.                           *)
EndProcess ==
    /\ proc # "down"
    /\ proc = "serving" => restarts < MaxRestarts
    /\ proc' = "down"
    /\ restarts' = restarts + 1
    /\ stopEvent' = FALSE
    /\ watcher' = None
    /\ window' = [p \in Project |-> {}]
    /\ pc' = [t \in Thread |-> "dead"]
    /\ tickNow' = [t \in Thread |-> 0]
    /\ todo' = [t \in Thread |-> {}]
    /\ proj' = [t \in Thread |-> None]
    /\ conf' = [t \in Thread |-> None]
    /\ kept' = [t \in Thread |-> None]
    /\ status' = [r \in Run |-> IF status[r] = "requested" THEN "absent" ELSE status[r]]
    /\ UNCHANGED <<capturedAt, attempts, judged, completedAt, sent, cfg, now, faults>>

------------------------------------------------------------------------------
(* _poll_loop and poll_once. A tick ends in "idle", where the thread waits    *)
(* POLL_INTERVAL_SECONDS or for the event.                                    *)

(* The end of this project's turn: on to the next one.                        *)
NextProject(t) ==
    /\ pc' = [pc EXCEPT ![t] = "next"]
    /\ proj' = [proj EXCEPT ![t] = None]
    /\ conf' = [conf EXCEPT ![t] = None]
    /\ kept' = [kept EXCEPT ![t] = None]
    /\ UNCHANGED <<tickNow, todo>>

(* The end of the tick, of its own accord or by an exception.                 *)
LeaveTick(t) ==
    /\ pc' = [pc EXCEPT ![t] = "idle"]
    /\ tickNow' = [tickNow EXCEPT ![t] = 0]
    /\ todo' = [todo EXCEPT ![t] = {}]
    /\ proj' = [proj EXCEPT ![t] = None]
    /\ conf' = [conf EXCEPT ![t] = None]
    /\ kept' = [kept EXCEPT ![t] = None]

Goto(t, label) ==
    /\ pc' = [pc EXCEPT ![t] = label]
    /\ UNCHANGED <<tickNow, todo, proj, conf, kept>>

(* What follows a query that has taken effect: its acknowledgement, and the   *)
(* rest of the turn, or an exception that aborts the tick.                    *)
Acknowledged == faults' = faults
Unacknowledged(t) == /\ faults < MaxFaults
                     /\ faults' = faults + 1
                     /\ LeaveTick(t)

LeaveLoop(t) ==
    /\ pc[t] = "idle"
    /\ stopEvent
    /\ Goto(t, "dead")
    /\ UNCHANGED <<rowVars, cfg, now, faults, processVars, window>>

(* The clock is read once, for the whole tick.                                *)
BeginTick(t) ==
    /\ pc[t] = "idle"
    /\ ~stopEvent
    /\ pc' = [pc EXCEPT ![t] = "next"]
    /\ tickNow' = [tickNow EXCEPT ![t] = now]
    /\ todo' = [todo EXCEPT ![t] = {p \in Project : cfg[p].enabled}]
    /\ UNCHANGED <<rowVars, cfg, now, faults, processVars, window, proj, conf, kept>>

EndTick(t) ==
    /\ pc[t] = "next"
    /\ todo[t] = {}
    /\ LeaveTick(t)
    /\ UNCHANGED <<rowVars, cfg, now, faults, processVars, window>>

(* Defect: _poll_loop without its try: one bad tick ends the thread.          *)
DieInTick(t) ==
    /\ pc[t] \in {"next", "newest", "coalesce", "complete", "fail"}
    /\ pc[t] = "next" => todo[t] # {}
    /\ faults < MaxFaults
    /\ faults' = faults + 1
    /\ pc' = [pc EXCEPT ![t] = "dead"]
    /\ UNCHANGED <<rowVars, cfg, now, processVars, window, tickNow, todo, proj, conf, kept>>

(* A query raises before it takes effect; _poll_loop logs and goes on.        *)
AbortTick(t) ==
    /\ pc[t] \in {"next", "newest", "coalesce", "complete", "fail"}
    /\ pc[t] = "next" => todo[t] # {}
    /\ faults < MaxFaults
    /\ faults' = faults + 1
    /\ LeaveTick(t)
    /\ UNCHANGED <<rowVars, cfg, now, processVars, window>>

ReadConfig(t, p) ==
    /\ pc[t] = "next"
    /\ p \in todo[t]
    /\ todo' = [todo EXCEPT ![t] = @ \ {p}]
    /\ \/ /\ cfg[p].enabled
          /\ pc' = [pc EXCEPT ![t] = "newest"]
          /\ proj' = [proj EXCEPT ![t] = p]
          /\ conf' = [conf EXCEPT ![t] = cfg[p]]
       \/ /\ ~cfg[p].enabled
          /\ UNCHANGED <<pc, proj, conf>>
    /\ UNCHANGED <<rowVars, cfg, now, faults, processVars, window, tickNow, kept>>

(* The stamps of the trailing window, as _prune_window keeps them.            *)
Pruned(p, at) == {e \in window[p] : at - e.at < Window}

(* Defect: off by one in the comparison with the limit.                       *)
OverLimit(t) == Cardinality(Pruned(proj[t], tickNow[t])) > conf[t].limit

RateLimited(t) == Cardinality(Pruned(proj[t], tickNow[t])) >= conf[t].limit

(* _is_rate_limited stores what _prune_window kept.                           *)
PruneWindow(t) ==
    window' = [window EXCEPT ![proj[t]] = Pruned(proj[t], tickNow[t])]

(* NEWEST_CAPTURED_QUERY, and the two in-memory guards that follow it.        *)
CheckGuards(t) ==
    /\ pc[t] = "newest"
    /\ \/ /\ Captured(proj[t]) = {}
          /\ NextProject(t)
          /\ UNCHANGED window
       \/ \E r \in Newest(Captured(proj[t])) :
             /\ tickNow[t] - capturedAt[r] < conf[t].debounce
             /\ NextProject(t)
             /\ UNCHANGED window
       \/ \E r \in Newest(Captured(proj[t])) :
             /\ tickNow[t] - capturedAt[r] >= conf[t].debounce
             /\ PruneWindow(t)
             /\ IF RateLimited(t) THEN NextProject(t) ELSE Goto(t, "coalesce")
    /\ UNCHANGED <<rowVars, cfg, now, faults, processVars>>

(* Defect: runs[0..] is marked stale instead of runs[1..].                    *)
AllCaptured(k) == Captured(ProjectOf[k])

(* The captured rows of k's project that COALESCE_QUERY marks stale.          *)
Stale(k) == Captured(ProjectOf[k]) \ {k}

(* COALESCE_QUERY: the newest captured row of this moment is kept, which need *)
(* not be the row whose age was checked.                                      *)
Coalesce(t) ==
    /\ pc[t] = "coalesce"
    /\ \/ /\ Captured(proj[t]) = {}
          /\ NextProject(t)
          /\ Acknowledged
          /\ UNCHANGED status
       \/ \E k \in Newest(Captured(proj[t])) :
             /\ status' = [r \in Run |-> IF r \in Stale(k) THEN "superseded" ELSE status[r]]
             /\ \/ /\ Acknowledged
                   /\ pc' = [pc EXCEPT ![t] = "shacl"]
                   /\ kept' = [kept EXCEPT ![t] = k]
                   /\ UNCHANGED <<tickNow, todo, proj, conf>>
                \/ Unacknowledged(t)
    /\ UNCHANGED <<capturedAt, attempts, judged, completedAt, sent,
                   cfg, now, processVars, window>>

(* shacl_fn returns a verdict, or anything else: a timeout, "unavailable", an *)
(* exception. Any time may pass before it does.                               *)
ShaclAnswers(t) ==
    /\ pc[t] = "shacl"
    /\ \E label \in {"complete", "fail"} : Goto(t, label)
    /\ UNCHANGED <<rowVars, cfg, now, faults, processVars, window>>

(* COMPLETE_QUERY, which matches the run id alone, then _record_completion    *)
(* with the time the tick began.                                              *)
Complete(t) ==
    LET k == kept[t] IN
    /\ pc[t] = "complete"
    /\ status' = [status EXCEPT ![k] = "completed"]
    /\ judged' = [judged EXCEPT ![k] = TRUE]
    /\ completedAt' = [completedAt EXCEPT ![k] = now]
    /\ \/ /\ Acknowledged
          /\ window' = [window EXCEPT ![proj[t]] =
                            @ \cup {[at |-> tickNow[t], run |-> k, by |-> t]}]
          /\ IF conf[t].publish THEN Goto(t, "publish") ELSE NextProject(t)
       \/ /\ Unacknowledged(t)
          /\ UNCHANGED window
    /\ UNCHANGED <<capturedAt, attempts, sent, cfg, now, processVars>>

(* Defect: run.attempts read twice inside one SET, counted twice.             *)
CountTwice(k) == attempts[k] + 2

(* nextAttempts of FAIL_QUERY, and the status it chooses by it.               *)
NextAttempts(k) == attempts[k] + 1

OutOfAttempts(t) == NextAttempts(kept[t]) >= conf[t].maxAttempts

(* FAIL_QUERY, which matches the run id alone.                                *)
Fail(t) ==
    LET k == kept[t] IN
    /\ pc[t] = "fail"
    /\ attempts' = [attempts EXCEPT ![k] = NextAttempts(k)]
    /\ status' = [status EXCEPT ![k] =
                      IF OutOfAttempts(t) THEN "failed" ELSE "captured"]
    /\ \/ Acknowledged /\ NextProject(t)
       \/ Unacknowledged(t)
    /\ UNCHANGED <<capturedAt, judged, completedAt, sent, cfg, now, processVars, window>>

(* _auto_publish_run: either the row gets its Speckle identifiers and         *)
(* SendStatus, or the failure is swallowed and nobody tries again.            *)
Publish(t) ==
    /\ pc[t] = "publish"
    /\ \/ sent' = [sent EXCEPT ![kept[t]] = TRUE]
       \/ UNCHANGED sent
    /\ NextProject(t)
    /\ UNCHANGED <<status, capturedAt, attempts, judged, completedAt,
                   cfg, now, faults, processVars, window>>

ThreadStep(t) ==
    \/ LeaveLoop(t)
    \/ BeginTick(t)
    \/ EndTick(t)
    \/ AbortTick(t)
    \/ \E p \in Project : ReadConfig(t, p)
    \/ CheckGuards(t)
    \/ Coalesce(t)
    \/ ShaclAnswers(t)
    \/ Complete(t)
    \/ Fail(t)
    \/ Publish(t)

Next ==
    \/ ClockTick
    \/ \E p \in Project, c \in Configs : UpsertConfig(p, c)
    \/ \E r \in Run : StampCapture(r)
    \/ \E r \in Run : PersistCapture(r)
    \/ \E t \in Thread : StartProcess(t)
    \/ StopWatcher
    \/ \E t \in Thread : ReenterLifespan(t)
    \/ EndProcess
    \/ \E t \in Thread : ThreadStep(t)

Spec == Init /\ [][Next]_vars

(* The scheduling the service provides: the watcher is a thread of its own    *)
(* whose every call has a timeout, the capture handler runs to its end, an    *)
(* orderly shutdown ends the process and the container starts it again.       *)
Fairness ==
    /\ \A t \in Thread : WF_vars(ThreadStep(t))
    /\ \A r \in Run : WF_vars(PersistCapture(r))
    /\ WF_vars(\E t \in Thread : StartProcess(t))
    /\ WF_vars(proc = "stopping" /\ EndProcess)

------------------------------------------------------------------------------
(* What the watcher promises.                                                 *)

(* Between COALESCE_QUERY and the verdict the watcher holds no lock on the row *)
(* it kept, yet the row is still captured when COMPLETE_QUERY or FAIL_QUERY    *)
(* hits it by its run id alone, and completed while it is being published.     *)
KeptStillCaptured ==
    \A t \in Thread :
        /\ pc[t] \in {"shacl", "complete", "fail"} => status[kept[t]] = "captured"
        /\ pc[t] = "publish" => status[kept[t]] = "completed"

(* A row that is completed, superseded or failed stays so: no later tick,      *)
(* retry, crash or restart judges it again or supersedes a verdict.            *)
VerdictFinal ==
    [][\A r \in Run : status[r] \in Verdicts => status'[r] = status[r]]_vars

(* A superseded row never carries a verdict: COALESCE_QUERY is scoped to       *)
(* captured rows so that what a prior tick completed cannot be superseded.     *)
SupersededUnjudged == \A r \in Run : status[r] = "superseded" => ~judged[r]

(* A snapshot is given up only for a newer one of its project which itself is  *)
(* not superseded, so the newest snapshot of a burst always gets its verdict,  *)
(* although rows may be inserted in another order than they were stamped.      *)
NewestSurvives ==
    \A r \in Run : status[r] = "superseded" =>
        \E s \in Persisted(ProjectOf[r]) :
            /\ status[s] # "superseded"
            /\ capturedAt[r] <= capturedAt[s]

(* The retry budget: a row still captured has attempts left under some         *)
(* configuration, a failed one has used up those of some configuration, though *)
(* faults abort ticks before and after the attempt is counted and the          *)
(* configuration may change between two attempts.                              *)
AttemptsWithinBudget ==
    \A r \in Run :
        /\ status[r] = "captured" => \E c \in Configs : attempts[r] < c.maxAttempts
        /\ status[r] = "failed" => \E c \in Configs : attempts[r] >= c.maxAttempts

(* Nothing is marked as sent before its verdict is on the row.                 *)
SentHasVerdict == \A r \in Run : sent[r] => judged[r] /\ status[r] = "completed"

(* The rate limiter, in its own terms: the completions it has recorded, each   *)
(* at the time its tick began, never exceed the limit in any trailing window,  *)
(* although the limit is checked long before the completion is recorded.       *)
RecordedWithinLimit ==
    \A p \in Project : \A e \in window[p] : \E c \in Configs :
        Cardinality({f \in window[p] : f.at <= e.at /\ e.at - f.at < Window}) <= c.limit

(* Every row reaches a verdict, through debouncing, rate limiting, failing     *)
(* verdict calls, aborted ticks and restarts of the service, while its project *)
(* is enabled with a positive limit.                                           *)
EventuallySettled ==
    \A r \in Run : status[r] = "captured" ~> status[r] \in Verdicts

(* The watcher implements the life cycle of its runs.                          *)
Lifecycle == INSTANCE RunLifecycle WITH
    phase <- [r \in Run |-> IF status[r] = "requested" THEN "absent" ELSE status[r]],
    tries <- attempts
LifecycleSpec == Lifecycle!Spec
==============================================================================
