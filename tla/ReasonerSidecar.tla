---------------------------- MODULE ReasonerSidecar ----------------------------
(***************************************************************************)
(* One reasoning request: the data-service that proxies it (app.py), the   *)
(* sidecar thread that serves it, the worker process the thread spawns and *)
(* bounds in time, and the Java process HermiT runs in                     *)
(* (dg-reasoner/reasoning.py). Requests share nothing, so one is enough.   *)
(*                                                                         *)
(* The reasoners are external: they may take for ever, fail, be killed, or *)
(* report what is true of the exported graph. What is not bounded by the   *)
(* timeout of the worker (export, parsing, serializing, starting it,       *)
(* unlinking) takes up to MaxUntimed units of time.                        *)
(***************************************************************************)
EXTENDS Integers, FiniteSets

CONSTANTS
    Limit,        \* DG_REASONER_TIMEOUT_SECONDS
    Margin,       \* what the proxy waits beyond it (10 s)
    ShaclWait,    \* DG_SHACL_HTTP_TIMEOUT_SECONDS
    MaxUntimed,   \* bound of the model: time outside the bounded part
    Absent

ASSUME LimitAssumption ==
    /\ Limit \in Nat \ {0} /\ Margin \in Nat \ {0} /\ ShaclWait \in Nat \ {0}
    /\ MaxUntimed \in Nat

Kinds == {"consistency", "shacl"}

(* Unsatisfiable classes, or SHACL results by severity.                       *)
Finding(k) == IF k = "consistency" THEN {"owl:Nothing", "class"}
              ELSE {"violation", "warning", "info"}

VARIABLES
    kind,     \* what is asked for, Absent before
    caller,   \* the proxy: "idle", "waiting", or what it answers
    thread,   \* the sidecar's thread: "idle", "building", "joining", "collecting",
              \* "cleaning", "answered"
    result,   \* what the thread will answer
    worker,   \* "none", "starting", "loading", "reasoning", "reporting", "exited"
    java,     \* the Java process runs
    truth,    \* findings that hold of the exported graph
    large,    \* the report exceeds what the pipe holds
    pipe,     \* what reached the pipe: Absent, "part" of a report, or a report
    files,    \* temporary files
    age,      \* time since the request was posted
    waited,   \* time the worker was waited for
    hurt      \* history: the system killed the worker, or a file was not written

sidecarVars == <<kind, caller, thread, result, worker, java, truth, large, pipe, files, age,
                 waited, hurt>>

Claims == {"holds", "refuted"}
Answers == Claims \cup {"timeout", "error", "unsupported", "unavailable"}

Alive == worker \in {"starting", "loading", "reasoning", "reporting"}

(* What the pipe may hold: an error, the findings, or part of them.           *)
Reports == [says : {"error", "found", "part"}, found : SUBSET UNION {Finding(k) : k \in Kinds}]

Torn == pipe # Absent /\ pipe.says = "part"

ASSUME AbsentAssumption == Absent \notin Kinds \cup Answers \cup Reports

SidecarInit ==
    /\ kind = Absent /\ caller = "idle" /\ thread = "idle" /\ result = Absent
    /\ worker = "none" /\ java = FALSE /\ truth = {} /\ large = FALSE /\ pipe = Absent
    /\ files = {} /\ age = 0 /\ waited = 0 /\ hurt = FALSE

------------------------------------------------------------------------------
(* The request. The findings and their size are fixed by the graph it meets.  *)
Post(k) ==
    /\ caller = "idle"
    /\ kind' = k /\ caller' = "waiting" /\ thread' = "building"
    /\ truth' \in SUBSET Finding(k) /\ large' \in BOOLEAN
    /\ UNCHANGED <<result, worker, java, pipe, files, age, waited, hurt>>

(* No connection, or an engine the sidecar does not have.                     *)
Turned(k) ==
    /\ caller = "idle"
    /\ kind' = k
    /\ caller' \in {"unavailable"} \cup (IF k = "consistency" THEN {"unsupported"} ELSE {})
    /\ UNCHANGED <<thread, result, worker, java, truth, large, pipe, files, age, waited, hurt>>

(* The proxy's read timeout.                                                  *)
WaitUnmargined == IF kind = "consistency" THEN Limit ELSE ShaclWait  \* Defect: no margin.
Wait == IF kind = "consistency" THEN Limit + Margin ELSE ShaclWait

GiveUp ==
    /\ caller = "waiting" /\ age >= Wait
    /\ caller' = "timeout"
    /\ UNCHANGED <<kind, thread, result, worker, java, truth, large, pipe, files, age,
                   waited, hurt>>

------------------------------------------------------------------------------
TempFiles == IF kind = "consistency" THEN {"data"} ELSE {"data", "shapes"}

(* The graph is exported and serialized, the worker started.                  *)
Build ==
    /\ thread = "building"
    /\ thread' = "joining" /\ worker' = "starting" /\ files' = TempFiles
    /\ UNCHANGED <<kind, caller, result, java, truth, large, pipe, age, waited, hurt>>

(* The export fails, or a file cannot be written: serializing comes before    *)
(* the try whose finally unlinks.                                             *)
BuildFails ==
    /\ thread = "building"
    /\ thread' = "answered" /\ result' = "error"
    /\ caller' = IF caller # "waiting" THEN caller
                 ELSE IF kind = "shacl" THEN "unavailable" ELSE "error"
    /\ \/ UNCHANGED <<files, hurt>>
       \/ files' \in {{"data"}, TempFiles} /\ hurt' = TRUE
    /\ UNCHANGED <<kind, worker, java, truth, large, pipe, age, waited>>

(* Spawned, the worker makes a group of its own, loads, and HermiT is run as a*)
(* Java process; pySHACL runs in the worker itself.                           *)
Setsid ==
    /\ worker = "starting"
    /\ worker' = "loading"
    /\ UNCHANGED <<kind, caller, thread, result, java, truth, large, pipe, files, age,
                   waited, hurt>>

Reason ==
    /\ worker = "loading"
    /\ worker' = "reasoning" /\ java' = (kind = "consistency")
    /\ UNCHANGED <<kind, caller, thread, result, truth, large, pipe, files, age, waited, hurt>>

(* queue.put hands the report to a feeder thread, which blocks on a full pipe.*)
Put(report) ==
    /\ pipe' = IF large /\ report.says = "found" THEN [says |-> "part", found |-> {}] ELSE report
    /\ worker' = "reporting"

Report ==
    /\ worker = "reasoning"
    /\ java' = FALSE
    /\ Put([says |-> "found", found |-> truth])
    /\ UNCHANGED <<kind, caller, thread, result, truth, large, files, age, waited, hurt>>

ReportError ==
    /\ worker \in {"loading", "reasoning"}
    /\ java' = FALSE
    /\ Put([says |-> "error", found |-> {}])
    /\ UNCHANGED <<kind, caller, thread, result, truth, large, files, age, waited, hurt>>

(* The worker exits once its feeder has written everything.                   *)
Exit ==
    /\ worker = "reporting" /\ ~Torn
    /\ worker' = "exited"
    /\ UNCHANGED <<kind, caller, thread, result, java, truth, large, pipe, files, age,
                   waited, hurt>>

(* The system kills the worker alone: Java goes on.                           *)
Killed ==
    /\ Alive /\ ~hurt
    /\ worker' = "exited" /\ hurt' = TRUE
    /\ UNCHANGED <<kind, caller, thread, result, java, truth, large, pipe, files, age, waited>>

JavaEnds ==
    /\ java /\ worker = "exited"
    /\ java' = FALSE
    /\ UNCHANGED <<kind, caller, thread, result, worker, truth, large, pipe, files, age,
                   waited, hurt>>

------------------------------------------------------------------------------
Joined ==
    /\ thread = "joining" /\ worker = "exited"
    /\ thread' = "collecting"
    /\ UNCHANGED <<kind, caller, result, worker, java, truth, large, pipe, files, age,
                   waited, hurt>>

(* Defect: the worker is killed, not its group.                               *)
ExpiredAlone ==
    /\ thread = "joining" /\ Alive /\ waited >= Limit
    /\ thread' = "cleaning" /\ result' = "timeout" /\ worker' = "exited"
    /\ UNCHANGED <<kind, caller, java, truth, large, pipe, files, age, waited, hurt>>

(* Defect: the worker is waited for without a limit.                          *)
ExpiredNever == FALSE /\ UNCHANGED sidecarVars

(* killpg reaches Java too; a worker that has no group yet makes it raise.    *)
Expired ==
    /\ thread = "joining" /\ Alive /\ waited >= Limit
    /\ thread' = "cleaning"
    /\ IF worker = "starting" THEN result' = "error" /\ UNCHANGED <<worker, java>>
       ELSE result' = "timeout" /\ worker' = "exited" /\ java' = FALSE
    /\ UNCHANGED <<kind, caller, truth, large, pipe, files, age, waited, hurt>>

(* What refutes: any class but owl:Nothing, a result of severity violation.   *)
Refutes(f) == f \in {"class", "violation"}

Verdict(report) ==
    IF report.says = "error" THEN "error"
    ELSE IF \E f \in report.found : Refutes(f) THEN "refuted" ELSE "holds"

(* Defect: a worker that left no report found nothing.                        *)
CollectSilent ==
    /\ thread = "collecting" /\ ~Torn
    /\ result' = IF pipe = Absent THEN "holds" ELSE Verdict(pipe)
    /\ thread' = "cleaning"
    /\ UNCHANGED <<kind, caller, worker, java, truth, large, pipe, files, age, waited, hurt>>

(* The queue is read if it is not empty; part of a report is waited for.      *)
Collect ==
    /\ thread = "collecting" /\ ~Torn
    /\ result' = IF pipe = Absent THEN "error" ELSE Verdict(pipe)
    /\ thread' = "cleaning"
    /\ UNCHANGED <<kind, caller, worker, java, truth, large, pipe, files, age, waited, hurt>>

(* The finally clause, and the answer. A timeout is a 504 of the consistency  *)
(* route and a 200 of the SHACL route, which its caller recognizes.           *)
Clean ==
    /\ thread = "cleaning"
    /\ files' = {}
    /\ thread' = "answered"
    /\ caller' = IF caller # "waiting" THEN caller
                 ELSE IF kind = "shacl" /\ result = "error" THEN "unavailable" ELSE result
    /\ UNCHANGED <<kind, result, worker, java, truth, large, pipe, age, waited, hurt>>

(* The thread waits for the rest of a report.                                 *)
Stuck == thread = "collecting" /\ Torn

(* Time: a wait that is over is noticed at once.                              *)
Untimed == age - waited

Tick ==
    /\ thread \in {"building", "joining", "collecting", "cleaning"}
    /\ ~(thread = "joining" /\ (waited >= Limit \/ worker = "exited"))
    /\ ~(caller = "waiting" /\ age >= Wait)
    /\ thread # "joining" => Untimed < MaxUntimed \/ (Stuck /\ caller = "waiting")
    /\ age' = age + 1
    /\ waited' = IF thread = "joining" THEN waited + 1 ELSE waited
    /\ UNCHANGED <<kind, caller, thread, result, worker, java, truth, large, pipe, files, hurt>>

SidecarNext ==
    \/ \E k \in Kinds : Post(k) \/ Turned(k)
    \/ GiveUp
    \/ Build \/ BuildFails
    \/ Setsid \/ Reason \/ Report \/ ReportError \/ Exit \/ Killed \/ JavaEnds
    \/ Joined \/ Expired \/ Collect \/ Clean
    \/ Tick

SidecarSpec == SidecarInit /\ [][SidecarNext]_sidecarVars

(* The thread and the proxy go on, and so does time; a reasoner need not.     *)
FairSidecarSpec ==
    /\ SidecarSpec
    /\ WF_sidecarVars(Build \/ BuildFails)
    /\ WF_sidecarVars(Joined) /\ WF_sidecarVars(Expired) /\ WF_sidecarVars(Collect) /\ WF_sidecarVars(Clean)
    /\ WF_sidecarVars(GiveUp) /\ WF_sidecarVars(Tick)

------------------------------------------------------------------------------
(* Types.                                                                     *)
SidecarTypeOK ==
    /\ kind \in Kinds \cup {Absent}
    /\ caller \in {"idle", "waiting"} \cup Answers
    /\ thread \in {"idle", "building", "joining", "collecting", "cleaning", "answered"}
    /\ result \in Claims \cup {Absent, "timeout", "error"}
    /\ worker \in {"none", "starting", "loading", "reasoning", "reporting", "exited"}
    /\ java \in BOOLEAN /\ large \in BOOLEAN /\ hurt \in BOOLEAN
    /\ kind # Absent => truth \subseteq Finding(kind)
    /\ pipe \in Reports \cup {Absent} /\ files \subseteq {"data", "shapes"}
    /\ age \in Nat /\ waited \in 0..Limit

(* No verdict without a reasoner: what the proxy passes on as consistent or   *)
(* conforming is so, and what it passes on as refuted is not, whatever died,  *)
(* failed or ran out of time on the way (_reason_with_timeout, run_shacl).    *)
ClaimsHold ==
    caller \in Claims => (caller = "refuted") = (\E f \in truth : Refutes(f))

(* Nothing is left behind by an answered request: no process, not even the    *)
(* Java process of a worker that had to be killed, and no file; unless the    *)
(* system killed the worker or a file could not be written, or the worker did *)
(* not get as far as its process group (_reason_with_timeout, run_consistency,*)
(* _run_shacl_with_timeout).                                                  *)
NothingLeftBehind ==
    thread = "answered" /\ ~hurt =>
        /\ files = {}
        /\ Alive \/ java => result = "error" /\ waited >= Limit

(* The proxy of a consistency check gives up on the sidecar before its own    *)
(* bound only if the work outside that bound used up the margin               *)
(* (post_reasoner_consistency).                                               *)
ProxyOutwaits ==
    caller = "timeout" /\ kind = "consistency" =>
        \/ thread = "answered"
        \/ Untimed >= Margin

(* Every posted request is answered and its thread freed, though a reasoner   *)
(* may run for ever or report more than the pipe holds, unless the worker was *)
(* killed amid a report: then the thread waits for the rest of it.            *)
Freed ==
    caller = "waiting" ~>
        /\ caller \in Answers
        /\ thread = "answered" \/ (hurt /\ Stuck)
===============================================================================
