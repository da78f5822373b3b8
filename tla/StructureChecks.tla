---------------------------- MODULE StructureChecks ----------------------------
(***************************************************************************)
(* POST /computgraph/validate (app.py, cg_structure_checks.py) beside      *)
(* publishing: a report resolves its definition, reads its publishedAt,    *)
(* then asks seven checks and the mapped rules, one query each and each a  *)
(* transaction of its own, while publishes go on.                          *)
(*                                                                         *)
(* Wording is left out. A finding is its check and the keys it names; what *)
(* a rule asks of an id, a name, a kind and a type is given by the rule as *)
(* the pairs of an id and the rest that it lets through.                   *)
(***************************************************************************)
EXTENDS ComputgraphPublish, FiniteSetsExt

CONSTANTS
    Asked,    \* definitions a client asks for; None leaves it to the service
    Mapping,  \* entries of structure_rules.json
    Rule      \* Rule_Ids of the Metagraph

Operations == {"requiresProcedure", "requiresParameter", "requiresInterface", "forbidsOrphan"}
OrphanLabels == {"Behavior", "Algorithm", "Procedure", "Pattern", "Parameter", "Interface"}

(* named: what its namePattern, kind and type let through; None when the      *)
(* parameter it needs is missing; threshold: a numeric comparison.            *)
Mappings == [rule : Key, operation : STRING, named : {None} \cup SUBSET (Key \X Key),
             label : Labels \cup {None}, threshold : BOOLEAN]

ASSUME MappingAssumption ==
    /\ \A m \in Mapping :
          /\ DOMAIN m = {"rule", "operation", "named", "label", "threshold"}
          /\ m.rule \in Key /\ m.named # None => m.named \subseteq Key \X Key
    /\ Asked \subseteq Key \cup {None}

VARIABLES
    report,  \* the report: step, next check, definition, publishedAt, findings, results
    begun,   \* history: commits when the report arrived
    checked, \* history: commits when its first check ran
    ended    \* history: commits when it was answered

reportVars == <<report, begun, checked, ended>>
vars == <<publishVars, reportVars>>

------------------------------------------------------------------------------
(* The seven checks: queries over the committed graph.                        *)

Of(label, d) == {n \in nodes : n.label = label /\ n.def = d}

(* The nodes of a label that point at n, and those n points at.               *)
Into(n, label) == {x[1] : x \in {y \in edges : y[2] = n /\ y[1].label = label}}
From(n, label) == {x[2] : x \in {y \in edges : y[1] = n /\ y[2].label = label}}

OrphanPatterns(d) == {<<n.key>> : n \in {m \in Of("Pattern", d) : Into(m, "Procedure") = {}}}

(* Defect: the relationship is matched against its direction.                 *)
ProceduresWithoutInterfaceReversed(d) ==
    {<<n.key>> : n \in {m \in Of("Procedure", d) : Into(m, "Interface") = {}}}

ProceduresWithoutInterface(d) ==
    {<<n.key>> : n \in {m \in Of("Procedure", d) : From(m, "Interface") = {}}}

(* A parameter and an interface of two different procedures are linked.       *)
DanglingParamLinks(d) ==
    {<<x[1].key, x[2].key>> : x \in
        {y \in edges : /\ y[1] \in Of("Parameter", d) /\ y[2] \in Of("Interface", d)
                       /\ \E p \in Into(y[1], "Procedure"), q \in Into(y[2], "Procedure") : p # q}}

AlgorithmsWithoutProcedure(d) ==
    {<<n.key>> : n \in {m \in Of("Algorithm", d) : From(m, "Procedure") = {}}}

(* dataType is what the node's last writer sent.                              *)
ParametersWithoutDatatype(d) ==
    {<<n.key>> : n \in {m \in Of("Parameter", d) :
                           ~LastRow(sent[writer[m]].params, m.key).typed}}

ObjectsWithoutBehavior(d) ==
    {<<n.key>> : n \in {m \in Of("Object", d) : From(m, "Behavior") = {}}}

(* contextJson is too, with the warnings of the canvas parser in it.          *)
AnnotationConventions(d) ==
    UNION {{<<n.key, w>> : w \in sent[writer[n]].warnings} : n \in Of("Algorithm", d)}

Checks == <<"orphan_pattern", "procedure_without_interface", "dangling_param_link",
            "algorithm_without_procedure", "parameter_without_datatype",
            "object_without_behavior", "annotation_convention">>

Findings(check, d) ==
    CASE check = "orphan_pattern" -> OrphanPatterns(d)
      [] check = "procedure_without_interface" -> ProceduresWithoutInterface(d)
      [] check = "dangling_param_link" -> DanglingParamLinks(d)
      [] check = "algorithm_without_procedure" -> AlgorithmsWithoutProcedure(d)
      [] check = "parameter_without_datatype" -> ParametersWithoutDatatype(d)
      [] check = "object_without_behavior" -> ObjectsWithoutBehavior(d)
      [] check = "annotation_convention" -> AnnotationConventions(d)

------------------------------------------------------------------------------
(* The mapped rules.                                                          *)

(* _mapping_rejection_reason.                                                 *)
Rejected(m) ==
    \/ m.operation \notin Operations
    \/ m.threshold
    \/ m.operation \in {"requiresProcedure", "requiresParameter"} /\ m.named = None
    \/ m.operation = "forbidsOrphan" /\ m.label \notin OrphanLabels

Field == [Procedure |-> "procs", Parameter |-> "params", Interface |-> "ifaces"]

(* Defect: what a node was created with is never set again.                   *)
AsCreated(n) == LastRow(sent[n.by][Field[n.label]], n.key).as

(* The name, kind and type a node holds: its last writer set them.            *)
As(n) == LastRow(sent[writer[n]][Field[n.label]], n.key).as

(* A template lets a node through; without a type it restricts nothing.       *)
Lets(m, n) == m.named = None \/ <<n.key, As(n)>> \in m.named

(* HAS_ relationships, not PATTERN_HOST_TO and PARAM_LINK.                    *)
Owns(x, n) == x[2] = n /\ x[1].label \notin {"Pattern", "Parameter"}

(* The template of a rule's operation over the graph.                         *)
Passes(m, d) ==
    CASE m.operation = "requiresProcedure" -> \E p \in Of("Procedure", d) : Lets(m, p)
      [] m.operation = "requiresParameter" -> \E p \in Of("Parameter", d) : Lets(m, p)
      [] m.operation = "requiresInterface" ->
            \A p \in Of("Procedure", d) : \E i \in From(p, "Interface") : Lets(m, i)
      [] m.operation = "forbidsOrphan" ->
            \A n \in Of(m.label, d) : \E x \in edges : Owns(x, n)

(* A rejected mapping counts as failed and is not evaluated; a rule that the  *)
(* Metagraph lacks is evaluated all the same.                                 *)
Result(m, d) ==
    IF Rejected(m) THEN [mapping |-> m, passed |-> FALSE, exists |-> FALSE]
    ELSE [mapping |-> m, passed |-> Passes(m, d), exists |-> m.rule \in Rule]

------------------------------------------------------------------------------
Init ==
    /\ PublishInit
    /\ report = [step |-> "idle", check |-> 1, def |-> None, publishedAt |-> 0, findings |-> {},
                  results |-> {}]
    /\ begun = 0 /\ checked = 0 /\ ended = 0

DefinitionIds == {n.def : n \in nodes}

(* The definition is the one asked for, or the only one there is.             *)
Resolve(d) ==
    /\ report.step = "idle"
    /\ begun' = Len(commits)
    /\ \/ d # None /\ report' = [report EXCEPT !.step = "stamp", !.def = d]
       \/ /\ d = None /\ Cardinality(DefinitionIds) = 1
          /\ report' = [report EXCEPT !.step = "stamp", !.def = CHOOSE x \in DefinitionIds : TRUE]
       \/ /\ d = None /\ Cardinality(DefinitionIds) # 1
          /\ report' = [report EXCEPT !.step =
                           IF DefinitionIds = {} THEN "no definition" ELSE "ambiguous"]
    /\ UNCHANGED <<publishVars, checked, ended>>

(* The largest publishedAt, before the first check.                           *)
FetchPublishedAt ==
    /\ report.step = "stamp"
    /\ report' = [report EXCEPT !.step = "checks",
                     !.publishedAt = Max({0} \cup {stamp[writer[n]] : n \in
                                          {m \in nodes : m.def = report.def}})]
    /\ UNCHANGED <<publishVars, begun, checked, ended>>

(* One check, one query.                                                      *)
RunCheck ==
    /\ report.step = "checks"
    /\ LET check == Checks[report.check]
       IN  report' = [report EXCEPT !.findings =
                         @ \cup {[check |-> check, of |-> f] : f \in Findings(check, report.def)},
                         !.check = @ + 1,
                         !.step = IF report.check = Len(Checks) THEN "rules" ELSE @]
    /\ checked' = IF report.check = 1 THEN Len(commits) ELSE checked
    /\ UNCHANGED <<publishVars, begun, ended>>

(* One mapping; the order they are evaluated in is their order in the file.   *)
EvaluateRule ==
    /\ report.step = "rules"
    /\ LET left == {m \in Mapping : \A x \in report.results : x.mapping # m}
       IN  /\ left # {}
           /\ LET m == CHOOSE x \in left : TRUE
              IN  report' = [report EXCEPT !.results = @ \cup {Result(m, report.def)}]
    /\ UNCHANGED <<publishVars, begun, checked, ended>>

(* Defect: publishedAt is read when the report is put together.               *)
AssembleStamped ==
    /\ report.step = "rules"
    /\ {x.mapping : x \in report.results} = Mapping
    /\ report' = [report EXCEPT !.step = "answered",
                     !.publishedAt = Max({0} \cup {stamp[writer[n]] : n \in
                                          {m \in nodes : m.def = report.def}})]
    /\ ended' = Len(commits)
    /\ UNCHANGED <<publishVars, begun, checked>>

Assemble ==
    /\ report.step = "rules"
    /\ {x.mapping : x \in report.results} = Mapping
    /\ report' = [report EXCEPT !.step = "answered"]
    /\ ended' = Len(commits)
    /\ UNCHANGED <<publishVars, begun, checked>>

(* Any of the queries fails: 502, nothing is reported.                        *)
ReportFails ==
    /\ report.step \notin {"idle", "answered", "failed", "no definition", "ambiguous"}
    /\ faults < MaxFaults
    /\ faults' = faults + 1
    /\ report' = [report EXCEPT !.step = "failed"]
    /\ UNCHANGED <<nodes, edges, writer, pc, next, sent, stamp, tx, stale, commits, base, begun,
                   checked, ended>>

Next ==
    \/ PublishNext /\ UNCHANGED reportVars
    \/ \E d \in Asked : Resolve(d)
    \/ FetchPublishedAt \/ RunCheck \/ EvaluateRule \/ Assemble \/ ReportFails

Spec == Init /\ [][Next]_vars

------------------------------------------------------------------------------
(* What the envelopes of a definition committed before the answer say,        *)
(* without the graph.                                                         *)

PublishesOf(d) == {i \in 1 .. ended : sent[commits[i]].def = d}

Publish(i) == sent[commits[i]]

(* No two publishes of the definition were under way at once.                 *)
Serial(d) ==
    \A i \in PublishesOf(d) : base[commits[i]] >= Max({0} \cup {j \in PublishesOf(d) : j < i})

(* The report was answered and nothing committed meanwhile.                   *)
Quiet == report.step = "answered" /\ begun = ended

Sent(d, field) == UNION {ToSet(Publish(i)[field]) : i \in PublishesOf(d)}

(* What the last envelope that holds an entity sends it as.                   *)
LastAs(d, field, id) ==
    LET last == Publish(Max({i \in PublishesOf(d) : id \in Ids(Publish(i)[field])}))
    IN  LastRow(last[field], id).as

(* Whether a rule is to let an entity through.                                *)
Allowed(m, d, field, id) == m.named = None \/ <<id, LastAs(d, field, id)>> \in m.named

OwnersOf(rows, key) == {x.proc : x \in {y \in rows : y.id = key}}

(* The warnings of the last envelope that holds the algorithm.                *)
Warned(d, a) ==
    LET last == Publish(Max({i \in PublishesOf(d) : a \in Publish(i).algs}))
    IN  last.warnings

AlgsOf(d) == UNION {Publish(i).algs : i \in PublishesOf(d)}

ProcsWithoutInterface(d) ==
    {p.id : p \in {q \in Sent(d, "procs") : \A x \in Sent(d, "ifaces") : x.proc # q.id}}

(* The findings that the envelopes' own contents call for.                    *)
Faults(d) ==
    {[check |-> "procedure_without_interface", of |-> <<p>>] : p \in ProcsWithoutInterface(d)}
    \cup {[check |-> "dangling_param_link", of |-> l] : l \in
            {x \in UNION {ParamLinks(Publish(i)) : i \in PublishesOf(d)} :
                Cardinality(OwnersOf(Sent(d, "params"), x[1])
                                \cup OwnersOf(Sent(d, "ifaces"), x[2])) > 1}}
    \cup {[check |-> "algorithm_without_procedure", of |-> <<a>>] : a \in
            {b \in AlgsOf(d) : \A p \in Sent(d, "procs") : p.alg # b}}
    \cup UNION {{[check |-> "annotation_convention", of |-> <<a, w>>] : w \in Warned(d, a)} :
                    a \in AlgsOf(d)}

(* An algorithm hangs under the behavior if one was known when it was sent.   *)
Rooted(d, a) ==
    \E i, j \in PublishesOf(d) : j <= i /\ a \in Publish(i).algs /\ Publish(j).object # None

(* Types.                                                                     *)
TypeOK ==
    /\ PublishTypeOK
    /\ report \in
          [step : {"idle", "stamp", "checks", "rules", "answered", "failed", "no definition",
                   "ambiguous"},
           check : 1 .. Len(Checks) + 1, def : Key \cup {None}, publishedAt : Nat,
           findings : SUBSET [check : ToSet(Checks), of : Seq(Key)],
           results : SUBSET [mapping : Mapping, passed : BOOLEAN, exists : BOOLEAN]]
    /\ {begun, checked, ended} \subseteq Nat

(* What the checks on data types and behaviors and the one on orphans guard   *)
(* against is unreachable by publishing, whichever publishes race or fail:    *)
(* no committed pattern, parameter or interface is without an owner, no       *)
(* object without a behavior, no parameter without a data type                *)
(* (cg_structure_checks.py:226-288, the statements of computgraph_publish.py).*)
GuardsNeverNeeded ==
    \A d \in DefinitionIds :
        /\ OrphanPatterns(d) = {} /\ ObjectsWithoutBehavior(d) = {}
        /\ ParametersWithoutDatatype(d) = {}
        /\ \A n \in Of("Procedure", d) : Into(n, "Algorithm") # {}
        /\ \A n \in Of("Parameter", d) \cup Of("Interface", d) : Into(n, "Procedure") # {}

(* Where publishes did not overlap and none committed during the report, its  *)
(* findings are the ones the contents of all committed envelopes call for,    *)
(* taken together: neither aborted nor retried transactions, nor the order    *)
(* the rows of a payload come in, leave a trace (run_structural_checks).      *)
FindingsAsPublished ==
    Quiet /\ Serial(report.def) => report.findings = Faults(report.def)

(* So are the verdicts on the mapped rules: a procedure or parameter that was *)
(* ever sent, judged by the name, kind and type that the last publish to send *)
(* it gave, an allowed interface for every procedure, a way to the root for   *)
(* every node; a mapping that cannot be evaluated never passes                *)
(* (evaluate_rule_mappings over what the publishes SET).                      *)
RulesAsPublished ==
    Quiet /\ Serial(report.def) => \A x \in report.results :
        LET m == x.mapping
            d == report.def
        IN  x.passed <=>
                /\ ~Rejected(m)
                /\ m.operation = "requiresProcedure" =>
                      \E p \in Sent(d, "procs") : Allowed(m, d, "procs", p.id)
                /\ m.operation = "requiresParameter" =>
                      \E p \in Sent(d, "params") : Allowed(m, d, "params", p.id)
                /\ m.operation = "requiresInterface" =>
                      \A p \in Sent(d, "procs") : \E i \in Sent(d, "ifaces") :
                          i.proc = p.id /\ Allowed(m, d, "ifaces", i.id)
                /\ m.operation = "forbidsOrphan" /\ m.label = "Algorithm" =>
                      \A a \in AlgsOf(d) : Rooted(d, a)

(* A report is never stamped newer than what its checks saw: the publish that *)
(* its publishedAt names had committed before the first check ran             *)
(* (build_validation_report reads the stamp first).                           *)
StampSeen ==
    report.step = "answered" /\ report.publishedAt # 0 =>
        \E i \in 1 .. checked : stamp[commits[i]] = report.publishedAt

(* "move the component into the owning Procedure group or remove the link,    *)
(* then re-publish" (cg_structure_checks.py:184): after a publish that no     *)
(* other overlapped, a finding about a link is one of the canvas just         *)
(* published.                                                                 *)
RepublishSettles ==
    Quiet /\ Serial(report.def) /\ PublishesOf(report.def) # {} =>
        LET e == Publish(Max(PublishesOf(report.def)))
        IN  \A f \in report.findings : f.check = "dangling_param_link" =>
                /\ f.of \in ParamLinks(e)
                /\ \E p \in OwnersOf(ToSet(e.params), f.of[1]),
                      q \in OwnersOf(ToSet(e.ifaces), f.of[2]) : p # q
================================================================================
