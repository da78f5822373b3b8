------------------------ MODULE StructureChecksProofs ------------------------
(***************************************************************************)
(* Theorems of ComputgraphPublish and StructureChecks, for any set of      *)
(* publishes, envelopes, keys, mapped rules and failures: what publishes   *)
(* leave in the graph however their statements interleave, and what a      *)
(* report makes of it.                                                     *)
(***************************************************************************)
EXTENDS StructureChecks, FiniteSetTheorems, WellFoundedInduction, TLAPS

------------------------------------------------------------------------------
(* The statements a transaction is past, and the nodes it sees.               *)
Past(r) == {Statements[k] : k \in 1 .. next[r] - 1}

Seen(r) == nodes \cup tx[r].nodes

(* A request is written to the graph only if its rows could be built, and its *)
(* envelope stays.                                                            *)
Flow ==
    /\ IsFiniteSet(Arrived)
    /\ \A r \in Request :
          /\ pc[r] = "idle" => sent[r] = None
          /\ pc[r] \in {"writing", "committed", "published"} =>
                sent[r] \in Envelope /\ ~Malformed(sent[r])
          /\ pc[r] # "writing" => tx[r] = NoWrites
          /\ pc[r] \in {"committed", "published"} => \E i \in DOMAIN commits : commits[i] = r
          /\ base[r] <= Len(commits)
    /\ \A i \in DOMAIN commits :
          /\ pc[commits[i]] \in {"committed", "published", "failed"}
          /\ sent[commits[i]] \in Envelope /\ ~Malformed(sent[commits[i]])
    /\ \A i, j \in DOMAIN commits : commits[i] = commits[j] => i = j

(* What a transaction wrote is what its statements so far say, no more and no *)
(* less, but for the links whose ends another publish may have brought.       *)
WrittenOf(r) ==
    pc[r] = "writing" =>
        /\ \A n \in tx[r].nodes :
              /\ n.label \in Past(r) /\ n.def = sent[r].def /\ n.key \in Rows(sent[r], n.label)
              /\ n \in nodes \/ n.by = r
        /\ \A s \in Past(r) : \A key \in Rows(sent[r], s) :
              Matching(tx[r].nodes, s, key, sent[r].def) # {}
        /\ \A s \in Past(r) :
              Joined(tx[r].nodes, Links(sent[r], s), sent[r].def) \subseteq tx[r].edges
        /\ \A x \in tx[r].edges : \E s \in Past(r) : \E l \in Links(sent[r], s) :
              x \in Joined(Seen(r), {l}, sent[r].def)

Written == \A r \in Request : WrittenOf(r)

(* Nothing of its definition was committed since the transaction began.       *)
Alone(r) == \A i \in DOMAIN commits : sent[commits[i]].def = sent[r].def => i <= base[r]

(* Then it creates no second node for a key and misses no link.               *)
UndisturbedOf(r) ==
    pc[r] = "writing" /\ Alone(r) =>
        /\ \A n \in tx[r].nodes \ nodes : Matching(nodes, n.label, n.key, n.def) = {}
        /\ \A s \in Past(r) :
              Joined(Seen(r), Links(sent[r], s), sent[r].def) \subseteq tx[r].edges

Undisturbed == \A r \in Request : UndisturbedOf(r)

(* The i-th commit is of definition d and holds a row for that end of a link. *)
CommitOf(i, d) == i \in DOMAIN commits /\ sent[commits[i]].def = d

Brought(i, d, label, key) == CommitOf(i, d) /\ key \in Rows(sent[commits[i]], label)

(* The graph holds what the committed envelopes say, whatever overlapped.     *)
NodesComplete ==
    \A i \in DOMAIN commits : \A label \in Labels :
        \A key \in Rows(sent[commits[i]], label) :
            Matching(nodes, label, key, sent[commits[i]].def) # {}

NodesSound ==
    \A n \in nodes : \E i \in DOMAIN commits :
        writer[n] = commits[i] /\ Brought(i, n.def, n.label, n.key)

EdgesSound ==
    \A x \in edges :
        /\ x[1] \in nodes /\ x[2] \in nodes /\ x[1].def = x[2].def
        /\ \E i \in DOMAIN commits :
              /\ CommitOf(i, x[1].def)
              /\ \E s \in ToSet(Statements) :
                    Link(x[1].label, x[1].key, x[2].label, x[2].key) \in Links(sent[commits[i]], s)
              /\ \E j \in 1 .. i : Brought(j, x[1].def, x[1].label, x[1].key)

(* What owns a node of a label; an Object owns a Behavior.                    *)
Owner ==
    [label \in Labels \ {"Object", "Algorithm"} |->
        IF label = "Behavior" THEN "Object" ELSE IF label = "Procedure" THEN "Algorithm"
        ELSE "Procedure"]

Owned ==
    \A n \in nodes :
        /\ n.label \in DOMAIN Owner => \E x \in edges : x[2] = n /\ x[1].label = Owner[n.label]
        /\ n.label = "Object" => \E x \in edges : x[1] = n /\ x[2].label = "Behavior"

(* No two commits of the definition overlapped.                               *)
InSeries(d) ==
    \A i, j \in DOMAIN commits : CommitOf(i, d) /\ CommitOf(j, d) /\ j < i => j <= base[commits[i]]

(* Then a key has one node, set last by the last that sent it, and every link *)
(* whose ends were known when it was sent.                                    *)
ExactOf(d) ==
    InSeries(d) =>
        /\ \A x, y \in nodes :
              x.def = d /\ y.def = d /\ x.label = y.label /\ x.key = y.key => x = y
        /\ \A n \in nodes, i \in DOMAIN commits :
              n.def = d /\ Brought(i, d, n.label, n.key) =>
                  \E j \in DOMAIN commits : writer[n] = commits[j] /\ i <= j
        /\ \A i \in DOMAIN commits : \A s \in ToSet(Statements) :
              CommitOf(i, d) => \A l \in Links(sent[commits[i]], s) :
                  /\ \E j \in 1 .. i : Brought(j, d, l[1][1], l[1][2])
                  /\ \E j \in 1 .. i : Brought(j, d, l[2][1], l[2][2])
                  => Joined(nodes, {l}, d) \cap edges # {}

Exact == \A d \in Key : ExactOf(d)

GraphInv == NodesComplete /\ NodesSound /\ EdgesSound /\ Owned /\ Exact

(* The inductive invariant of publishing.                                     *)
PublishInv == PublishTypeOK /\ Flow /\ Written /\ Undisturbed /\ GraphInv /\ StaleListComplete

(* How far a report is, and the history beside it.                            *)
ReportFlow ==
    /\ report.step \in {"idle", "stamp"} =>
          report.findings = {} /\ report.results = {} /\ report.check = 1
    /\ report.step = "checks" => report.check \in DOMAIN Checks
    /\ report.step \in {"rules", "answered"} => report.check = Len(Checks) + 1
    /\ report.step \in {"stamp", "checks", "rules", "answered"} => report.def \in Key
    /\ begun <= Len(commits) /\ checked <= Len(commits) /\ ended <= Len(commits)

(* A report's stamp is one of a publish that its checks see.                  *)
StampInv ==
    report.step \in {"checks", "rules", "answered"} /\ report.publishedAt # 0 =>
        \E i \in 1 .. (IF report.check = 1 THEN Len(commits) ELSE checked) :
            stamp[commits[i]] = report.publishedAt

(* What all checks before the k-th find in the graph as it is.                *)
FoundUpTo(k, d) ==
    UNION {{[check |-> Checks[c], of |-> f] : f \in Findings(Checks[c], d)} : c \in 1 .. k - 1}

(* Without a commit since it arrived a report holds what the graph answers.   *)
FoundInv ==
    report.step \in {"checks", "rules"} /\ begun = Len(commits) =>
        /\ report.findings = FoundUpTo(report.check, report.def)
        /\ \A x \in report.results : x = Result(x.mapping, report.def)

(* The inductive invariant of reporting beside publishing.                    *)
ReportInv ==
    TypeOK /\ ReportFlow /\ StampInv /\ FoundInv /\ FindingsAsPublished /\ RulesAsPublished

------------------------------------------------------------------------------
(* Numbers and sets of them.                                                  *)

(* A set of numbers has a least one.                                          *)
LEMMA LeastNumber ==
    ASSUME NEW S, S \subseteq Nat, S # {}
    PROVE  \E n \in S : \A m \in S : n <= m
<1>1. PICK n \in S : \A m \in S : <<m, n>> \notin OpToRel(<, Nat)
    BY NatLessThanWellFounded, WFMin
<1>2. \A m \in S : ~(m < n)
    BY <1>1 DEF OpToRel
<1> QED
    BY <1>2

(* Max is the largest of a set of numbers that is bounded and not empty.      *)
LEMMA MaxOf ==
    ASSUME NEW S, S \subseteq Nat, S # {}, NEW b \in Nat, \A m \in S : m <= b
    PROVE  Max(S) \in S /\ \A m \in S : m <= Max(S)
<1> DEFINE Above == {k \in Nat : \A m \in S : m <= k}
<1>1. PICK k \in Above : \A m \in Above : k <= m
    BY LeastNumber
<1>2. k \in S
    <2> SUFFICES ASSUME k \notin S PROVE FALSE
        OBVIOUS
    <2>1. \A m \in S : m < k
        BY <1>1
    <2>2. k - 1 \in Nat
        <3>1. PICK m \in S : TRUE
            OBVIOUS
        <3>2. m \in Nat /\ m < k /\ k \in Nat
            BY <2>1
        <3> QED
            BY <3>2
    <2>3. \A m \in S : m <= k - 1
        BY <2>1
    <2> QED
        BY <2>2, <2>3, <1>1
<1>3. \A m \in S : k >= m
    BY <1>1
<1> HIDE DEF Above
<1> QED
    BY <1>2, <1>3 DEF Max

------------------------------------------------------------------------------
(* The statements of a publish.                                               *)

(* The nine statements in their order.                                        *)
LEMMA StatementsAre ==
    /\ Len(Statements) = 9 /\ Done = 10 /\ DOMAIN Statements = 1 .. 9
    /\ Statements[1] = "Object" /\ Statements[2] = "Behavior" /\ Statements[3] = "Algorithm"
    /\ Statements[4] = "Procedure" /\ Statements[5] = "Pattern"
    /\ Statements[6] = "PatternHost" /\ Statements[7] = "Parameter"
    /\ Statements[8] = "Interface" /\ Statements[9] = "ParamLink"
BY DEF Statements, Done

(* Every label has one statement.                                             *)
LEMMA StatementsDiffer ==
    /\ \A i, j \in 1 .. 9 : Statements[i] = Statements[j] => i = j
    /\ Labels \subseteq ToSet(Statements)
    /\ ToSet(Statements) = Labels \cup {"PatternHost", "ParamLink"}
<1>1. \A i \in 1 .. 9 : i = 1 \/ i = 2 \/ i = 3 \/ i = 4 \/ i = 5 \/ i = 6 \/ i = 7 \/ i = 8 \/ i = 9
    OBVIOUS
<1>2. \A i, j \in 1 .. 9 : Statements[i] = Statements[j] => i = j
    BY <1>1, StatementsAre
<1>3. ToSet(Statements) = {Statements[i] : i \in 1 .. 9}
    BY StatementsAre DEF ToSet
<1>4. ToSet(Statements) = Labels \cup {"PatternHost", "ParamLink"}
    BY <1>1, <1>3, StatementsAre DEF Labels
<1> QED
    BY <1>2, <1>4

(* The next statement is the first that has rows.                             *)
LEMMA NextStatement ==
    ASSUME NEW e, NEW k \in 1 .. Done
    PROVE  /\ FirstFrom(e, k) \in k .. Done
           /\ \A j \in k .. FirstFrom(e, k) - 1 : Skipped(e, Statements[j])
<1> DEFINE S == {i \in k .. Done : i = Done \/ ~Skipped(e, Statements[i])}
<1>1. Done \in S /\ S \subseteq Nat
    BY StatementsAre
<1>2. PICK i \in S : \A m \in S : i <= m
    BY <1>1, LeastNumber
<1>3. \A j \in k .. i - 1 : Skipped(e, Statements[j])
    <2> SUFFICES ASSUME NEW j \in k .. i - 1, ~Skipped(e, Statements[j]) PROVE FALSE
        OBVIOUS
    <2>1. j \in S
        BY StatementsAre
    <2> QED
        BY <2>1, <1>2, StatementsAre
<1>4. \E m \in k .. Done : /\ m = Done \/ ~Skipped(e, Statements[m])
                           /\ \A j \in k .. m - 1 : Skipped(e, Statements[j])
    BY <1>2, <1>3
<1> QED
    BY <1>4 DEF FirstFrom

------------------------------------------------------------------------------
(* Envelopes and their rows.                                                  *)

(* An element of a sequence over a set is in the set.                         *)
LEMMA SeqElement ==
    ASSUME NEW S, NEW s \in Seq(S), NEW i \in DOMAIN s
    PROVE  s[i] \in S
OBVIOUS

(* What an envelope is whose rows can be built.                               *)
LEMMA EnvelopeShape ==
    ASSUME NEW e \in Envelope
    PROVE  /\ e # None /\ e.def \in Key \cup {None} /\ e.object \in Key \cup {None}
           /\ e.algs \subseteq Key
           /\ \A p \in ToSet(e.procs) : p.id \in Key /\ p.alg \in e.algs /\ p.id \in Ids(e.procs)
           /\ \A p \in e.patterns : p.id \in Key /\ p.proc \in Key /\ p.host \in Key \cup {None}
           /\ \A p \in ToSet(e.params) : p.id \in Key /\ p.proc \in Key
           /\ \A p \in ToSet(e.ifaces) : p.id \in Key /\ p.proc \in Key
           /\ \A x \in e.patterns \cup ToSet(e.params) \cup ToSet(e.ifaces) :
                 x.proc \in Ids(e.procs)
           /\ Ids(e.procs) = {p.id : p \in ToSet(e.procs)}
           /\ Ids(e.params) = {p.id : p \in ToSet(e.params)}
           /\ Ids(e.ifaces) = {p.id : p \in ToSet(e.ifaces)}
           /\ e.warnings \subseteq Key
           /\ ~Malformed(e) => e.def \in Key /\ \A p \in ToSet(e.params) : p.typed
<1>1. e \in Envelopes
    BY EnvelopeAssumption
<1>2. /\ e.def \in Key \cup {None} /\ e.object \in Key \cup {None} /\ e.algs \subseteq Key
      /\ e.procs \in Seq([id : Key, alg : Key, as : Key])
      /\ e.patterns \subseteq [id : Key, proc : Key, host : Key \cup {None}]
      /\ e.params \in Seq([id : Key, proc : Key, as : Key, members : SUBSET Key, typed : BOOLEAN])
      /\ e.ifaces \in Seq([id : Key, proc : Key, as : Key, members : SUBSET Key])
      /\ e.warnings \subseteq Key
    BY <1>1 DEF Envelopes
<1>3. e # None
    BY <1>1, BoundsAssumption
<1>4. \A p \in ToSet(e.params) : p.id \in Key /\ p.proc \in Key
    <2>1. \A i \in DOMAIN e.params :
              e.params[i] \in [id : Key, proc : Key, as : Key, members : SUBSET Key, typed : BOOLEAN]
        BY <1>2, SeqElement
    <2> QED
        BY <2>1 DEF ToSet
<1>5. \A p \in ToSet(e.ifaces) : p.id \in Key /\ p.proc \in Key
    <2>1. \A i \in DOMAIN e.ifaces :
              e.ifaces[i] \in [id : Key, proc : Key, as : Key, members : SUBSET Key]
        BY <1>2, SeqElement
    <2> QED
        BY <2>1 DEF ToSet
<1>6. \A p \in ToSet(e.procs) : p.id \in Key /\ p.alg \in e.algs
    <2>1. \A i \in DOMAIN e.procs : e.procs[i] \in [id : Key, alg : Key, as : Key]
        BY <1>2, SeqElement
    <2>2. \A p \in ToSet(e.procs) : p.alg \in e.algs
        BY EnvelopeAssumption
    <2> QED
        BY <2>1, <2>2 DEF ToSet
<1>12. Ids(e.procs) = {p.id : p \in ToSet(e.procs)}
    BY DEF Ids, ToSet
<1>7. \A p \in e.patterns : p.id \in Key /\ p.proc \in Key /\ p.host \in Key \cup {None}
    BY <1>2
<1>8. \A x \in e.patterns \cup ToSet(e.params) \cup ToSet(e.ifaces) :
          x.proc \in Ids(e.procs)
    BY <1>12, EnvelopeAssumption
<1>9. ~Malformed(e) => e.def \in Key /\ \A p \in ToSet(e.params) : p.typed
    BY <1>2 DEF Malformed, ToSet
<1>10. Ids(e.params) = {p.id : p \in ToSet(e.params)}
    BY DEF Ids, ToSet
<1>11. Ids(e.ifaces) = {p.id : p \in ToSet(e.ifaces)}
    BY DEF Ids, ToSet
<1> QED
    BY <1>2, <1>3, <1>4, <1>5, <1>6, <1>7, <1>8, <1>9, <1>10, <1>11, <1>12

(* The last row for an id is a row for it.                                    *)
LEMMA LastRowIs ==
    ASSUME NEW T, NEW rows \in Seq(T), NEW id \in Ids(rows)
    PROVE  \E i \in DOMAIN rows : LastRow(rows, id) = rows[i] /\ rows[i].id = id
<1> DEFINE S == {i \in DOMAIN rows : rows[i].id = id}
<1>1. Len(rows) \in Nat /\ DOMAIN rows = 1 .. Len(rows)
    OBVIOUS
<1>2. S \subseteq Nat /\ S # {} /\ \A i \in S : i <= Len(rows)
    BY <1>1 DEF Ids
<1>3. Max(S) \in S
    BY <1>1, <1>2, MaxOf
<1> QED
    BY <1>3 DEF LastRow

(* Rows, statement by statement.                                              *)
LEMMA RowsAre ==
    ASSUME NEW e
    PROVE  /\ Rows(e, "Object") = {e.object} \ {None}
           /\ Rows(e, "Behavior") = IF e.object = None THEN {} ELSE {TheBehavior}
           /\ Rows(e, "Algorithm") = e.algs
           /\ Rows(e, "Procedure") = Ids(e.procs)
           /\ Rows(e, "Pattern") = {p.id : p \in e.patterns}
           /\ Rows(e, "Parameter") = Ids(e.params)
           /\ Rows(e, "Interface") = Ids(e.ifaces)
           /\ Rows(e, "PatternHost") = {} /\ Rows(e, "ParamLink") = {}
BY DEF Rows

(* Links, statement by statement.                                             *)
LEMMA LinksAre ==
    ASSUME NEW e
    PROVE  /\ Links(e, "Object") = {}
           /\ Links(e, "Behavior") =
                 {Link("Object", o, "Behavior", TheBehavior) : o \in {e.object} \ {None}}
           /\ Links(e, "Algorithm") =
                 {Link("Behavior", TheBehavior, "Algorithm", a) : a \in e.algs}
           /\ Links(e, "Procedure") =
                 {Link("Algorithm", p.alg, "Procedure", p.id) : p \in ToSet(e.procs)}
           /\ Links(e, "Pattern") =
                 {Link("Procedure", p.proc, "Pattern", p.id) : p \in e.patterns}
           /\ Links(e, "PatternHost") =
                 {Link("Pattern", p.id, "Pattern", p.host) :
                      p \in {q \in e.patterns : q.host # None}}
           /\ Links(e, "Parameter") =
                 {Link("Procedure", p.proc, "Parameter", p.id) : p \in ToSet(e.params)}
           /\ Links(e, "Interface") =
                 {Link("Procedure", p.proc, "Interface", p.id) : p \in ToSet(e.ifaces)}
           /\ Links(e, "ParamLink") =
                 {Link("Parameter", l[1], "Interface", l[2]) : l \in ParamLinks(e)}
BY DEF Links

(* A link joins two keys under two labels.                                    *)
LEMMA LinkIs ==
    ASSUME NEW a, NEW x, NEW b, NEW y
    PROVE  /\ Link(a, x, b, y)[1][1] = a /\ Link(a, x, b, y)[1][2] = x
           /\ Link(a, x, b, y)[2][1] = b /\ Link(a, x, b, y)[2][2] = y
BY DEF Link

(* A link tells its ends.                                                     *)
LEMMA SameLink ==
    ASSUME NEW a, NEW x, NEW b, NEW y, NEW c, NEW u, NEW d, NEW v,
           Link(a, x, b, y) = Link(c, u, d, v)
    PROVE  a = c /\ x = u /\ b = d /\ y = v
BY LinkIs

(* The statement of a link is known from its labels, and so is its row.       *)
LEMMA LinkTells ==
    ASSUME NEW e, NEW s \in ToSet(Statements), NEW l \in Links(e, s)
    PROVE  /\ l = Link(l[1][1], l[1][2], l[2][1], l[2][2])
           /\ \/ s = "Behavior" /\ l = Link("Object", e.object, s, TheBehavior) /\ e.object # None
              \/ s = "Algorithm" /\ \E a \in e.algs : l = Link("Behavior", TheBehavior, s, a)
              \/ s = "Procedure" /\ \E p \in ToSet(e.procs) : l = Link("Algorithm", p.alg, s, p.id)
              \/ s = "Pattern" /\ \E p \in e.patterns : l = Link("Procedure", p.proc, s, p.id)
              \/ s = "PatternHost" /\ \E p \in e.patterns : l = Link("Pattern", p.id, "Pattern", p.host)
              \/ s = "Parameter" /\ \E p \in ToSet(e.params) : l = Link("Procedure", p.proc, s, p.id)
              \/ s = "Interface" /\ \E p \in ToSet(e.ifaces) : l = Link("Procedure", p.proc, s, p.id)
              \/ s = "ParamLink" /\ \E p \in ParamLinks(e) : l = Link("Parameter", p[1], "Interface", p[2])
<1>1. s \in Labels \cup {"PatternHost", "ParamLink"}
    BY StatementsDiffer
<1>2. \/ s = "Behavior" /\ l = Link("Object", e.object, s, TheBehavior) /\ e.object # None
      \/ s = "Algorithm" /\ \E a \in e.algs : l = Link("Behavior", TheBehavior, s, a)
      \/ s = "Procedure" /\ \E p \in ToSet(e.procs) : l = Link("Algorithm", p.alg, s, p.id)
      \/ s = "Pattern" /\ \E p \in e.patterns : l = Link("Procedure", p.proc, s, p.id)
      \/ s = "PatternHost" /\ \E p \in e.patterns : l = Link("Pattern", p.id, "Pattern", p.host)
      \/ s = "Parameter" /\ \E p \in ToSet(e.params) : l = Link("Procedure", p.proc, s, p.id)
      \/ s = "Interface" /\ \E p \in ToSet(e.ifaces) : l = Link("Procedure", p.proc, s, p.id)
      \/ s = "ParamLink" /\ \E p \in ParamLinks(e) : l = Link("Parameter", p[1], "Interface", p[2])
    <2>1. CASE s = "Object"
        BY <2>1, LinksAre
    <2>2. CASE s = "Behavior"
        BY <2>2, LinksAre
    <2>3. CASE s = "Algorithm"
        BY <2>3, LinksAre
    <2>4. CASE s = "Procedure"
        BY <2>4, LinksAre
    <2>5. CASE s = "Pattern"
        BY <2>5, LinksAre
    <2>6. CASE s = "PatternHost"
        BY <2>6, LinksAre
    <2>7. CASE s = "Parameter"
        BY <2>7, LinksAre
    <2>8. CASE s = "Interface"
        BY <2>8, LinksAre
    <2>9. CASE s = "ParamLink"
        BY <2>9, LinksAre
    <2> QED
        BY <1>1, <2>1, <2>2, <2>3, <2>4, <2>5, <2>6, <2>7, <2>8, <2>9 DEF Labels
<1>3. \E a, x, b, y : l = Link(a, x, b, y)
    BY <1>2
<1>4. l = Link(l[1][1], l[1][2], l[2][1], l[2][2])
    BY <1>3, LinkIs
<1> QED
    BY <1>2, <1>4

(* A statement links nodes that it or an earlier one merged.                  *)
LEMMA LinksLookBack ==
    ASSUME NEW e, NEW k \in 1 .. 9, NEW l \in Links(e, Statements[k])
    PROVE  /\ \E i \in 1 .. k : l[1][1] = Statements[i]
           /\ \E i \in 1 .. k : l[2][1] = Statements[i]
<1>1. Statements[k] \in ToSet(Statements)
    BY StatementsAre DEF ToSet
<1>2. k = 1 \/ k = 2 \/ k = 3 \/ k = 4 \/ k = 5 \/ k = 6 \/ k = 7 \/ k = 8 \/ k = 9
    OBVIOUS
<1>3. l[1][1] \in {"Object", "Behavior", "Algorithm", "Procedure", "Pattern", "Parameter"}
    BY <1>1, LinkTells, LinkIs
<1>4. CASE Statements[k] = "Behavior"
    <2>1. l[1][1] = "Object" /\ l[2][1] = "Behavior" /\ k = 2
        BY <1>1, <1>2, <1>4, LinkTells, LinkIs, StatementsAre
    <2> QED
        BY <2>1, StatementsAre
<1>5. CASE Statements[k] = "Algorithm"
    <2>1. l[1][1] = "Behavior" /\ l[2][1] = "Algorithm" /\ k = 3
        BY <1>1, <1>2, <1>5, LinkTells, LinkIs, StatementsAre
    <2> QED
        BY <2>1, StatementsAre
<1>6. CASE Statements[k] = "Procedure"
    <2>1. l[1][1] = "Algorithm" /\ l[2][1] = "Procedure" /\ k = 4
        BY <1>1, <1>2, <1>6, LinkTells, LinkIs, StatementsAre
    <2> QED
        BY <2>1, StatementsAre
<1>7. CASE Statements[k] = "Pattern"
    <2>1. l[1][1] = "Procedure" /\ l[2][1] = "Pattern" /\ k = 5
        BY <1>1, <1>2, <1>7, LinkTells, LinkIs, StatementsAre
    <2> QED
        BY <2>1, StatementsAre
<1>8. CASE Statements[k] = "PatternHost"
    <2>1. l[1][1] = "Pattern" /\ l[2][1] = "Pattern" /\ k = 6
        BY <1>1, <1>2, <1>8, LinkTells, LinkIs, StatementsAre
    <2> QED
        BY <2>1, StatementsAre
<1>9. CASE Statements[k] = "Parameter"
    <2>1. l[1][1] = "Procedure" /\ l[2][1] = "Parameter" /\ k = 7
        BY <1>1, <1>2, <1>9, LinkTells, LinkIs, StatementsAre
    <2> QED
        BY <2>1, StatementsAre
<1>10. CASE Statements[k] = "Interface"
    <2>1. l[1][1] = "Procedure" /\ l[2][1] = "Interface" /\ k = 8
        BY <1>1, <1>2, <1>10, LinkTells, LinkIs, StatementsAre
    <2> QED
        BY <2>1, StatementsAre
<1>11. CASE Statements[k] = "ParamLink"
    <2>1. l[1][1] = "Parameter" /\ l[2][1] = "Interface" /\ k = 9
        BY <1>1, <1>2, <1>11, LinkTells, LinkIs, StatementsAre
    <2> QED
        BY <2>1, StatementsAre
<1> QED
    BY <1>1, <1>4, <1>5, <1>6, <1>7, <1>8, <1>9, <1>10, <1>11, LinkTells

(* Which pairs of nodes a link joins.                                         *)
LEMMA JoinedByLink ==
    ASSUME NEW seen, NEW l, NEW d, NEW x
    PROVE  x \in Joined(seen, {l}, d) <=>
              \E a, b \in seen : /\ x = <<a, b>> /\ a.def = d /\ b.def = d
                                 /\ a.label = l[1][1] /\ a.key = l[1][2]
                                 /\ b.label = l[2][1] /\ b.key = l[2][2]
BY DEF Joined, Matching

(* Links join nodes one by one.                                               *)
LEMMA JoinedByLinks ==
    ASSUME NEW seen, NEW links, NEW d, NEW x
    PROVE  x \in Joined(seen, links, d) <=> \E l \in links : x \in Joined(seen, {l}, d)
BY DEF Joined

(* Seeing more nodes, links join no less.                                     *)
LEMMA JoinedGrows ==
    ASSUME NEW seen, NEW more, seen \subseteq more, NEW links, NEW d
    PROVE  Joined(seen, links, d) \subseteq Joined(more, links, d)
BY DEF Joined, Matching

------------------------------------------------------------------------------
(* Steps.                                                                     *)

(* A publish takes a step, or none of them does; a report that fails counts.  *)
Rests ==
    /\ UNCHANGED <<nodes, edges, writer, pc, next, sent, stamp, tx, stale, commits, base>>
    /\ faults' \in 0 .. MaxFaults

(* What is not a step of a publish leaves all publishes at rest.              *)
LEMMA StepsArePublishes ==
    ASSUME PublishTypeOK, [Next]_vars
    PROVE  \/ \E r \in Request : \/ \E e \in Envelope : Arrive(r, e)
                                 \/ Write(r) \/ Commit(r) \/ Answer(r) \/ AnswerLost(r)
                                 \/ \E retried \in BOOLEAN : Abort(r, retried)
           \/ Rests
<1>1. CASE PublishNext
    BY <1>1 DEF PublishNext
<1>2. CASE UNCHANGED publishVars
    BY <1>2 DEF publishVars, Rests, PublishTypeOK
<1>3. CASE ReportFails
    <2>1. faults \in Nat /\ MaxFaults \in Nat
        BY BoundsAssumption DEF PublishTypeOK
    <2>2. faults < MaxFaults /\ faults' = faults + 1
        BY <1>3 DEF ReportFails
    <2>3. UNCHANGED <<nodes, edges, writer, pc, next, sent, stamp, tx, stale, commits, base>>
        BY <1>3 DEF ReportFails
    <2>4. faults' \in 0 .. MaxFaults
        BY <2>1, <2>2
    <2> QED
        BY <2>3, <2>4 DEF Rests
<1>4. PublishNext \/ UNCHANGED publishVars \/ ReportFails
    BY DEF Next, vars, Resolve, FetchPublishedAt, RunCheck, EvaluateRule, Assemble
<1> QED
    BY <1>1, <1>2, <1>3, <1>4

(* Rows and links of an envelope that was let through are nodes' keys.        *)
LEMMA RowKeys ==
    ASSUME NEW e \in Envelope, NEW s
    PROVE  /\ Rows(e, s) \subseteq Key \cup {TheBehavior}
           /\ s # "Behavior" => Rows(e, s) \subseteq Key
<1> USE EnvelopeShape
<1>1. CASE s = "Object"
    BY <1>1, RowsAre
<1>2. CASE s = "Behavior"
    BY <1>2, RowsAre
<1>3. CASE s = "Algorithm"
    BY <1>3, RowsAre
<1>4. CASE s = "Procedure"
    BY <1>4, RowsAre
<1>5. CASE s = "Pattern"
    BY <1>5, RowsAre
<1>6. CASE s = "Parameter"
    BY <1>6, RowsAre
<1>7. CASE s = "Interface"
    BY <1>7, RowsAre
<1>8. CASE s \notin Labels
    BY <1>8 DEF Rows, Labels
<1> QED
    BY <1>1, <1>2, <1>3, <1>4, <1>5, <1>6, <1>7, <1>8 DEF Labels

(* Only the statements of labels merge rows.                                  *)
LEMMA RowsHaveLabels ==
    ASSUME NEW e, NEW s, Rows(e, s) # {}
    PROVE  s \in Labels
BY DEF Rows, Labels

(* What a statement merges: nodes it found, and a new one where it found none.*)
LEMMA MergeTells ==
    ASSUME NEW r, NEW label, NEW key
    PROVE  /\ Merge(r, label, key) # {}
           /\ \A n \in Merge(r, label, key) :
                 /\ n.label = label /\ n.key = key /\ n.def = sent[r].def
                 /\ \/ n \in Seen(r)
                    \/ /\ n = [label |-> label, key |-> key, def |-> sent[r].def, by |-> r]
                       /\ Matching(Seen(r), label, key, sent[r].def) = {}
<1> DEFINE found == Matching(Seen(r), label, key, sent[r].def)
           new == [label |-> label, key |-> key, def |-> sent[r].def, by |-> r]
<1>1. Merge(r, label, key) = IF found = {} THEN {new} ELSE found
    BY DEF Merge, Seen
<1>2. \A n \in found :
          n \in Seen(r) /\ n.label = label /\ n.key = key /\ n.def = sent[r].def
    BY DEF Matching
<1>3. new.label = label /\ new.key = key /\ new.def = sent[r].def
    OBVIOUS
<1> HIDE DEF found, new
<1>4. CASE found = {}
    <2>1. Merge(r, label, key) = {new}
        BY <1>1, <1>4
    <2> QED
        BY <1>3, <1>4, <2>1 DEF new, found
<1>5. CASE found # {}
    BY <1>1, <1>2, <1>5
<1> QED
    BY <1>4, <1>5

(* What a write does.                                                         *)
Merged(r) == UNION {Merge(r, Statements[next[r]], key) : key \in Rows(sent[r], Statements[next[r]])}

(* A write runs one statement inside its own transaction.                     *)
LEMMA WriteTells ==
    ASSUME NEW r \in Request, Write(r), PublishTypeOK
    PROVE  /\ pc[r] = "writing" /\ next[r] \in 1 .. 9
           /\ tx'[r].nodes = tx[r].nodes \cup Merged(r)
           /\ tx'[r].edges = tx[r].edges \cup
                 Joined(nodes \cup tx[r].nodes \cup Merged(r),
                        Links(sent[r], Statements[next[r]]), sent[r].def)
           /\ next'[r] = FirstFrom(sent[r], next[r] + 1)
           /\ \A q \in Request \ {r} : tx'[q] = tx[q] /\ next'[q] = next[q]
           /\ UNCHANGED <<nodes, edges, writer, pc, sent, stamp, stale, commits, base, faults>>
<1> DEFINE e == sent[r]
           s == Statements[next[r]]
           written == tx[r].nodes \cup Merged(r)
<1>1. tx' = [tx EXCEPT ![r] =
                [nodes |-> written,
                 edges |-> @.edges \cup Joined(nodes \cup written, Links(e, s), e.def)]]
    BY DEF Write, Merged
<1>2. next' = [next EXCEPT ![r] = FirstFrom(e, @ + 1)]
    BY DEF Write
<1>3. pc[r] = "writing" /\ next[r] \in 1 .. 9
    BY StatementsAre DEF Write, PublishTypeOK
<1>4. UNCHANGED <<nodes, edges, writer, pc, sent, stamp, stale, commits, base, faults>>
    BY DEF Write
<1>5. tx'[r] = [nodes |-> written,
                edges |-> tx[r].edges \cup Joined(nodes \cup written, Links(e, s), e.def)]
    BY <1>1 DEF PublishTypeOK
<1>6. nodes \cup written = nodes \cup tx[r].nodes \cup Merged(r)
    OBVIOUS
<1>7. tx'[r].nodes = written
    BY <1>5
<1>8. tx'[r].edges = tx[r].edges \cup Joined(nodes \cup written, Links(e, s), e.def)
    BY <1>5
<1>9. next'[r] = FirstFrom(sent[r], next[r] + 1)
    BY <1>2 DEF PublishTypeOK
<1>10. \A q \in Request \ {r} : tx'[q] = tx[q] /\ next'[q] = next[q]
    BY <1>1, <1>2 DEF PublishTypeOK
<1> QED
    BY <1>3, <1>4, <1>6, <1>7, <1>8, <1>9, <1>10

(* What a statement merges has its rows and is new only if not seen.          *)
LEMMA MergedTells ==
    ASSUME NEW r \in Request
    PROVE  /\ \A key \in Rows(sent[r], Statements[next[r]]) :
                 Matching(Merged(r), Statements[next[r]], key, sent[r].def) # {}
           /\ \A n \in Merged(r) :
                 /\ n.label = Statements[next[r]] /\ n.def = sent[r].def
                 /\ n.key \in Rows(sent[r], Statements[next[r]])
                 /\ \/ n \in Seen(r)
                    \/ /\ n = [label |-> n.label, key |-> n.key, def |-> n.def, by |-> r]
                       /\ Matching(Seen(r), n.label, n.key, n.def) = {}
<1> DEFINE s == Statements[next[r]]
<1>1. ASSUME NEW key \in Rows(sent[r], s)
      PROVE  Matching(Merged(r), s, key, sent[r].def) # {}
    <2>1. PICK n \in Merge(r, s, key) : TRUE
        BY MergeTells
    <2>2. n \in Merged(r)
        BY <2>1 DEF Merged
    <2> QED
        BY <2>1, <2>2, MergeTells DEF Matching
<1>2. ASSUME NEW n \in Merged(r)
      PROVE  /\ n.label = s /\ n.def = sent[r].def /\ n.key \in Rows(sent[r], s)
             /\ \/ n \in Seen(r)
                \/ /\ n = [label |-> n.label, key |-> n.key, def |-> n.def, by |-> r]
                   /\ Matching(Seen(r), n.label, n.key, n.def) = {}
    <2>1. PICK key \in Rows(sent[r], s) : n \in Merge(r, s, key)
        BY DEF Merged
    <2> QED
        BY <2>1, MergeTells
<1> QED
    BY <1>1, <1>2

(* What a statement merges are nodes.                                         *)
LEMMA MergedTyped ==
    ASSUME NEW r \in Request, PublishTypeOK, sent[r] \in Envelope, ~Malformed(sent[r])
    PROVE  Merged(r) \subseteq Nodes
<1> SUFFICES ASSUME NEW n \in Merged(r) PROVE n \in Nodes
    OBVIOUS
<1>1. CASE n \in Seen(r)
    BY <1>1 DEF Seen, PublishTypeOK
<1>2. CASE n = [label |-> n.label, key |-> n.key, def |-> n.def, by |-> r]
    <2>1. n.label \in Labels /\ n.key \in Key \cup {TheBehavior}
        BY MergedTells, RowKeys, RowsHaveLabels
    <2>2. n.def \in Key
        BY MergedTells, EnvelopeShape
    <2> QED
        BY <1>2, <2>1, <2>2 DEF Nodes
<1> QED
    BY <1>1, <1>2, MergedTells

(* Relationships join nodes that are seen.                                    *)
LEMMA JoinedTyped ==
    ASSUME NEW seen, NEW links, NEW d
    PROVE  Joined(seen, links, d) \subseteq seen \X seen
BY DEF Joined, Matching

(* Nothing is published.                                                      *)
LEMMA InitPublish == Init => PublishInv
<1> SUFFICES ASSUME Init PROVE PublishInv
    OBVIOUS
<1> USE DEF Init, PublishInit
<1>1. nodes = {} /\ edges = {} /\ commits = <<>> /\ DOMAIN commits = {} /\ Len(commits) = 0
    OBVIOUS
<1>2. Arrived = {}
    BY DEF Arrived
<1>3. \A r \in Request : pc[r] = "idle" /\ sent[r] = None /\ tx[r] = NoWrites /\ base[r] = 0
    OBVIOUS
<1>4. PublishTypeOK
    <2>1. writer \in [nodes -> Request]
        OBVIOUS
    <2>2. stamp \in [Request -> 0 .. Cardinality(Arrived)]
        BY <1>2, FS_EmptySet
    <2>3. tx \in [Request -> [nodes : SUBSET Nodes, edges : SUBSET (Nodes \X Nodes)]]
        BY DEF NoWrites
    <2>4. next \in [Request -> 1 .. Done]
        BY StatementsAre
    <2>5. faults \in 0 .. MaxFaults
        BY BoundsAssumption
    <2>6. commits \in Seq(Request)
        OBVIOUS
    <2> QED
        BY <2>1, <2>2, <2>3, <2>4, <2>5, <2>6 DEF PublishTypeOK
<1>5. Flow
    BY <1>1, <1>2, <1>3, FS_EmptySet DEF Flow
<1>6. Written /\ Undisturbed
    BY <1>3 DEF Written, WrittenOf, Undisturbed, UndisturbedOf
<1>7. NodesComplete /\ NodesSound /\ EdgesSound /\ Owned
    BY <1>1 DEF NodesComplete, NodesSound, EdgesSound, Owned
<1>8. Exact
    BY <1>1 DEF Exact, ExactOf
<1>9. StaleListComplete
    BY <1>3 DEF StaleListComplete
<1> QED
    BY <1>4, <1>5, <1>6, <1>7, <1>8, <1>9 DEF PublishInv, GraphInv

(* The set of requests that arrived grows by one.                             *)
LEMMA ArrivedGrows ==
    ASSUME NEW r \in Request, NEW e \in Envelope, Arrive(r, e), PublishTypeOK, Flow
    PROVE  /\ IsFiniteSet(Arrived') /\ Cardinality(Arrived') = Cardinality(Arrived) + 1
           /\ Cardinality(Arrived) \in Nat
<1>1. sent[r] = None /\ e # None
    BY EnvelopeShape DEF Arrive, Flow
<1>2. Arrived' = Arrived \cup {r} /\ r \notin Arrived
    BY <1>1 DEF Arrive, Arrived, PublishTypeOK
<1> QED
    BY <1>2, FS_AddElement, FS_CardinalityType DEF Flow

(* A commit makes all of a transaction visible at once.                       *)
LEMMA CommitTells ==
    ASSUME NEW r \in Request, Commit(r), PublishTypeOK, Flow
    PROVE  /\ pc[r] = "writing" /\ next[r] = Done
           /\ nodes' = nodes \cup tx[r].nodes /\ edges' = edges \cup tx[r].edges
           /\ \A n \in nodes' : writer'[n] = IF n \in tx[r].nodes THEN r ELSE writer[n]
           /\ tx'[r] = NoWrites /\ pc'[r] = "committed"
           /\ \A q \in Request \ {r} : tx'[q] = tx[q] /\ pc'[q] = pc[q]
           /\ Len(commits') = Len(commits) + 1 /\ Len(commits) \in Nat
           /\ DOMAIN commits = 1 .. Len(commits)
           /\ DOMAIN commits' = 1 .. Len(commits) + 1
           /\ \A i \in DOMAIN commits : commits'[i] = commits[i] /\ commits[i] # r
           /\ commits'[Len(commits) + 1] = r
           /\ UNCHANGED <<next, sent, stamp, stale, base, faults>>
<1>1. commits' = Append(commits, r) /\ commits \in Seq(Request)
    BY DEF Commit, PublishTypeOK
<1>2. /\ Len(commits') = Len(commits) + 1 /\ Len(commits) \in Nat
      /\ DOMAIN commits = 1 .. Len(commits)
      /\ DOMAIN commits' = 1 .. Len(commits) + 1
      /\ \A i \in DOMAIN commits : commits'[i] = commits[i]
      /\ commits'[Len(commits) + 1] = r
    BY <1>1
<1>3. \A i \in DOMAIN commits : commits[i] # r
    BY DEF Commit, Flow
<1>4. writer' = [n \in nodes' |-> IF n \in tx[r].nodes THEN r ELSE writer[n]]
    BY DEF Commit
<1>5. /\ tx'[r] = NoWrites /\ pc'[r] = "committed"
      /\ \A q \in Request \ {r} : tx'[q] = tx[q] /\ pc'[q] = pc[q]
    BY DEF Commit, PublishTypeOK
<1> QED
    BY <1>2, <1>3, <1>4, <1>5 DEF Commit

(* An abort forgets it and starts over, or fails the request.                 *)
LEMMA AbortTells ==
    ASSUME NEW r \in Request, NEW retried \in BOOLEAN, Abort(r, retried), PublishTypeOK
    PROVE  /\ pc[r] = "writing" /\ pc'[r] = IF retried THEN "writing" ELSE "failed"
           /\ tx'[r] = NoWrites /\ base'[r] = Len(commits)
           /\ next'[r] = FirstFrom(sent[r], 1)
           /\ \A q \in Request \ {r} :
                 tx'[q] = tx[q] /\ pc'[q] = pc[q] /\ next'[q] = next[q] /\ base'[q] = base[q]
           /\ UNCHANGED <<nodes, edges, writer, sent, stamp, stale, commits>>
<1>1. /\ tx' = [tx EXCEPT ![r] = NoWrites]
      /\ pc' = [pc EXCEPT ![r] = IF retried THEN @ ELSE "failed"]
      /\ next' = [next EXCEPT ![r] = FirstFrom(sent[r], 1)]
      /\ base' = [base EXCEPT ![r] = Len(commits)]
      /\ UNCHANGED <<nodes, edges, writer, sent, stamp, stale, commits>>
      /\ pc[r] = "writing"
    BY DEF Abort
<1>2. tx'[r] = NoWrites /\ base'[r] = Len(commits) /\ next'[r] = FirstFrom(sent[r], 1)
    BY <1>1 DEF PublishTypeOK
<1>3. pc'[r] = IF retried THEN "writing" ELSE "failed"
    BY <1>1 DEF PublishTypeOK
<1>4. \A q \in Request \ {r} :
          tx'[q] = tx[q] /\ pc'[q] = pc[q] /\ next'[q] = next[q] /\ base'[q] = base[q]
    BY <1>1 DEF PublishTypeOK
<1> QED
    BY <1>1, <1>2, <1>3, <1>4

(* An envelope that arrives begins a transaction, or is malformed.            *)
LEMMA ArriveTells ==
    ASSUME NEW r \in Request, NEW e \in Envelope, Arrive(r, e), PublishTypeOK
    PROVE  /\ pc[r] = "idle" /\ pc'[r] = IF Malformed(e) THEN "invalid" ELSE "writing"
           /\ sent'[r] = e /\ base'[r] = Len(commits) /\ next'[r] = FirstFrom(e, 1)
           /\ \A q \in Request \ {r} :
                 sent'[q] = sent[q] /\ pc'[q] = pc[q] /\ next'[q] = next[q] /\ base'[q] = base[q]
           /\ UNCHANGED <<nodes, edges, writer, tx, stale, commits, faults>>
<1>1. /\ pc[r] = "idle"
      /\ sent' = [sent EXCEPT ![r] = e]
      /\ pc' = [pc EXCEPT ![r] = IF Malformed(e) THEN "invalid" ELSE "writing"]
      /\ next' = [next EXCEPT ![r] = FirstFrom(e, 1)]
      /\ base' = [base EXCEPT ![r] = Len(commits)]
      /\ UNCHANGED <<nodes, edges, writer, tx, stale, commits, faults>>
    BY DEF Arrive
<1>2. sent'[r] = e /\ base'[r] = Len(commits) /\ next'[r] = FirstFrom(e, 1)
    BY <1>1 DEF PublishTypeOK
<1>3. pc'[r] = IF Malformed(e) THEN "invalid" ELSE "writing"
    BY <1>1 DEF PublishTypeOK
<1>4. \A q \in Request \ {r} :
          sent'[q] = sent[q] /\ pc'[q] = pc[q] /\ next'[q] = next[q] /\ base'[q] = base[q]
    BY <1>1 DEF PublishTypeOK
<1> QED
    BY <1>1, <1>2, <1>3, <1>4

(* An answer changes its own request only.                                    *)
LEMMA AnswerTells ==
    ASSUME NEW r \in Request, Answer(r) \/ AnswerLost(r), PublishTypeOK
    PROVE  /\ pc[r] = "committed" /\ pc'[r] \in {"published", "failed"}
           /\ \A q \in Request \ {r} : pc'[q] = pc[q] /\ stale'[q] = stale[q]
           /\ pc'[r] = "published" => stale'[r] = Known(r) \ AllCgIds(sent[r])
           /\ UNCHANGED <<nodes, edges, writer, next, sent, stamp, tx, commits, base>>
<1>1. CASE Answer(r)
    BY <1>1 DEF Answer, PublishTypeOK
<1>2. CASE AnswerLost(r)
    BY <1>2 DEF AnswerLost, PublishTypeOK
<1> QED
    BY <1>1, <1>2

(* The types survive every statement, commit, abort and answer.               *)
LEMMA NextTypes == PublishInv /\ [Next]_vars => PublishTypeOK'
<1> SUFFICES ASSUME PublishTypeOK, Flow, Written, NodesSound, [Next]_vars
                PROVE  PublishTypeOK'
    BY DEF PublishInv, GraphInv
<1>0. MaxFaults \in Nat /\ faults \in Nat /\ Cardinality(Arrived) \in Nat
    BY BoundsAssumption, FS_CardinalityType DEF PublishTypeOK, Flow
<1>1. ASSUME NEW r \in Request, NEW e \in Envelope, Arrive(r, e) PROVE PublishTypeOK'
    <2>1. stamp' \in [Request -> 0 .. Cardinality(Arrived')]
        <3>1. stamp' = [stamp EXCEPT ![r] = Cardinality(Arrived) + 1]
            BY <1>1 DEF Arrive
        <3> DEFINE C == Cardinality(Arrived)
        <3>2. stamp \in [Request -> 0 .. C] /\ C \in Nat /\ stamp' = [stamp EXCEPT ![r] = C + 1]
            BY <3>1, <1>0 DEF PublishTypeOK
        <3>3. Cardinality(Arrived') = C + 1
            BY <1>1, ArrivedGrows
        <3> HIDE DEF C
        <3>4. stamp' \in [Request -> 0 .. C + 1]
            BY <3>2
        <3> QED
            BY <3>3, <3>4
    <2>2. next' \in [Request -> 1 .. Done]
        <3>1. FirstFrom(e, 1) \in 1 .. Done
            BY NextStatement, StatementsAre
        <3> QED
            BY <3>1, <1>1 DEF Arrive, PublishTypeOK
    <2>3. pc' \in [Request -> {"idle", "writing", "committed"} \cup Answers]
        BY <1>1 DEF Arrive, PublishTypeOK, Answers
    <2>4. sent' \in [Request -> Envelope \cup {None}] /\ base' \in [Request -> Nat]
        BY <1>1 DEF Arrive, PublishTypeOK
    <2> QED
        BY <2>1, <2>2, <2>3, <2>4, <1>1, ArriveTells DEF PublishTypeOK
<1>2. ASSUME NEW r \in Request, Write(r) PROVE PublishTypeOK'
    <2>1. sent[r] \in Envelope /\ ~Malformed(sent[r])
        BY <1>2 DEF Write, Flow
    <2>2. next' \in [Request -> 1 .. Done]
        <3>1. FirstFrom(sent[r], next[r] + 1) \in 1 .. Done
            <4>1. next[r] + 1 \in 1 .. Done
                <5>1. next[r] \in 1 .. 9
                    BY <1>2, WriteTells
                <5> QED
                    BY <5>1, StatementsAre
            <4> QED
                BY <4>1, NextStatement, StatementsAre
        <3> QED
            BY <3>1, <1>2 DEF Write, PublishTypeOK
    <2>3. tx' \in [Request -> [nodes : SUBSET Nodes, edges : SUBSET (Nodes \X Nodes)]]
        <3> DEFINE s == Statements[next[r]]
                   written == tx[r].nodes \cup Merged(r)
                   new == Joined(nodes \cup written, Links(sent[r], s), sent[r].def)
        <3>1. tx' = [tx EXCEPT ![r] = [nodes |-> written, edges |-> @.edges \cup new]]
            BY <1>2 DEF Write, Merged
        <3>2. written \subseteq Nodes
            BY <2>1, MergedTyped DEF PublishTypeOK
        <3>3. new \subseteq Nodes \X Nodes
            <4>1. nodes \cup written \subseteq Nodes
                BY <3>2 DEF PublishTypeOK
            <4>2. new \subseteq (nodes \cup written) \X (nodes \cup written)
                BY JoinedTyped
            <4> QED
                BY <4>1, <4>2
        <3> HIDE DEF written, new
        <3> QED
            BY <3>1, <3>2, <3>3 DEF PublishTypeOK
    <2>4. UNCHANGED <<nodes, edges, writer, pc, sent, stamp, stale, commits, base, faults, Arrived>>
        BY <1>2 DEF Write, Arrived
    <2> QED
        BY <2>2, <2>3, <2>4 DEF PublishTypeOK
<1>3. ASSUME NEW r \in Request, Commit(r) PROVE PublishTypeOK'
    <2>1. nodes' \subseteq Nodes
        BY <1>3 DEF Commit, PublishTypeOK
    <2>2. edges' \subseteq nodes' \X nodes'
        <3>1. tx[r].edges \subseteq Seen(r) \X Seen(r)
            <4>1. \A x \in tx[r].edges : \E l : x \in Joined(Seen(r), {l}, sent[r].def)
                BY <1>3, CommitTells DEF Written, WrittenOf
            <4> QED
                BY <4>1, JoinedTyped
        <3>2. nodes' = Seen(r) /\ edges' = edges \cup tx[r].edges /\ nodes \subseteq Seen(r)
            BY <1>3, CommitTells DEF Seen
        <3>3. edges \subseteq nodes \X nodes
            BY DEF PublishTypeOK
        <3> QED
            BY <3>1, <3>2, <3>3
    <2>3. writer' \in [nodes' -> Request]
        <3>1. writer' = [n \in nodes' |-> IF n \in tx[r].nodes THEN r ELSE writer[n]]
            BY <1>3 DEF Commit
        <3>2. \A n \in nodes' : n \notin tx[r].nodes => writer[n] \in Request
            BY ZenonT(60), <1>3, CommitTells DEF PublishTypeOK
        <3> QED
            BY <3>1, <3>2
    <2>4. tx' \in [Request -> [nodes : SUBSET Nodes, edges : SUBSET (Nodes \X Nodes)]]
        <3>1. NoWrites \in [nodes : SUBSET Nodes, edges : SUBSET (Nodes \X Nodes)]
            BY DEF NoWrites
        <3> QED
            BY <3>1, <1>3 DEF Commit, PublishTypeOK
    <2>5. commits' \in Seq(Request)
        BY <1>3 DEF Commit, PublishTypeOK
    <2>6. pc' \in [Request -> {"idle", "writing", "committed"} \cup Answers]
        BY <1>3 DEF Commit, PublishTypeOK
    <2>7. UNCHANGED <<next, sent, stamp, stale, base, faults, Arrived>>
        BY <1>3 DEF Commit, Arrived
    <2> QED
        BY <2>1, <2>2, <2>3, <2>4, <2>5, <2>6, <2>7 DEF PublishTypeOK
<1>4. ASSUME NEW r \in Request, Answer(r) PROVE PublishTypeOK'
    <2>1. Known(r) \ AllCgIds(sent[r]) \subseteq Key
        <3> SUFFICES ASSUME NEW n \in nodes, n.label \in CgLabels PROVE n.key \in Key
            BY DEF Known
        <3>1. PICK i \in DOMAIN commits : n.key \in Rows(sent[commits[i]], n.label)
            BY DEF NodesSound, Brought
        <3>2. sent[commits[i]] \in Envelope /\ n.label # "Behavior"
            BY DEF Flow, CgLabels
        <3> QED
            BY <3>1, <3>2, RowKeys
    <2>2. UNCHANGED Arrived
        BY <1>4 DEF Answer, Arrived
    <2> QED
        BY <1>4, <2>1, <2>2 DEF Answer, PublishTypeOK, Answers
<1>5. ASSUME NEW r \in Request, AnswerLost(r) PROVE PublishTypeOK'
    <2>1. UNCHANGED Arrived
        BY <1>5 DEF AnswerLost, Arrived
    <2>2. faults' \in 0 .. MaxFaults
        BY <1>0, <1>5 DEF AnswerLost
    <2> QED
        BY <1>5, <2>1, <2>2 DEF AnswerLost, PublishTypeOK, Answers
<1>6. ASSUME NEW r \in Request, NEW retried \in BOOLEAN, Abort(r, retried) PROVE PublishTypeOK'
    <2>1. UNCHANGED <<nodes, edges, writer, sent, stamp, stale, commits, Arrived>>
        BY <1>6 DEF Abort, Arrived
    <2>2. faults' \in 0 .. MaxFaults
        BY <1>0, <1>6 DEF Abort
    <2>3. next' \in [Request -> 1 .. Done]
        <3>1. FirstFrom(sent[r], 1) \in 1 .. Done
            BY NextStatement, StatementsAre
        <3> QED
            BY <3>1, <1>6 DEF Abort, PublishTypeOK
    <2>4. tx' \in [Request -> [nodes : SUBSET Nodes, edges : SUBSET (Nodes \X Nodes)]]
        <3>1. NoWrites \in [nodes : SUBSET Nodes, edges : SUBSET (Nodes \X Nodes)]
            BY DEF NoWrites
        <3> QED
            BY <3>1, <1>6 DEF Abort, PublishTypeOK
    <2>5. base' \in [Request -> Nat]
        <3>1. Len(commits) \in Nat
            BY DEF PublishTypeOK
        <3> QED
            BY <3>1, <1>6 DEF Abort, PublishTypeOK
    <2>6. pc' \in [Request -> {"idle", "writing", "committed"} \cup Answers]
        BY <1>6 DEF Abort, PublishTypeOK, Answers
    <2> QED
        BY <2>1, <2>2, <2>3, <2>4, <2>5, <2>6 DEF PublishTypeOK
<1>7. CASE Rests
    <2>1. UNCHANGED Arrived
        BY <1>7 DEF Rests, Arrived
    <2> QED
        BY <1>7, <2>1 DEF Rests, PublishTypeOK
<1> QED
    BY <1>1, <1>2, <1>3, <1>4, <1>5, <1>6, <1>7, StepsArePublishes

------------------------------------------------------------------------------
(* Requests go their way.                                                     *)
LEMMA NextFlow == PublishInv /\ [Next]_vars => Flow'
<1> SUFFICES ASSUME PublishTypeOK, Flow, [Next]_vars PROVE Flow'
    BY DEF PublishInv
<1>0. Len(commits) \in Nat /\ base \in [Request -> Nat]
    BY DEF PublishTypeOK
<1>1. ASSUME NEW r \in Request, NEW e \in Envelope, Arrive(r, e) PROVE Flow'
    <2>1. IsFiniteSet(Arrived')
        BY <1>1, ArrivedGrows
    <2>2. \A i \in DOMAIN commits : commits[i] \in Request \ {r}
        <3>1. \A i \in DOMAIN commits : commits[i] \in Request /\ pc[commits[i]] # "idle"
            BY SeqElement DEF Flow, PublishTypeOK
        <3> QED
            BY <1>1, <3>1, ArriveTells
    <2>3. \A i \in DOMAIN commits' :
              pc'[commits'[i]] = pc[commits[i]] /\ sent'[commits'[i]] = sent[commits[i]]
        BY <1>1, <2>2, ArriveTells
    <2>4. \A q \in Request :
              /\ pc'[q] = "idle" => sent'[q] = None
              /\ pc'[q] \in {"writing", "committed", "published"} =>
                    sent'[q] \in Envelope /\ ~Malformed(sent'[q])
              /\ pc'[q] # "writing" => tx'[q] = NoWrites
              /\ pc'[q] \in {"committed", "published"} => \E i \in DOMAIN commits' : commits'[i] = q
              /\ base'[q] <= Len(commits')
        <3> TAKE q \in Request
        <3>1. CASE q = r
            BY <3>1, <1>0, <1>1, ArriveTells DEF Flow
        <3>2. CASE q # r
            BY <3>2, <1>1, ArriveTells DEF Flow
        <3> QED
            BY <3>1, <3>2
    <2> QED
        BY <1>1, <2>1, <2>3, <2>4, ArriveTells DEF Flow
<1>2. ASSUME NEW r \in Request, Write(r) PROVE Flow'
    <2>1. UNCHANGED <<pc, sent, commits, base, Arrived>>
        BY <1>2 DEF Write, Arrived
    <2>2. \A q \in Request : pc[q] # "writing" => tx'[q] = tx[q]
        BY <1>2, WriteTells
    <2> QED
        BY <2>1, <2>2 DEF Flow
<1>3. ASSUME NEW r \in Request, Commit(r) PROVE Flow'
    <2>1. UNCHANGED Arrived
        BY <1>3 DEF Commit, Arrived
    <2>2. \A q \in Request :
              /\ pc'[q] = "idle" => sent'[q] = None
              /\ pc'[q] \in {"writing", "committed", "published"} =>
                    sent'[q] \in Envelope /\ ~Malformed(sent'[q])
              /\ pc'[q] # "writing" => tx'[q] = NoWrites
              /\ pc'[q] \in {"committed", "published"} => \E i \in DOMAIN commits' : commits'[i] = q
              /\ base'[q] <= Len(commits')
        <3> TAKE q \in Request
        <3>1. CASE q = r
            <4>1. base[q] <= Len(commits)
                BY DEF Flow
            <4> QED
                BY <3>1, <4>1, <1>0, <1>3, CommitTells DEF Flow
        <3>2. CASE q # r
            <4>1. base[q] <= Len(commits)
                BY DEF Flow
            <4>2. base'[q] <= Len(commits')
                BY <4>1, <1>0, <1>3, CommitTells
            <4>3. \A i \in DOMAIN commits : i \in DOMAIN commits' /\ commits'[i] = commits[i]
                BY <1>3, CommitTells
            <4> QED
                BY <3>2, <4>2, <4>3, <1>3, CommitTells DEF Flow
        <3> QED
            BY <3>1, <3>2
    <2>3. \A i \in DOMAIN commits' :
              /\ pc'[commits'[i]] \in {"committed", "published", "failed"}
              /\ sent'[commits'[i]] \in Envelope /\ ~Malformed(sent'[commits'[i]])
        <3> TAKE i \in DOMAIN commits'
        <3>1. CASE i \in DOMAIN commits
            <4>1. commits[i] \in Request
                BY <3>1 DEF PublishTypeOK
            <4>2. commits'[i] = commits[i] /\ commits[i] # r
                BY <3>1, <1>3, CommitTells
            <4> QED
                BY <3>1, <4>1, <4>2, <1>3, CommitTells DEF Flow
        <3>2. CASE i \notin DOMAIN commits
            <4>1. commits'[i] = r
                BY <3>2, <1>3, CommitTells
            <4> QED
                BY <4>1, <1>3, CommitTells DEF Flow
        <3> QED
            BY <3>1, <3>2
    <2>4. \A i, j \in DOMAIN commits' : commits'[i] = commits'[j] => i = j
        BY <1>3, CommitTells DEF Flow
    <2> QED
        BY <2>1, <2>2, <2>3, <2>4 DEF Flow
<1>4. ASSUME NEW r \in Request, Answer(r) \/ AnswerLost(r) PROVE Flow'
    <2>1. UNCHANGED <<sent, tx, commits, base, Arrived>>
        BY <1>4, AnswerTells DEF Arrived
    <2>2. \A q \in Request : q # r => pc'[q] = pc[q]
        BY <1>4, AnswerTells
    <2>3. pc[r] = "committed" /\ pc'[r] \in {"published", "failed"}
        BY <1>4, AnswerTells
    <2>4. \A i \in DOMAIN commits : commits[i] \in Request
        BY DEF PublishTypeOK
    <2>5. \A q \in Request :
              /\ pc'[q] = "idle" => sent'[q] = None
              /\ pc'[q] \in {"writing", "committed", "published"} =>
                    sent'[q] \in Envelope /\ ~Malformed(sent'[q])
              /\ pc'[q] # "writing" => tx'[q] = NoWrites
              /\ pc'[q] \in {"committed", "published"} => \E i \in DOMAIN commits' : commits'[i] = q
              /\ base'[q] <= Len(commits')
        BY <2>1, <2>2, <2>3 DEF Flow
    <2>6. \A i \in DOMAIN commits' :
              /\ pc'[commits'[i]] \in {"committed", "published", "failed"}
              /\ sent'[commits'[i]] \in Envelope /\ ~Malformed(sent'[commits'[i]])
        BY <2>1, <2>2, <2>3, <2>4 DEF Flow
    <2> QED
        BY <2>1, <2>5, <2>6 DEF Flow
<1>5. ASSUME NEW r \in Request, NEW retried \in BOOLEAN, Abort(r, retried) PROVE Flow'
    <2>1. UNCHANGED <<sent, commits, Arrived>>
        BY <1>5, AbortTells DEF Arrived
    <2>2. \A i \in DOMAIN commits : commits[i] \in Request \ {r}
        <3>1. \A i \in DOMAIN commits : commits[i] \in Request /\ pc[commits[i]] # "writing"
            BY SeqElement DEF Flow, PublishTypeOK
        <3> QED
            BY <1>5, <3>1, AbortTells
    <2>3. \A q \in Request :
              /\ pc'[q] = "idle" => sent'[q] = None
              /\ pc'[q] \in {"writing", "committed", "published"} =>
                    sent'[q] \in Envelope /\ ~Malformed(sent'[q])
              /\ pc'[q] # "writing" => tx'[q] = NoWrites
              /\ pc'[q] \in {"committed", "published"} => \E i \in DOMAIN commits' : commits'[i] = q
              /\ base'[q] <= Len(commits')
        <3> TAKE q \in Request
        <3>1. CASE q = r
            BY <3>1, <1>0, <1>5, <2>1, AbortTells DEF Flow
        <3>2. CASE q # r
            BY <3>2, <1>5, <2>1, AbortTells DEF Flow
        <3> QED
            BY <3>1, <3>2
    <2>4. \A i \in DOMAIN commits' : pc'[commits'[i]] = pc[commits[i]]
        BY <1>5, <2>1, <2>2, AbortTells
    <2> QED
        BY <2>1, <2>3, <2>4 DEF Flow
<1>6. CASE Rests
    BY <1>6 DEF Rests, Flow, Arrived
<1> QED
    BY <1>1, <1>2, <1>3, <1>4, <1>5, <1>6, StepsArePublishes

------------------------------------------------------------------------------
(* What transactions write.                                                   *)

(* A transaction that begins is past statements without rows.                 *)
LEMMA Blank ==
    \A r \in Request : tx[r] = NoWrites /\ next[r] = FirstFrom(sent[r], 1) =>
        WrittenOf(r) /\ UndisturbedOf(r)
<1> SUFFICES ASSUME NEW r \in Request, tx[r] = NoWrites, next[r] = FirstFrom(sent[r], 1)
             PROVE  WrittenOf(r) /\ UndisturbedOf(r)
    OBVIOUS
<1>1. \A s \in Past(r) : Rows(sent[r], s) = {} /\ Links(sent[r], s) = {}
    BY NextStatement, StatementsAre DEF Past, Skipped
<1>2. tx[r].nodes = {} /\ tx[r].edges = {}
    BY DEF NoWrites
<1>3. \A seen : Joined(seen, {}, sent[r].def) = {}
    BY DEF Joined
<1> QED
    BY <1>1, <1>2, <1>3 DEF WrittenOf, UndisturbedOf

(* A transaction that rests keeps what it has.                                *)
LEMMA StillWritten ==
    ASSUME NEW q \in Request, WrittenOf(q), nodes \subseteq nodes',
           pc'[q] = pc[q], tx'[q] = tx[q], next'[q] = next[q], sent'[q] = sent[q]
    PROVE  WrittenOf(q)'
<1> SUFFICES ASSUME pc[q] = "writing" PROVE WrittenOf(q)'
    BY DEF WrittenOf
<1>1. Past(q)' = Past(q)
    BY DEF Past
<1>2. Seen(q) \subseteq Seen(q)'
    BY DEF Seen
<1>3. \A l, x : x \in Joined(Seen(q), {l}, sent[q].def) => x \in Joined(Seen(q)', {l}, sent[q].def)
    <2> SUFFICES ASSUME NEW l, NEW x, x \in Joined(Seen(q), {l}, sent[q].def)
                 PROVE  x \in Joined(Seen(q)', {l}, sent[q].def)
        OBVIOUS
    <2> QED
        BY <1>2, JoinedGrows
<1>4. \A n \in tx[q].nodes :
          /\ n.label \in Past(q) /\ n.def = sent[q].def /\ n.key \in Rows(sent[q], n.label)
          /\ n \in nodes' \/ n.by = q
    BY DEF WrittenOf
<1>5. \A x \in tx[q].edges : \E s \in Past(q) : \E l \in Links(sent[q], s) :
          x \in Joined(Seen(q)', {l}, sent[q].def)
    BY <1>3 DEF WrittenOf
<1>6. /\ \A s \in Past(q) : \A key \in Rows(sent[q], s) :
            Matching(tx[q].nodes, s, key, sent[q].def) # {}
      /\ \A s \in Past(q) : Joined(tx[q].nodes, Links(sent[q], s), sent[q].def) \subseteq tx[q].edges
    BY DEF WrittenOf
<1> QED
    BY <1>1, <1>4, <1>5, <1>6 DEF WrittenOf, Matching, Joined

(* The statements a write leaves behind.                                      *)
LEMMA PastGrows ==
    ASSUME NEW r \in Request, Write(r), PublishTypeOK
    PROVE  /\ Past(r)' \subseteq ToSet(Statements)
           /\ Past(r) \cup {Statements[next[r]]} \subseteq Past(r)'
           /\ \A s \in Past(r)' : \/ s \in Past(r) \/ s = Statements[next[r]]
                                  \/ Rows(sent[r], s) = {} /\ Links(sent[r], s) = {}
           /\ Statements[next[r]] \notin Past(r)
<1> DEFINE k == next[r]
           m == next'[r]
<1>1. k \in 1 .. 9 /\ m = FirstFrom(sent[r], k + 1)
    BY WriteTells
<1>2. k + 1 \in 1 .. Done /\ Done = 10
    BY <1>1, StatementsAre
<1>3. m \in k + 1 .. 10 /\ \A j \in k + 1 .. m - 1 : Skipped(sent[r], Statements[j])
    BY <1>1, <1>2, NextStatement
<1>4. Past(r)' = {Statements[j] : j \in 1 .. m - 1} /\ Past(r) = {Statements[j] : j \in 1 .. k - 1}
    BY StatementsAre DEF Past
<1> HIDE DEF k, m
<1>5. Past(r)' \subseteq ToSet(Statements)
    BY <1>1, <1>3, <1>4, StatementsAre DEF ToSet
<1>6. Past(r) \cup {Statements[k]} \subseteq Past(r)'
    BY <1>1, <1>3, <1>4
<1>7. ASSUME NEW s \in Past(r)'
      PROVE  \/ s \in Past(r) \/ s = Statements[k]
             \/ Rows(sent[r], s) = {} /\ Links(sent[r], s) = {}
    <2>1. PICK j \in 1 .. m - 1 : s = Statements[j]
        BY <1>4
    <2>2. j \in 1 .. k - 1 \/ j = k \/ j \in k + 1 .. m - 1
        BY <1>1, <1>3
    <2> QED
        BY <1>3, <1>4, <2>1, <2>2 DEF Skipped
<1>8. Statements[k] \notin Past(r)
    BY <1>1, <1>4, StatementsDiffer
<1> QED
    BY <1>5, <1>6, <1>7, <1>8 DEF k

(* What earlier statements link is not what a later one merges.               *)
LEMMA LinksArePast ==
    ASSUME NEW r \in Request, PublishTypeOK, NEW s \in Past(r), NEW l \in Links(sent[r], s)
    PROVE  l[1][1] \in Past(r) /\ l[2][1] \in Past(r)
<1>1. next[r] \in 1 .. 10
    BY StatementsAre DEF PublishTypeOK
<1>2. PICK k \in 1 .. next[r] - 1 : s = Statements[k]
    BY DEF Past
<1>3. k \in 1 .. 9
    BY <1>1, <1>2
<1>4. /\ \E i \in 1 .. k : l[1][1] = Statements[i]
      /\ \E i \in 1 .. k : l[2][1] = Statements[i]
    BY <1>2, <1>3, LinksLookBack
<1> QED
    BY <1>1, <1>2, <1>4 DEF Past

(* A write adds what its statement says.                                      *)
LEMMA WriteWrites ==
    ASSUME NEW r \in Request, Write(r), PublishTypeOK, WrittenOf(r)
    PROVE  WrittenOf(r)'
<1> DEFINE e == sent[r]
           s0 == Statements[next[r]]
           new == Joined(nodes \cup tx[r].nodes \cup Merged(r), Links(e, s0), e.def)
           mine == tx[r].nodes \cup Merged(r)
<1>0. /\ pc[r] = "writing" /\ UNCHANGED <<nodes, pc, sent>>
      /\ tx'[r].nodes = tx[r].nodes \cup Merged(r) /\ tx'[r].edges = tx[r].edges \cup new
    BY WriteTells
<1>1. Seen(r)' = nodes \cup tx[r].nodes \cup Merged(r) /\ Seen(r) \subseteq Seen(r)'
    BY <1>0 DEF Seen
<1>2. ASSUME NEW n \in tx'[r].nodes
      PROVE  /\ n.label \in Past(r)' /\ n.def = e.def /\ n.key \in Rows(e, n.label)
             /\ n \in nodes \/ n.by = r
    <2>1. CASE n \in tx[r].nodes
        BY <2>1, <1>0, PastGrows DEF WrittenOf
    <2>2. CASE n \in Merged(r)
        <3>1. n.label = s0 /\ n.def = e.def /\ n.key \in Rows(e, s0)
            BY <2>2, MergedTells
        <3>2. n \in Seen(r) \/ n.by = r
            BY <2>2, MergedTells
        <3>3. n \in nodes \/ n.by = r
            BY <3>2, <1>0 DEF Seen, WrittenOf
        <3> QED
            BY <3>1, <3>3, PastGrows
    <2> QED
        BY <1>0, <2>1, <2>2
<1>3. ASSUME NEW s \in Past(r)', NEW key \in Rows(e, s)
      PROVE  Matching(tx'[r].nodes, s, key, e.def) # {}
    <2>1. CASE s \in Past(r)
        <3>1. Matching(tx[r].nodes, s, key, e.def) # {}
            BY <2>1, <1>0 DEF WrittenOf
        <3> QED
            BY <3>1, <1>0 DEF Matching
    <2>2. CASE s = s0
        <3>1. Matching(Merged(r), s, key, e.def) # {}
            BY <2>2, MergedTells
        <3> QED
            BY <3>1, <1>0 DEF Matching
    <2> QED
        BY <2>1, <2>2, PastGrows
<1>4. ASSUME NEW s \in Past(r)', NEW x \in Joined(mine, Links(e, s), e.def)
      PROVE  x \in tx[r].edges \cup new
    <2>1. PICK l \in Links(e, s) : x \in Joined(mine, {l}, e.def)
        BY JoinedByLinks
    <2>2. PICK a, b \in mine :
              /\ x = <<a, b>> /\ a.def = e.def /\ b.def = e.def
              /\ a.label = l[1][1] /\ a.key = l[1][2]
              /\ b.label = l[2][1] /\ b.key = l[2][2]
        <3> HIDE DEF mine, e
        <3> QED
            BY <2>1, JoinedByLink
    <2>3. CASE s \in Past(r)
        <3>1. a.label \in Past(r) /\ b.label \in Past(r)
            BY <2>2, <2>3, LinksArePast
        <3>2. a \in tx[r].nodes /\ b \in tx[r].nodes
            BY <3>1, <1>0, MergedTells, PastGrows
        <3>3. x \in Joined(tx[r].nodes, {l}, e.def)
            BY <2>2, <3>2, JoinedByLink
        <3>4. x \in Joined(tx[r].nodes, Links(e, s), e.def)
            BY <3>3, JoinedByLinks
        <3> QED
            BY <2>3, <3>4, <1>0 DEF WrittenOf
    <2>4. CASE s = s0
        <3>1. x \in Joined(Seen(r)', {l}, e.def)
            BY <2>2, <1>0, <1>1, JoinedByLink
        <3>2. x \in Joined(Seen(r)', Links(e, s), e.def)
            BY <3>1, JoinedByLinks
        <3> QED
            BY <2>4, <3>2, <1>0, <1>1
    <2> QED
        BY <2>3, <2>4, PastGrows, <1>4
<1>5. ASSUME NEW x \in tx'[r].edges
      PROVE  \E s \in Past(r)' : \E l \in Links(e, s) : x \in Joined(Seen(r)', {l}, e.def)
    <2>1. CASE x \in tx[r].edges
        <3>1. PICK s \in Past(r) : \E l \in Links(e, s) : x \in Joined(Seen(r), {l}, e.def)
            BY <2>1, <1>0 DEF WrittenOf
        <3>2. PICK l \in Links(e, s) : x \in Joined(Seen(r), {l}, e.def)
            BY <3>1
        <3>3. x \in Joined(Seen(r)', {l}, e.def)
            BY <3>2, <1>1, JoinedByLink
        <3> QED
            BY <3>3, PastGrows
    <2>2. CASE x \in new
        <3>1. \E l \in Links(e, s0) : x \in Joined(Seen(r)', {l}, e.def)
            BY <2>2, <1>1, JoinedByLinks
        <3> QED
            BY <3>1, PastGrows
    <2> QED
        BY <1>0, <2>1, <2>2
<1> QED
    BY <1>0, <1>2, <1>3, <1>4, <1>5 DEF WrittenOf

(* Every step keeps what a transaction wrote to what it should have.          *)
LEMMA NextWritten == PublishInv /\ [Next]_vars => Written'
<1> SUFFICES ASSUME PublishTypeOK, Flow, Written, [Next]_vars, NEW q \in Request PROVE WrittenOf(q)'
    BY DEF PublishInv, Written
<1>0. WrittenOf(q)
    BY DEF Written
<1>b. (\A r \in Request : tx[r] = NoWrites /\ next[r] = FirstFrom(sent[r], 1) =>
          WrittenOf(r) /\ UndisturbedOf(r))'
    BY Blank, PTL
<1>1. ASSUME NEW r \in Request, NEW e \in Envelope, Arrive(r, e) PROVE WrittenOf(q)'
    <2>1. CASE q = r
        BY <1>1, <1>b, <2>1, ArriveTells DEF Flow
    <2>2. CASE q # r
        BY <1>0, <1>1, <2>2, ArriveTells, StillWritten
    <2> QED
        BY <2>1, <2>2
<1>2. ASSUME NEW r \in Request, Write(r) PROVE WrittenOf(q)'
    <2>1. CASE q = r
        BY <1>0, <1>2, <2>1, WriteWrites
    <2>2. CASE q # r
        BY <1>0, <1>2, <2>2, WriteTells, StillWritten
    <2> QED
        BY <2>1, <2>2
<1>3. ASSUME NEW r \in Request, Commit(r) PROVE WrittenOf(q)'
    <2>1. CASE q = r
        BY <1>3, <2>1, CommitTells DEF WrittenOf
    <2>2. CASE q # r
        BY <1>0, <1>3, <2>2, CommitTells, StillWritten
    <2> QED
        BY <2>1, <2>2
<1>4. ASSUME NEW r \in Request, Answer(r) \/ AnswerLost(r) PROVE WrittenOf(q)'
    <2>1. CASE q = r
        BY <1>4, <2>1, AnswerTells DEF WrittenOf
    <2>2. CASE q # r
        BY <1>0, <1>4, <2>2, AnswerTells, StillWritten
    <2> QED
        BY <2>1, <2>2
<1>5. ASSUME NEW r \in Request, NEW retried \in BOOLEAN, Abort(r, retried) PROVE WrittenOf(q)'
    <2>1. CASE q = r
        BY <1>5, <1>b, <2>1, AbortTells
    <2>2. CASE q # r
        BY <1>0, <1>5, <2>2, AbortTells, StillWritten
    <2> QED
        BY <2>1, <2>2
<1>6. CASE Rests
    BY <1>0, <1>6, StillWritten DEF Rests
<1> QED
    BY <1>1, <1>2, <1>3, <1>4, <1>5, <1>6, StepsArePublishes

------------------------------------------------------------------------------
(* Transactions that nothing of their definition overlapped.                  *)

(* A transaction that rests while nothing commits keeps what it has.          *)
LEMMA StillUndisturbed ==
    ASSUME NEW q \in Request, UndisturbedOf(q), nodes' = nodes, Alone(q)' => Alone(q),
           pc'[q] = pc[q], tx'[q] = tx[q], next'[q] = next[q], sent'[q] = sent[q]
    PROVE  UndisturbedOf(q)'
<1>1. Past(q)' = Past(q) /\ Seen(q)' = Seen(q)
    BY DEF Past, Seen
<1> QED
    BY <1>1 DEF UndisturbedOf, Matching, Joined

(* A write sees all that its definition holds.                                *)
LEMMA WriteUndisturbed ==
    ASSUME NEW r \in Request, Write(r), PublishTypeOK, WrittenOf(r), UndisturbedOf(r)
    PROVE  UndisturbedOf(r)'
<1> DEFINE e == sent[r]
           s0 == Statements[next[r]]
           all == nodes \cup tx[r].nodes \cup Merged(r)
           new == Joined(all, Links(e, s0), e.def)
<1>0. /\ pc[r] = "writing" /\ UNCHANGED <<nodes, pc, sent, commits, base>>
      /\ tx'[r].nodes = tx[r].nodes \cup Merged(r) /\ tx'[r].edges = tx[r].edges \cup new
    BY WriteTells
<1>1. Seen(r)' = all /\ Seen(r) = nodes \cup tx[r].nodes
    BY <1>0 DEF Seen
<1>2. Alone(r)' = Alone(r)
    BY <1>0 DEF Alone
<1> SUFFICES ASSUME Alone(r) PROVE UndisturbedOf(r)'
    BY <1>2 DEF UndisturbedOf
<1>3. ASSUME NEW n \in tx[r].nodes \cup Merged(r), n \notin nodes
      PROVE  Matching(nodes, n.label, n.key, n.def) = {}
    <2>1. CASE n \in tx[r].nodes
        BY <1>0, <1>3, <2>1 DEF UndisturbedOf
    <2>2. CASE n \notin tx[r].nodes
        <3>1. Matching(Seen(r), n.label, n.key, n.def) = {}
            BY <1>1, <1>3, <2>2, MergedTells
        <3> QED
            BY <1>1, <3>1 DEF Matching
    <2> QED
        BY <2>1, <2>2
<1>4. ASSUME NEW s \in Past(r)', NEW x \in Joined(all, Links(e, s), e.def)
      PROVE  x \in tx[r].edges \cup new
    <2>1. PICK l \in Links(e, s) : x \in Joined(all, {l}, e.def)
        BY <1>4, JoinedByLinks
    <2>2. PICK a, b \in all :
              /\ x = <<a, b>> /\ a.def = e.def /\ b.def = e.def
              /\ a.label = l[1][1] /\ a.key = l[1][2]
              /\ b.label = l[2][1] /\ b.key = l[2][2]
        BY SMTT(30), <2>1, JoinedByLink
    <2>3. CASE s \in Past(r)
        <3>1. a.label \in Past(r) /\ b.label \in Past(r)
            BY <2>2, <2>3, LinksArePast
        <3>2. a \in Seen(r) /\ b \in Seen(r)
            BY <3>1, <1>1, MergedTells, PastGrows
        <3>3. x \in Joined(Seen(r), {l}, e.def)
            BY <2>2, <3>2, JoinedByLink
        <3>4. x \in Joined(Seen(r), Links(e, s), e.def)
            BY <3>3, JoinedByLinks
        <3> QED
            BY <2>3, <3>4, <1>0 DEF UndisturbedOf
    <2>4. CASE s = s0
        BY <2>4, <1>4
    <2> QED
        BY <2>3, <2>4, PastGrows, <1>4
<1> QED
    BY <1>0, <1>1, <1>3, <1>4 DEF UndisturbedOf

(* A commit of another definition brings nothing that it looks for.           *)
LEMMA CommitUndisturbed ==
    ASSUME NEW r \in Request, Commit(r), PublishTypeOK, Flow, WrittenOf(r),
           NEW q \in Request, q # r, WrittenOf(q), UndisturbedOf(q)
    PROVE  UndisturbedOf(q)'
<1>0. /\ UNCHANGED <<sent, base, next>> /\ tx'[q] = tx[q] /\ pc'[q] = pc[q]
      /\ nodes' = nodes \cup tx[r].nodes
    BY CommitTells
<1> SUFFICES ASSUME pc[q] = "writing", Alone(q)' PROVE UndisturbedOf(q)'
    BY <1>0 DEF UndisturbedOf
<1>1. Alone(q)
    BY CommitTells DEF Alone
<1>2. sent[r].def # sent[q].def
    <2>1. base[q] \in Nat /\ base[q] <= Len(commits)
        BY DEF PublishTypeOK, Flow
    <2>2. /\ Len(commits) + 1 \in DOMAIN commits' /\ commits'[Len(commits) + 1] = r
          /\ Len(commits) \in Nat
        BY CommitTells
    <2>3. sent[r].def = sent[q].def => Len(commits) + 1 <= base[q]
        BY <1>0, <2>2 DEF Alone
    <2> QED
        BY <2>1, <2>2, <2>3
<1>3. \A n \in tx[r].nodes : n.def # sent[q].def
    BY <1>2, CommitTells DEF WrittenOf
<1>4. Past(q)' = Past(q)
    BY <1>0 DEF Past
<1>5. \A label, key : Matching(nodes', label, key, sent[q].def) =
                          Matching(nodes, label, key, sent[q].def)
    BY <1>0, <1>3 DEF Matching
<1>6. \A links : Joined(Seen(q)', links, sent[q].def) = Joined(Seen(q), links, sent[q].def)
    <2>1. Seen(q)' = Seen(q) \cup tx[r].nodes
        BY <1>0 DEF Seen
    <2>2. \A label, key : Matching(Seen(q)', label, key, sent[q].def) =
                              Matching(Seen(q), label, key, sent[q].def)
        BY <1>3, <2>1 DEF Matching
    <2> QED
        BY <2>2 DEF Joined
<1>7. \A n \in tx[q].nodes \ nodes' : Matching(nodes', n.label, n.key, n.def) = {}
    <2> TAKE n \in tx[q].nodes \ nodes'
    <2>1. n.def = sent[q].def /\ n \in tx[q].nodes \ nodes
        BY <1>0 DEF WrittenOf
    <2> QED
        BY <1>1, <1>5, <2>1 DEF UndisturbedOf
<1>8. \A s \in Past(q) : Joined(Seen(q)', Links(sent[q], s), sent[q].def) \subseteq tx[q].edges
    BY <1>1, <1>6 DEF UndisturbedOf
<1> QED
    BY <1>0, <1>4, <1>7, <1>8 DEF UndisturbedOf

(* Every step keeps an undisturbed transaction free of duplicates.            *)
LEMMA NextUndisturbed == PublishInv /\ [Next]_vars => Undisturbed'
<1> SUFFICES ASSUME PublishTypeOK, Flow, Written, Undisturbed, [Next]_vars, NEW q \in Request
             PROVE  UndisturbedOf(q)'
    BY DEF PublishInv, Undisturbed
<1>0. WrittenOf(q) /\ UndisturbedOf(q)
    BY DEF Written, Undisturbed
<1>b. (\A r \in Request : tx[r] = NoWrites /\ next[r] = FirstFrom(sent[r], 1) =>
          WrittenOf(r) /\ UndisturbedOf(r))'
    BY Blank, PTL
<1>c. \A i \in DOMAIN commits : commits[i] \in Request /\ pc[commits[i]] \notin {"idle", "writing"}
    BY SeqElement DEF Flow, PublishTypeOK
<1>1. ASSUME NEW r \in Request, NEW e \in Envelope, Arrive(r, e) PROVE UndisturbedOf(q)'
    <2>1. CASE q = r
        BY <1>1, <1>b, <2>1, ArriveTells DEF Flow
    <2>2. CASE q # r
        <3>1. Alone(q)' = Alone(q)
            BY <1>1, <1>c, <2>2, ArriveTells DEF Alone
        <3> QED
            BY <1>0, <1>1, <2>2, <3>1, ArriveTells, StillUndisturbed
    <2> QED
        BY <2>1, <2>2
<1>2. ASSUME NEW r \in Request, Write(r) PROVE UndisturbedOf(q)'
    <2>1. CASE q = r
        BY <1>0, <1>2, <2>1, WriteUndisturbed
    <2>2. CASE q # r
        <3>1. Alone(q)' = Alone(q)
            BY <1>2, WriteTells DEF Alone
        <3> QED
            BY <1>0, <1>2, <2>2, <3>1, WriteTells, StillUndisturbed
    <2> QED
        BY <2>1, <2>2
<1>3. ASSUME NEW r \in Request, Commit(r) PROVE UndisturbedOf(q)'
    <2>1. CASE q = r
        BY <1>3, <2>1, CommitTells DEF UndisturbedOf
    <2>2. CASE q # r
        BY <1>0, <1>3, <2>2, CommitUndisturbed DEF Written
    <2> QED
        BY <2>1, <2>2
<1>4. ASSUME NEW r \in Request, Answer(r) \/ AnswerLost(r) PROVE UndisturbedOf(q)'
    <2>1. CASE q = r
        BY <1>4, <2>1, AnswerTells DEF UndisturbedOf
    <2>2. CASE q # r
        <3>1. Alone(q)' = Alone(q)
            BY <1>4, AnswerTells DEF Alone
        <3> QED
            BY <1>0, <1>4, <2>2, <3>1, AnswerTells, StillUndisturbed
    <2> QED
        BY <2>1, <2>2
<1>5. ASSUME NEW r \in Request, NEW retried \in BOOLEAN, Abort(r, retried) PROVE UndisturbedOf(q)'
    <2>1. CASE q = r
        BY <1>5, <1>b, <2>1, AbortTells
    <2>2. CASE q # r
        <3>1. Alone(q)' = Alone(q)
            BY <1>5, <2>2, AbortTells DEF Alone
        <3> QED
            BY <1>0, <1>5, <2>2, <3>1, AbortTells, StillUndisturbed
    <2> QED
        BY <2>1, <2>2
<1>6. CASE Rests
    <2>1. Alone(q)' = Alone(q)
        BY <1>6 DEF Alone, Rests
    <2> QED
        BY <1>0, <1>6, <2>1, StillUndisturbed DEF Rests
<1> QED
    BY <1>1, <1>2, <1>3, <1>4, <1>5, <1>6, StepsArePublishes

------------------------------------------------------------------------------
(* The graph.                                                                 *)

(* An entity's row comes with the row and the link of what holds it.          *)
LEMMA RowsAreOwned ==
    ASSUME NEW e \in Envelope, NEW label \in DOMAIN Owner, NEW key \in Rows(e, label)
    PROVE  \E k \in Rows(e, Owner[label]) : Link(Owner[label], k, label, key) \in Links(e, label)
<1>1. label \in {"Behavior", "Procedure", "Pattern", "Parameter", "Interface"}
    BY DEF Owner, Labels
<1>2. Owner[label] = IF label = "Behavior" THEN "Object" ELSE IF label = "Procedure" THEN "Algorithm"
                     ELSE "Procedure"
    BY DEF Owner
<1>3. CASE label = "Behavior"
    <2>1. e.object # None /\ key = TheBehavior
        BY <1>3, RowsAre
    <2>2. e.object \in Rows(e, "Object")
        BY <2>1, RowsAre
    <2>3. Link("Object", e.object, "Behavior", TheBehavior) \in Links(e, "Behavior")
        BY <2>1, LinksAre
    <2> QED
        BY <1>2, <1>3, <2>1, <2>2, <2>3
<1>4. CASE label = "Procedure"
    <2>1. PICK p \in ToSet(e.procs) : key = p.id
        BY <1>4, RowsAre, EnvelopeShape
    <2>2. p.alg \in Rows(e, "Algorithm")
        BY RowsAre, EnvelopeShape
    <2>3. Link("Algorithm", p.alg, "Procedure", p.id) \in Links(e, "Procedure")
        BY LinksAre
    <2> QED
        BY <1>2, <1>4, <2>1, <2>2, <2>3
<1>5. CASE label = "Pattern"
    <2>1. PICK p \in e.patterns : key = p.id
        BY <1>5, RowsAre
    <2>2. p.proc \in Rows(e, "Procedure")
        BY RowsAre, EnvelopeShape
    <2>3. Link("Procedure", p.proc, "Pattern", p.id) \in Links(e, "Pattern")
        BY LinksAre
    <2> QED
        BY <1>2, <1>5, <2>1, <2>2, <2>3
<1>6. CASE label = "Parameter"
    <2>1. PICK p \in ToSet(e.params) : key = p.id
        BY <1>6, RowsAre, EnvelopeShape
    <2>2. p.proc \in Rows(e, "Procedure")
        BY RowsAre, EnvelopeShape
    <2>3. Link("Procedure", p.proc, "Parameter", p.id) \in Links(e, "Parameter")
        BY LinksAre
    <2> QED
        BY <1>2, <1>6, <2>1, <2>2, <2>3
<1>7. CASE label = "Interface"
    <2>1. PICK p \in ToSet(e.ifaces) : key = p.id
        BY <1>7, RowsAre, EnvelopeShape
    <2>2. p.proc \in Rows(e, "Procedure")
        BY RowsAre, EnvelopeShape
    <2>3. Link("Procedure", p.proc, "Interface", p.id) \in Links(e, "Interface")
        BY LinksAre
    <2> QED
        BY <1>2, <1>7, <2>1, <2>2, <2>3
<1> QED
    BY <1>1, <1>3, <1>4, <1>5, <1>6, <1>7

(* The cgIds of an envelope are the keys of its rows.                         *)
LEMMA CgIdsAreRows ==
    ASSUME NEW e, e \in Envelope, NEW id
    PROVE  id \in AllCgIds(e) <=> \E label \in CgLabels : id \in Rows(e, label)
<1>1. CgLabels = {"Object", "Procedure", "Pattern", "Parameter", "Interface"}
    BY DEF CgLabels, Labels
<1> QED
    BY <1>1, RowsAre DEF AllCgIds

(* A transaction that commits is past all its statements.                     *)
LEMMA PastAll ==
    ASSUME NEW r \in Request, next[r] = Done
    PROVE  Past(r) = ToSet(Statements)
<1>1. Past(r) = {Statements[k] : k \in 1 .. 9}
    BY StatementsAre DEF Past
<1> QED
    BY <1>1, StatementsAre DEF ToSet

(* Two nodes that one request created for a key are one.                      *)
LEMMA SameNode ==
    ASSUME NEW x \in Nodes, NEW y \in Nodes, x.label = y.label, x.key = y.key, x.def = y.def,
           x.by = y.by
    PROVE  x = y
BY DEF Nodes

(* The graph is what it was while what it holds and what was sent stay.       *)
LEMMA StillGraph ==
    ASSUME GraphInv, UNCHANGED <<nodes, edges, writer, commits>>,
           \A i \in DOMAIN commits :
               sent'[commits[i]] = sent[commits[i]] /\ base'[commits[i]] = base[commits[i]]
    PROVE  GraphInv'
<1> USE DEF GraphInv
<1>1. \A i, d : CommitOf(i, d)' = CommitOf(i, d)
    BY DEF CommitOf
<1>2. \A i, d, label, key : Brought(i, d, label, key)' = Brought(i, d, label, key)
    BY <1>1 DEF Brought, CommitOf
<1>3. NodesComplete'
    BY DEF NodesComplete, Matching
<1>4. NodesSound'
    BY <1>2 DEF NodesSound
<1>5. EdgesSound'
    BY <1>1, <1>2 DEF EdgesSound
<1>6. Owned'
    BY DEF Owned
<1>7. Exact'
    <2> SUFFICES ASSUME NEW d \in Key PROVE ExactOf(d)'
        BY DEF Exact
    <2>1. ExactOf(d)
        BY DEF Exact
    <2>2. InSeries(d)' = InSeries(d)
        BY <1>1 DEF InSeries, CommitOf
    <2> QED
        BY <1>1, <1>2, <2>1, <2>2 DEF ExactOf, CommitOf, Joined, Matching
<1> QED
    BY <1>3, <1>4, <1>5, <1>6, <1>7

(* What a commit adds to the history.                                         *)
LEMMA CommitAdds ==
    ASSUME NEW r \in Request, Commit(r), PublishTypeOK, Flow, NEW d, NEW C, C = Len(commits) + 1
    PROVE  /\ \A i \in DOMAIN commits : CommitOf(i, d)' <=> CommitOf(i, d)
           /\ CommitOf(C, d)' <=> sent[r].def = d
           /\ \A i \in DOMAIN commits : \A label, key :
                 Brought(i, d, label, key)' <=> Brought(i, d, label, key)
           /\ \A label, key : Brought(C, d, label, key)'
                 <=> sent[r].def = d /\ key \in Rows(sent[r], label)
<1>1. /\ sent' = sent /\ C \in DOMAIN commits' /\ commits'[C] = r
      /\ \A i \in DOMAIN commits : i \in DOMAIN commits' /\ commits'[i] = commits[i]
    BY CommitTells
<1>2. \A i \in DOMAIN commits : CommitOf(i, d)' <=> CommitOf(i, d)
    BY <1>1 DEF CommitOf
<1>3. CommitOf(C, d)' <=> sent[r].def = d
    BY <1>1 DEF CommitOf
<1>4. \A i \in DOMAIN commits : \A label, key :
          Brought(i, d, label, key)' <=> Brought(i, d, label, key)
    BY <1>1 DEF CommitOf, Brought
<1>5. \A label, key : Brought(C, d, label, key)'
          <=> sent[r].def = d /\ key \in Rows(sent[r], label)
    BY <1>1 DEF CommitOf, Brought
<1> QED
    BY <1>2, <1>3, <1>4, <1>5

(* The graph stays complete and sound.                                        *)
LEMMA CommitSound ==
    ASSUME NEW r \in Request, Commit(r), PublishTypeOK, Flow, WrittenOf(r),
           NodesComplete, NodesSound, EdgesSound, Owned
    PROVE  NodesComplete' /\ NodesSound' /\ EdgesSound' /\ Owned'
<1> DEFINE e == sent[r]
<1>0. PICK C : C = Len(commits) + 1
    OBVIOUS
<1>1. /\ DOMAIN commits' = 1 .. C /\ DOMAIN commits = 1 .. C - 1 /\ C \in Nat
      /\ C \in DOMAIN commits' /\ commits'[C] = r
      /\ \A i \in DOMAIN commits' : i \in DOMAIN commits \/ i = C
      /\ \A i \in DOMAIN commits : i \in DOMAIN commits' /\ commits'[i] = commits[i]
    BY <1>0, CommitTells
<1>2. /\ nodes' = nodes \cup tx[r].nodes /\ edges' = edges \cup tx[r].edges
      /\ \A n \in nodes' : writer'[n] = IF n \in tx[r].nodes THEN r ELSE writer[n]
      /\ sent' = sent /\ pc[r] = "writing" /\ next[r] = Done
    BY CommitTells
<1>3. Past(r) = ToSet(Statements) /\ Labels \subseteq Past(r)
    BY <1>2, PastAll, StatementsDiffer
<1>4. sent[r] \in Envelope
    BY <1>2 DEF Flow
<1>5. \A n \in tx[r].nodes : n.def = e.def /\ n.key \in Rows(e, n.label)
    BY <1>2 DEF WrittenOf
<1>6. \A label \in Labels : \A key \in Rows(e, label) : Matching(tx[r].nodes, label, key, e.def) # {}
    BY <1>2, <1>3 DEF WrittenOf
<1> HIDE DEF e
<1>7. NodesComplete'
    <2> SUFFICES ASSUME NEW i \in DOMAIN commits', NEW label \in Labels,
                        NEW key \in Rows(sent[commits'[i]], label)
                 PROVE  Matching(nodes', label, key, sent[commits'[i]].def) # {}
        BY <1>2 DEF NodesComplete
    <2>1. CASE i \in DOMAIN commits
        <3>1. Matching(nodes, label, key, sent[commits'[i]].def) # {}
            BY <2>1, <1>1 DEF NodesComplete
        <3> QED
            BY <3>1, <1>2 DEF Matching
    <2>2. CASE i = C
        <3>1. Matching(tx[r].nodes, label, key, sent[commits'[i]].def) # {}
            BY <2>2, <1>1, <1>6 DEF e
        <3> QED
            BY <3>1, <1>2 DEF Matching
    <2> QED
        BY <1>1, <2>1, <2>2
<1>8. NodesSound'
    <2> SUFFICES ASSUME NEW n \in nodes'
                 PROVE  \E i \in DOMAIN commits' :
                            writer'[n] = commits'[i] /\ Brought(i, n.def, n.label, n.key)'
        BY DEF NodesSound
    <2>1. CASE n \in tx[r].nodes
        <3>1. Brought(C, n.def, n.label, n.key)'
            BY <2>1, <1>5, <1>0, CommitAdds DEF e
        <3> QED
            BY <3>1, <2>1, <1>1, <1>2
    <2>2. CASE n \notin tx[r].nodes
        <3>1. PICK i \in DOMAIN commits : writer[n] = commits[i] /\ Brought(i, n.def, n.label, n.key)
            BY <2>2, <1>2 DEF NodesSound
        <3>2. Brought(i, n.def, n.label, n.key)'
            BY <3>1, CommitAdds, <1>0
        <3> QED
            BY <3>1, <3>2, <2>2, <1>1, <1>2
    <2> QED
        BY <2>1, <2>2
<1>9. EdgesSound'
    <2> SUFFICES ASSUME NEW x \in edges'
                 PROVE  /\ x[1] \in nodes' /\ x[2] \in nodes' /\ x[1].def = x[2].def
                        /\ \E i \in DOMAIN commits' :
                              /\ CommitOf(i, x[1].def)'
                              /\ \E s \in ToSet(Statements) :
                                    Link(x[1].label, x[1].key, x[2].label, x[2].key)
                                        \in Links(sent[commits'[i]], s)
                              /\ \E j \in 1 .. i : Brought(j, x[1].def, x[1].label, x[1].key)'
        BY <1>2 DEF EdgesSound
    <2>1. CASE x \in edges
        <3>1. x[1] \in nodes' /\ x[2] \in nodes' /\ x[1].def = x[2].def
            BY <2>1, <1>2 DEF EdgesSound
        <3>2. PICK i \in DOMAIN commits :
                  /\ CommitOf(i, x[1].def)
                  /\ \E s \in ToSet(Statements) :
                        Link(x[1].label, x[1].key, x[2].label, x[2].key)
                            \in Links(sent[commits[i]], s)
                  /\ \E j \in 1 .. i : Brought(j, x[1].def, x[1].label, x[1].key)
            BY <2>1 DEF EdgesSound
        <3>3. CommitOf(i, x[1].def)'
            BY <3>2, CommitAdds, <1>0
        <3>4. \E j \in 1 .. i : Brought(j, x[1].def, x[1].label, x[1].key)'
            <4>1. PICK j \in 1 .. i : Brought(j, x[1].def, x[1].label, x[1].key)
                BY <3>2
            <4>2. j \in DOMAIN commits
                BY <4>1 DEF Brought, CommitOf
            <4> QED
                BY <4>1, <4>2, CommitAdds, <1>0
        <3> QED
            BY <3>1, <3>2, <3>3, <3>4, <1>1
    <2>2. CASE x \in tx[r].edges
        <3>0. PICK s \in ToSet(Statements) : \E l \in Links(e, s) : x \in Joined(Seen(r), {l}, e.def)
            BY <2>2, <1>2, <1>3 DEF WrittenOf, e
        <3>1. PICK l \in Links(e, s) : x \in Joined(Seen(r), {l}, e.def)
            BY <3>0
        <3>2. PICK a, b \in Seen(r) :
                  /\ x = <<a, b>> /\ a.def = e.def /\ b.def = e.def
                  /\ a.label = l[1][1] /\ a.key = l[1][2]
                  /\ b.label = l[2][1] /\ b.key = l[2][2]
            BY <3>1, JoinedByLink
        <3>3. x[1] = a /\ x[2] = b
            BY <3>2
        <3>4. a \in nodes' /\ b \in nodes'
            BY <1>2, <3>2 DEF Seen
        <3>5. Link(a.label, a.key, b.label, b.key) = l
            BY <3>2, LinkTells
        <3>6. CommitOf(C, a.def)'
            BY <3>2, <1>0, CommitAdds DEF e
        <3>7. \E j \in 1 .. C : Brought(j, a.def, a.label, a.key)'
            <4>1. PICK j \in DOMAIN commits' : Brought(j, a.def, a.label, a.key)'
                BY <1>8, <3>4 DEF NodesSound
            <4> QED
                BY <4>1, <1>1
        <3> QED
            BY <1>1, <3>1, <3>2, <3>3, <3>4, <3>5, <3>6, <3>7 DEF e
    <2> QED
        BY <1>2, <2>1, <2>2
<1>10. Owned'
    <2> SUFFICES ASSUME NEW n \in nodes'
                 PROVE  /\ n.label \in DOMAIN Owner =>
                              \E x \in edges' : x[2] = n /\ x[1].label = Owner[n.label]
                        /\ n.label = "Object" => \E x \in edges' : x[1] = n /\ x[2].label = "Behavior"
        BY DEF Owned
    <2>1. CASE n \in nodes
        BY <2>1, <1>2 DEF Owned
    <2>2. CASE n \in tx[r].nodes
        <3>1. ASSUME n.label \in DOMAIN Owner
              PROVE  \E x \in edges' : x[2] = n /\ x[1].label = Owner[n.label]
            <4>1. PICK k \in Rows(e, Owner[n.label]) :
                      Link(Owner[n.label], k, n.label, n.key) \in Links(e, n.label)
                BY <2>2, <3>1, <1>4, <1>5, RowsAreOwned DEF e
            <4>2. Owner[n.label] \in Labels /\ n.label \in Labels
                BY <3>1 DEF Owner, Labels
            <4>3. PICK a \in tx[r].nodes : a.label = Owner[n.label] /\ a.key = k /\ a.def = e.def
                BY <4>2, <1>6 DEF Matching
            <4> DEFINE l == Link(Owner[n.label], k, n.label, n.key)
            <4>0. /\ l[1][1] = Owner[n.label] /\ l[1][2] = k
                  /\ l[2][1] = n.label /\ l[2][2] = n.key
                BY LinkIs
            <4> HIDE DEF l
            <4>4. <<a, n>> \in Joined(tx[r].nodes, {l}, e.def)
                BY <4>0, <4>3, <2>2, <1>5, JoinedByLink
            <4>5. <<a, n>> \in Joined(tx[r].nodes, Links(e, n.label), e.def)
                BY <4>1, <4>4, JoinedByLinks DEF l
            <4>6. <<a, n>> \in edges'
                BY <4>2, <4>5, <1>2, <1>3 DEF WrittenOf, e
            <4> QED
                BY <4>3, <4>6
        <3>2. ASSUME n.label = "Object"
              PROVE  \E x \in edges' : x[1] = n /\ x[2].label = "Behavior"
            <4>1. n.key = e.object /\ e.object # None
                BY <2>2, <3>2, <1>5, RowsAre
            <4>2. TheBehavior \in Rows(e, "Behavior") /\ "Behavior" \in Labels
                BY <4>1, RowsAre DEF Labels
            <4>3. PICK b \in tx[r].nodes : b.label = "Behavior" /\ b.key = TheBehavior /\ b.def = e.def
                BY <4>2, <1>6 DEF Matching
            <4> DEFINE l == Link("Object", e.object, "Behavior", TheBehavior)
            <4>4. l \in Links(e, "Behavior")
                BY <4>1, LinksAre
            <4>5. <<n, b>> \in Joined(tx[r].nodes, {l}, e.def)
                BY <4>1, <4>3, <2>2, <3>2, <1>5, JoinedByLink, LinkIs
            <4>6. <<n, b>> \in Joined(tx[r].nodes, Links(e, "Behavior"), e.def)
                BY <4>4, <4>5, JoinedByLinks
            <4>7. <<n, b>> \in edges'
                BY <4>2, <4>6, <1>2, <1>3 DEF WrittenOf, e
            <4> QED
                BY <4>3, <4>7
        <3> QED
            BY <3>1, <3>2
    <2> QED
        BY <1>2, <2>1, <2>2
<1> QED
    BY <1>7, <1>8, <1>9, <1>10

(* A key has one node, which the last commit that has a row for it set.       *)
LEMMA CommitExact ==
    ASSUME NEW r \in Request, Commit(r), PublishTypeOK, Flow, WrittenOf(r), UndisturbedOf(r),
           NodesComplete, NodesSound, NodesComplete', NEW d \in Key, ExactOf(d)
    PROVE  ExactOf(d)'
<1> DEFINE e == sent[r]
<1>0. PICK C : C = Len(commits) + 1
    OBVIOUS
<1>1. /\ DOMAIN commits' = 1 .. C /\ DOMAIN commits = 1 .. C - 1 /\ C \in Nat
      /\ C \in DOMAIN commits' /\ commits'[C] = r
      /\ \A i \in DOMAIN commits' : i \in DOMAIN commits \/ i = C
      /\ \A i \in DOMAIN commits : i \in DOMAIN commits' /\ commits'[i] = commits[i]
    BY <1>0, CommitTells
<1>2. /\ nodes' = nodes \cup tx[r].nodes /\ edges' = edges \cup tx[r].edges
      /\ \A n \in nodes' : writer'[n] = IF n \in tx[r].nodes THEN r ELSE writer[n]
      /\ sent' = sent /\ base' = base /\ pc[r] = "writing" /\ next[r] = Done
    BY CommitTells
<1>3. Past(r) = ToSet(Statements) /\ Labels \subseteq Past(r)
    BY <1>2, PastAll, StatementsDiffer
<1>4. /\ \A i \in DOMAIN commits : CommitOf(i, d)' <=> CommitOf(i, d)
      /\ \A i \in DOMAIN commits : \A label, key :
            Brought(i, d, label, key)' <=> Brought(i, d, label, key)
      /\ CommitOf(C, d)' <=> e.def = d
      /\ \A label, key : Brought(C, d, label, key)' <=> e.def = d /\ key \in Rows(e, label)
    BY <1>0, CommitAdds
<1>5. \A n \in tx[r].nodes : /\ n.def = e.def /\ n.key \in Rows(e, n.label)
                              /\ (n \in nodes \/ n.by = r)
    BY <1>2 DEF WrittenOf
<1>6. \A label \in Labels : \A key \in Rows(e, label) : Matching(tx[r].nodes, label, key, e.def) # {}
    BY <1>2, <1>3 DEF WrittenOf
<1>7. \A i : CommitOf(i, d) => i \in DOMAIN commits
    BY DEF CommitOf
<1>8. nodes \subseteq Nodes /\ tx[r].nodes \subseteq Nodes
    BY DEF PublishTypeOK
<1> HIDE DEF e
<1> SUFFICES ASSUME InSeries(d)' PROVE ExactOf(d)'
    BY DEF ExactOf
<1>9. InSeries(d)
    <2>1. ASSUME NEW i \in DOMAIN commits, NEW j \in DOMAIN commits,
                 CommitOf(i, d), CommitOf(j, d), j < i
          PROVE  j <= base[commits[i]]
        <3>1. CommitOf(i, d)' /\ CommitOf(j, d)'
            BY <2>1, <1>4
        <3>2. i \in DOMAIN commits' /\ j \in DOMAIN commits' /\ commits'[i] = commits[i]
            BY <1>1
        <3> QED
            BY <3>1, <3>2, <2>1, <1>2 DEF InSeries
    <2> QED
        BY <2>1 DEF InSeries
<1>10. CASE e.def # d
    <2>1. \A n \in nodes' : n.def = d => n \in nodes /\ n \notin tx[r].nodes
        BY <1>2, <1>5, <1>10
    <2>2. \A x, y \in nodes' :
              x.def = d /\ y.def = d /\ x.label = y.label /\ x.key = y.key => x = y
        BY <2>1, <1>9 DEF ExactOf
    <2>3. \A i : CommitOf(i, d)' => i \in DOMAIN commits /\ CommitOf(i, d)
        BY <1>1, <1>4, <1>10 DEF CommitOf
    <2>4. ASSUME NEW n \in nodes', NEW i \in DOMAIN commits', n.def = d,
                 Brought(i, d, n.label, n.key)'
          PROVE  \E j \in DOMAIN commits' : writer'[n] = commits'[j] /\ i <= j
        <3>1. i \in DOMAIN commits /\ Brought(i, d, n.label, n.key)
            BY <2>4, <1>1, <1>4, <1>10
        <3>2. n \in nodes /\ writer'[n] = writer[n]
            BY <2>1, <2>4, <1>2
        <3>3. PICK j \in DOMAIN commits : writer[n] = commits[j] /\ i <= j
            BY <3>1, <3>2, <2>4, <1>9 DEF ExactOf
        <3> QED
            BY <3>2, <3>3, <1>1
    <2>5. ASSUME NEW i \in DOMAIN commits', NEW s \in ToSet(Statements), CommitOf(i, d)',
                 NEW l, l \in Links(sent[commits'[i]], s),
                 \E j \in 1 .. i : Brought(j, d, l[1][1], l[1][2])',
                 \E j \in 1 .. i : Brought(j, d, l[2][1], l[2][2])'
          PROVE  Joined(nodes', {l}, d) \cap edges' # {}
        <3>1. i \in DOMAIN commits /\ CommitOf(i, d) /\ commits'[i] = commits[i]
            BY <2>3, <2>5, <1>1
        <3>2. \A j \in 1 .. i : j \in DOMAIN commits
            BY <3>1, <1>1
        <3>3. /\ \E j \in 1 .. i : Brought(j, d, l[1][1], l[1][2])
              /\ \E j \in 1 .. i : Brought(j, d, l[2][1], l[2][2])
            BY <3>2, <2>5, <1>4
        <3>4. Joined(nodes, {l}, d) \cap edges # {}
            BY <3>1, <3>3, <2>5, <1>9 DEF ExactOf
        <3>5. Joined(nodes, {l}, d) \subseteq Joined(nodes', {l}, d)
            BY <1>2, JoinedGrows
        <3> QED
            BY <3>4, <3>5, <1>2
    <2> QED
        BY <2>2, <2>4, <2>5, <1>2 DEF ExactOf
<1>11. CASE e.def = d
    <2>1. Alone(r)
        <3> SUFFICES ASSUME NEW i \in DOMAIN commits, sent[commits[i]].def = d PROVE i <= base[r]
            BY <1>11 DEF Alone, e
        <3>1. CommitOf(i, d)' /\ CommitOf(C, d)'
            BY <1>4, <1>11 DEF CommitOf
        <3>2. i \in DOMAIN commits' /\ i < C
            BY <1>1
        <3> QED
            BY <3>1, <3>2, <1>1, <1>2 DEF InSeries
    <2>2. /\ \A n \in tx[r].nodes \ nodes : Matching(nodes, n.label, n.key, n.def) = {}
          /\ \A s \in ToSet(Statements) : Joined(Seen(r), Links(e, s), e.def) \subseteq tx[r].edges
        BY <2>1, <1>2, <1>3 DEF UndisturbedOf, e
    <2>3. ASSUME NEW x \in nodes', NEW y \in nodes', x.def = d, y.def = d, x.label = y.label,
                 x.key = y.key
          PROVE  x = y
        <3>1. CASE x \in nodes /\ y \in nodes
            BY <2>3, <3>1, <1>9 DEF ExactOf
        <3>2. CASE x \in nodes /\ y \notin nodes
            <4>1. Matching(nodes, y.label, y.key, y.def) = {}
                BY <3>2, <2>2, <1>2
            <4> QED
                BY <4>1, <3>2, <2>3 DEF Matching
        <3>3. CASE x \notin nodes /\ y \in nodes
            <4>1. Matching(nodes, x.label, x.key, x.def) = {}
                BY <3>3, <2>2, <1>2
            <4> QED
                BY <4>1, <3>3, <2>3 DEF Matching
        <3>4. CASE x \notin nodes /\ y \notin nodes
            <4>1. x.by = r /\ y.by = r /\ x \in Nodes /\ y \in Nodes
                BY <3>4, <1>2, <1>5, <1>8
            <4> QED
                BY <4>1, <2>3, SameNode
        <3> QED
            BY <3>1, <3>2, <3>3, <3>4
    <2>4. ASSUME NEW n \in nodes', NEW i \in DOMAIN commits', n.def = d,
                 Brought(i, d, n.label, n.key)'
          PROVE  \E j \in DOMAIN commits' : writer'[n] = commits'[j] /\ i <= j
        <3>1. CASE n \in tx[r].nodes
            <4>1. writer'[n] = commits'[C] /\ i <= C
                BY <3>1, <1>1, <1>2
            <4> QED
                BY <4>1, <1>1
        <3>2. CASE n \notin tx[r].nodes
            <4>1. n \in nodes /\ writer'[n] = writer[n]
                BY <3>2, <1>2
            <4>2. i # C
                <5> SUFFICES ASSUME i = C PROVE FALSE
                    OBVIOUS
                <5>1. n.key \in Rows(e, n.label) /\ n.label \in Labels
                    BY <2>4, <4>1, <1>4, <1>8 DEF Nodes
                <5>2. PICK m \in tx[r].nodes : m.label = n.label /\ m.key = n.key /\ m.def = d
                    BY <5>1, <1>6, <1>11 DEF Matching
                <5> QED
                    BY <5>2, <2>3, <2>4, <3>2, <1>2
            <4>3. i \in DOMAIN commits /\ Brought(i, d, n.label, n.key)
                BY <4>2, <2>4, <1>1, <1>4
            <4>4. PICK j \in DOMAIN commits : writer[n] = commits[j] /\ i <= j
                BY <4>1, <4>3, <2>4, <1>9 DEF ExactOf
            <4> QED
                BY <4>1, <4>4, <1>1
        <3> QED
            BY <3>1, <3>2
    <2>5. ASSUME NEW i \in DOMAIN commits', NEW s \in ToSet(Statements), CommitOf(i, d)',
                 NEW l, l \in Links(sent[commits'[i]], s),
                 \E j \in 1 .. i : Brought(j, d, l[1][1], l[1][2])',
                 \E j \in 1 .. i : Brought(j, d, l[2][1], l[2][2])'
          PROVE  Joined(nodes', {l}, d) \cap edges' # {}
        <3>1. CASE i \in DOMAIN commits
            <4>1. CommitOf(i, d) /\ commits'[i] = commits[i]
                BY <3>1, <2>5, <1>1, <1>4
            <4>2. \A j \in 1 .. i : j \in DOMAIN commits
                BY <3>1, <1>1
            <4>3. /\ \E j \in 1 .. i : Brought(j, d, l[1][1], l[1][2])
                  /\ \E j \in 1 .. i : Brought(j, d, l[2][1], l[2][2])
                BY <4>2, <2>5, <1>4
            <4>4. Joined(nodes, {l}, d) \cap edges # {}
                BY <4>1, <4>3, <3>1, <2>5, <1>9 DEF ExactOf
            <4>5. Joined(nodes, {l}, d) \subseteq Joined(nodes', {l}, d)
                BY <1>2, JoinedGrows
            <4> QED
                BY <4>4, <4>5, <1>2
        <3>2. CASE i = C
            <4>1. \A label, key : (\E j \in 1 .. i : Brought(j, d, label, key)')
                      => \E a \in nodes' : a.label = label /\ a.key = key /\ a.def = d
                <5> SUFFICES ASSUME NEW label, NEW key, NEW j \in 1 .. i, Brought(j, d, label, key)'
                             PROVE  \E a \in nodes' : a.label = label /\ a.key = key /\ a.def = d
                    OBVIOUS
                <5>1. /\ j \in DOMAIN commits' /\ sent[commits'[j]].def = d
                      /\ key \in Rows(sent[commits'[j]], label)
                    BY <1>2 DEF Brought, CommitOf
                <5>2. label \in Labels
                    BY <5>1, RowsHaveLabels
                <5>3. Matching(nodes', label, key, d) # {}
                    BY <5>1, <5>2, <1>2 DEF NodesComplete
                <5> QED
                    BY <5>3 DEF Matching
            <4>2. PICK a \in nodes' : a.label = l[1][1] /\ a.key = l[1][2] /\ a.def = d
                BY <4>1, <2>5
            <4>3. PICK b \in nodes' : b.label = l[2][1] /\ b.key = l[2][2] /\ b.def = d
                BY <4>1, <2>5
            <4>4. <<a, b>> \in Joined(nodes', {l}, d)
                BY <4>2, <4>3 DEF Joined, Matching
            <4>5. l \in Links(e, s)
                BY <3>2, <2>5, <1>1 DEF e
            <4>6. <<a, b>> \in Joined(nodes', Links(e, s), d)
                BY <4>4, <4>5, JoinedByLinks
            <4>7. <<a, b>> \in edges'
                BY <4>6, <2>2, <1>2, <1>11 DEF Seen
            <4> QED
                BY <4>4, <4>7
        <3> QED
            BY <3>1, <3>2, <1>1
    <2> QED
        BY <2>3, <2>4, <2>5, <1>2 DEF ExactOf
<1> QED
    BY <1>10, <1>11

(* Every step keeps the committed graph.                                      *)
LEMMA NextGraph == PublishInv /\ [Next]_vars => GraphInv'
<1> SUFFICES ASSUME PublishTypeOK, Flow, Written, Undisturbed, GraphInv, [Next]_vars
             PROVE  GraphInv'
    BY DEF PublishInv
<1>0. \A i \in DOMAIN commits : commits[i] \in Request /\ pc[commits[i]] \notin {"idle", "writing"}
    BY SeqElement DEF Flow, PublishTypeOK
<1>1. ASSUME NEW r \in Request, NEW e \in Envelope, Arrive(r, e) PROVE GraphInv'
    <2>1. \A i \in DOMAIN commits :
              sent'[commits[i]] = sent[commits[i]] /\ base'[commits[i]] = base[commits[i]]
        BY <1>0, <1>1, ArriveTells
    <2> QED
        BY <1>1, <2>1, ArriveTells, StillGraph
<1>2. ASSUME NEW r \in Request, Write(r) PROVE GraphInv'
    BY <1>2, WriteTells, StillGraph
<1>3. ASSUME NEW r \in Request, Commit(r) PROVE GraphInv'
    <2>1. NodesComplete' /\ NodesSound' /\ EdgesSound' /\ Owned'
        BY <1>3, CommitSound DEF GraphInv, Written
    <2>2. ASSUME NEW d \in Key PROVE ExactOf(d)'
        BY <1>3, <2>1, CommitExact DEF GraphInv, Written, Undisturbed, Exact
    <2> QED
        BY <2>1, <2>2 DEF GraphInv, Exact
<1>4. ASSUME NEW r \in Request, Answer(r) \/ AnswerLost(r) PROVE GraphInv'
    BY <1>4, AnswerTells, StillGraph
<1>5. ASSUME NEW r \in Request, NEW retried \in BOOLEAN, Abort(r, retried) PROVE GraphInv'
    <2>1. \A i \in DOMAIN commits :
              sent'[commits[i]] = sent[commits[i]] /\ base'[commits[i]] = base[commits[i]]
        BY <1>0, <1>5, AbortTells
    <2> QED
        BY <1>5, <2>1, AbortTells, StillGraph
<1>6. CASE Rests
    BY <1>6, StillGraph DEF Rests
<1> QED
    BY <1>1, <1>2, <1>3, <1>4, <1>5, <1>6, StepsArePublishes

(* The list of stale entities is read when everything of the definition that  *)
(* committed earlier is in the graph.                                         *)
LEMMA NextStale == PublishInv /\ [Next]_vars => StaleListComplete'
<1> SUFFICES ASSUME PublishTypeOK, Flow, NodesComplete, StaleListComplete, [Next]_vars,
                    NEW q \in Request, pc'[q] = "published"
             PROVE  /\ stale'[q] \cap AllCgIds(sent'[q]) = {}
                    /\ \A i, j \in DOMAIN commits' :
                          commits'[j] = q /\ i < j /\ sent'[commits'[i]].def = sent'[q].def
                              => AllCgIds(sent'[commits'[i]]) \subseteq stale'[q] \cup AllCgIds(sent'[q])
    BY DEF PublishInv, GraphInv, StaleListComplete
<1>0. \A i \in DOMAIN commits : commits[i] \in Request /\ pc[commits[i]] \notin {"idle", "writing"}
    BY SeqElement DEF Flow, PublishTypeOK
<1>c. pc[q] = "published" =>
          /\ stale[q] \cap AllCgIds(sent[q]) = {}
          /\ \A i, j \in DOMAIN commits :
                commits[j] = q /\ i < j /\ sent[commits[i]].def = sent[q].def
                    => AllCgIds(sent[commits[i]]) \subseteq stale[q] \cup AllCgIds(sent[q])
    BY DEF StaleListComplete
<1> DEFINE Goal == /\ stale'[q] \cap AllCgIds(sent'[q]) = {}
                   /\ \A i, j \in DOMAIN commits' :
                         commits'[j] = q /\ i < j /\ sent'[commits'[i]].def = sent'[q].def
                             => AllCgIds(sent'[commits'[i]]) \subseteq stale'[q] \cup AllCgIds(sent'[q])
<1>1. ASSUME NEW r \in Request, NEW e \in Envelope, Arrive(r, e) PROVE Goal
    <2>1. q # r /\ pc[q] = "published" /\ sent'[q] = sent[q] /\ UNCHANGED <<commits, stale>>
        BY <1>1, ArriveTells
    <2>2. \A i \in DOMAIN commits : sent'[commits[i]] = sent[commits[i]]
        BY <1>0, <1>1, ArriveTells
    <2> QED
        BY <1>c, <2>1, <2>2
<1>2. ASSUME NEW r \in Request, Write(r) PROVE Goal
    BY <1>c, <1>2, WriteTells
<1>3. ASSUME NEW r \in Request, Commit(r) PROVE Goal
    <2>1. q # r /\ pc[q] = "published" /\ UNCHANGED <<sent, stale>>
        BY <1>3, CommitTells
    <2>2. PICK C \in Nat : C = Len(commits) + 1
        BY <1>3, CommitTells
    <2>3. /\ \A i \in DOMAIN commits' : i \in DOMAIN commits \/ i = C
          /\ \A i \in DOMAIN commits : commits'[i] = commits[i] /\ i < C
          /\ commits'[C] = r /\ DOMAIN commits' \subseteq Nat
        BY <1>3, <2>2, CommitTells
    <2>4. ASSUME NEW i \in DOMAIN commits', NEW j \in DOMAIN commits', commits'[j] = q, i < j
          PROVE  /\ i \in DOMAIN commits /\ j \in DOMAIN commits
                 /\ commits'[i] = commits[i] /\ commits'[j] = commits[j]
        <3>1. j \in DOMAIN commits
            BY <2>1, <2>3, <2>4
        <3>2. i # C
            BY <3>1, <2>2, <2>3, <2>4
        <3> QED
            BY <3>1, <3>2, <2>3
    <2> QED
        BY <1>c, <2>1, <2>4
<1>4. ASSUME NEW r \in Request, Answer(r) \/ AnswerLost(r) PROVE Goal
    <2>1. UNCHANGED <<nodes, sent, commits>>
        BY <1>4, AnswerTells
    <2>2. CASE q # r
        BY <1>c, <1>4, <2>1, <2>2, AnswerTells
    <2>3. CASE q = r
        <3>1. stale'[q] = Known(q) \ AllCgIds(sent[q])
            BY <1>4, <2>3, AnswerTells
        <3>2. ASSUME NEW i \in DOMAIN commits, sent[commits[i]].def = sent[q].def,
                     NEW id \in AllCgIds(sent[commits[i]])
              PROVE  id \in Known(q)
            <4>1. sent[commits[i]] \in Envelope
                BY DEF Flow
            <4>2. PICK label \in CgLabels : id \in Rows(sent[commits[i]], label)
                BY <4>1, CgIdsAreRows
            <4>3. label \in Labels
                BY DEF CgLabels
            <4>4. Matching(nodes, label, id, sent[q].def) # {}
                BY <3>2, <4>2, <4>3 DEF NodesComplete
            <4>5. PICK n \in nodes : n.label = label /\ n.key = id /\ n.def = sent[q].def
                BY <4>4 DEF Matching
            <4> QED
                BY <4>2, <4>5 DEF Known
        <3> QED
            BY <2>1, <3>1, <3>2
    <2> QED
        BY <2>2, <2>3
<1>5. ASSUME NEW r \in Request, NEW retried \in BOOLEAN, Abort(r, retried) PROVE Goal
    <2>1. q # r /\ pc[q] = "published" /\ UNCHANGED <<sent, commits, stale>>
        BY <1>5, AbortTells
    <2> QED
        BY <1>c, <2>1
<1>6. CASE Rests
    BY <1>c, <1>6 DEF Rests
<1> QED
    BY <1>1, <1>2, <1>3, <1>4, <1>5, <1>6, StepsArePublishes

(* Every step keeps the invariant of publishing.                              *)
LEMMA NextPublish == PublishInv /\ [Next]_vars => PublishInv'
BY NextTypes, NextFlow, NextWritten, NextUndisturbed, NextGraph, NextStale DEF PublishInv

(* Publishing keeps its invariant whatever interleaves, fails or is retried.  *)
THEOREM PublishInvariance == Spec => []PublishInv
<1> QED
    BY InitPublish, NextPublish, PTL DEF Spec

(* The listing of stale entities after the transaction and outside it names   *)
(* all that earlier publishes of the definition left (_find_stale_entities).  *)
THEOREM StaleListIsComplete == Spec => []StaleListComplete
BY PublishInvariance, PTL DEF PublishInv

(* A publish is all or nothing, whichever transactions overlap, abort or are  *)
(* retried: every row of a committed envelope has its node, and every node    *)
(* and relationship comes from the rows and links of a committed envelope     *)
(* (publish_from_envelope, one write transaction).                            *)
THEOREM AllOrNothing == Spec => [](NodesComplete /\ NodesSound /\ EdgesSound)
BY PublishInvariance, PTL DEF PublishInv, GraphInv

(* Publishes of a definition that do not overlap leave one node for each key, *)
(* with the properties of the last that sent it, and every link whose ends    *)
(* were known when it was sent, though their rows are merged statement by     *)
(* statement and other definitions' publishes go on (MERGE without a          *)
(* uniqueness constraint).                                                    *)
THEOREM SerialPublishesMerge == Spec => []Exact
BY PublishInvariance, PTL DEF PublishInv, GraphInv

------------------------------------------------------------------------------
(* Publishes take effect one at a time.                                       *)

(* The rows that nodes stand for.                                             *)
RowsIn(S, d) == {<<n.label, n.key>> : n \in {m \in S : m.def = d}}

(* What the rows of an envelope are, and those of a definition's nodes.       *)
LEMMA RowIn ==
    ASSUME NEW e, NEW S, NEW d
    PROVE  /\ \A label, key :
                 <<label, key>> \in Content(e).rows <=> label \in Labels /\ key \in Rows(e, label)
           /\ \A label, key : <<label, key>> \in RowsIn(S, d)
                                 <=> \E n \in S : n.def = d /\ n.label = label /\ n.key = key
           /\ \A row \in Content(e).rows \cup RowsIn(S, d) : \E l, k : row = <<l, k>>
<1>1. Content(e).rows = UNION {{<<l, k>> : k \in Rows(e, l)} : l \in Labels}
    BY DEF Content
<1>2. ASSUME NEW label, NEW key
      PROVE  <<label, key>> \in Content(e).rows <=> label \in Labels /\ key \in Rows(e, label)
    BY <1>1
<1>3. ASSUME NEW row \in Content(e).rows PROVE \E l, k : row = <<l, k>>
    BY <1>1
<1>4. ASSUME NEW label, NEW key
      PROVE  <<label, key>> \in RowsIn(S, d)
                 <=> \E n \in S : n.def = d /\ n.label = label /\ n.key = key
    BY DEF RowsIn
<1>5. ASSUME NEW row \in RowsIn(S, d) PROVE \E l, k : row = <<l, k>>
    BY DEF RowsIn
<1> QED
    BY <1>2, <1>3, <1>4, <1>5

(* A transaction that commits has written the rows of its envelope, however   *)
(* many nodes it found or created for them.                                   *)
LEMMA CommitsItsRows ==
    ASSUME NEW r \in Request, pc[r] = "writing", next[r] = Done, WrittenOf(r), NEW d
    PROVE  RowsIn(tx[r].nodes, d) = IF d = sent[r].def THEN Content(sent[r]).rows ELSE {}
<1>1. Past(r) = ToSet(Statements)
    BY PastAll
<1>2. Labels \subseteq ToSet(Statements)
    BY StatementsAre DEF Labels, ToSet
<1>3. \A n \in tx[r].nodes : n.def = sent[r].def /\ n.key \in Rows(sent[r], n.label)
    BY DEF WrittenOf
<1>4. CASE d # sent[r].def
    BY <1>3, <1>4 DEF RowsIn
<1>5. CASE d = sent[r].def
    <2>1. ASSUME NEW label, NEW key, <<label, key>> \in RowsIn(tx[r].nodes, d)
          PROVE  <<label, key>> \in Content(sent[r]).rows
        <3>1. key \in Rows(sent[r], label)
            BY <1>3, <2>1, RowIn
        <3> QED
            BY <3>1, RowIn, RowsHaveLabels
    <2>2. ASSUME NEW label, NEW key, <<label, key>> \in Content(sent[r]).rows
          PROVE  <<label, key>> \in RowsIn(tx[r].nodes, d)
        <3>1. label \in Past(r) /\ key \in Rows(sent[r], label)
            BY <1>1, <1>2, <2>2, RowIn
        <3>2. Matching(tx[r].nodes, label, key, sent[r].def) # {}
            BY <3>1 DEF WrittenOf
        <3>3. PICK n \in tx[r].nodes : n.label = label /\ n.key = key /\ n.def = sent[r].def
            BY <3>2 DEF Matching
        <3> QED
            BY <1>5, <3>3, RowIn
    <2>3. \A row \in Content(sent[r]).rows \cup RowsIn(tx[r].nodes, d) : \E l, k : row = <<l, k>>
        BY RowIn
    <2> QED
        BY <1>5, <2>1, <2>2, <2>3
<1> QED
    BY <1>4, <1>5

(* What a definition holds under the labels with a cgId, and what of it an    *)
(* envelope has, are the two sides of the stale list.                         *)
LEMMA KnownIsHeld ==
    ASSUME NEW r \in Request, sent[r] \in Envelope, sent[r].def \in Key
    PROVE  /\ Promise!KeysOf(HeldRows[sent[r].def]) = Known(r)
           /\ Promise!KeysOf(Content(sent[r]).rows) = AllCgIds(sent[r])
<1> DEFINE held == RowsIn(nodes, sent[r].def)
           asked == Content(sent[r]).rows
<1>1. ASSUME NEW rows, NEW id, \A row \in rows : \E l, k : row = <<l, k>>
      PROVE  id \in Promise!KeysOf(rows) <=> \E l \in CgLabels : <<l, id>> \in rows
    <2>1. ASSUME id \in Promise!KeysOf(rows) PROVE \E l \in CgLabels : <<l, id>> \in rows
        <3>1. PICK row \in rows : row[1] \in CgLabels /\ row[2] = id
            BY <2>1 DEF Promise!KeysOf
        <3>2. PICK l, k : row = <<l, k>>
            BY <1>1
        <3>3. row[1] = l /\ row[2] = k
            BY <3>2
        <3> QED
            BY <3>1, <3>2, <3>3
    <2>2. ASSUME NEW l \in CgLabels, <<l, id>> \in rows PROVE id \in Promise!KeysOf(rows)
        <3>1. <<l, id>>[1] = l /\ <<l, id>>[2] = id
            OBVIOUS
        <3> QED
            BY <2>2, <3>1 DEF Promise!KeysOf
    <2> QED
        BY <2>1, <2>2
<1>2. HeldRows[sent[r].def] = held
    BY DEF HeldRows, RowsIn
<1>3. /\ \A row \in held : \E l, k : row = <<l, k>>
      /\ \A row \in asked : \E l, k : row = <<l, k>>
    BY RowIn
<1>4. ASSUME NEW id
      PROVE  id \in Known(r) <=> \E l \in CgLabels : <<l, id>> \in held
    <2>1. id \in Known(r)
              <=> \E n \in nodes : n.def = sent[r].def /\ n.label \in CgLabels /\ n.key = id
        BY DEF Known
    <2>2. \A l : <<l, id>> \in held
              <=> \E n \in nodes : n.def = sent[r].def /\ n.label = l /\ n.key = id
        BY RowIn
    <2> HIDE DEF held
    <2> QED
        BY <2>1, <2>2
<1>5. ASSUME NEW id
      PROVE  id \in AllCgIds(sent[r]) <=> \E l \in CgLabels : <<l, id>> \in asked
    <2>1. \A l \in CgLabels : <<l, id>> \in asked <=> id \in Rows(sent[r], l)
        BY RowIn DEF CgLabels
    <2> QED
        BY <2>1, CgIdsAreRows
<1> HIDE DEF held, asked
<1>6. \A id : id \in Promise!KeysOf(held) <=> id \in Known(r)
    BY <1>1, <1>3, <1>4
<1>7. \A id : id \in Promise!KeysOf(asked) <=> id \in AllCgIds(sent[r])
    BY <1>1, <1>3, <1>5
<1>8. Promise!KeysOf(held) = Known(r) /\ Promise!KeysOf(asked) = AllCgIds(sent[r])
    <2>1. \A S, T : (\A id : id \in S <=> id \in T) => S = T
        OBVIOUS
    <2> QED
        BY <1>6, <1>7, <2>1
<1> QED
    BY <1>2, <1>8 DEF asked

(* Before anything arrives nothing is asked and nothing is held.              *)
LEMMA PromiseInit == Init => Promise!Init
<1> SUFFICES ASSUME Init PROVE Promise!Init
    OBVIOUS
<1>1. /\ pc = [r \in Request |-> "idle"] /\ stale = [r \in Request |-> {}] /\ nodes = {}
    BY DEF Init, PublishInit
<1>2. SentRows = [r \in Request |-> None]
    BY <1>1 DEF SentRows
<1>3. HeldRows = [d \in Key |-> {}]
    BY <1>1 DEF HeldRows
<1> QED
    BY <1>1, <1>2, <1>3 DEF Promise!Init

(* What was asked stays with a request once it is accepted.                   *)
LEMMA SentRowsStay ==
    ASSUME sent' = sent,
           \A q \in Request : pc'[q] \in {"idle", "invalid"} <=> pc[q] \in {"idle", "invalid"}
    PROVE  SentRows' = SentRows
BY DEF SentRows

(* Every step is a step of the promise, or none.                              *)
LEMMA PromiseNext ==
    ASSUME PublishInv, [Next]_vars
    PROVE  [Promise!Next]_(Promise!promiseVars)
<1> USE DEF PublishInv
<1> DEFINE Goal == [Promise!Next]_(Promise!promiseVars)
<1>1. ASSUME NEW r \in Request, NEW e \in Envelope, Arrive(r, e) PROVE Goal
    <2>1. /\ pc[r] = "idle"
          /\ pc' = [pc EXCEPT ![r] = IF Malformed(e) THEN "invalid" ELSE "writing"]
          /\ UNCHANGED <<nodes, stale>>
        BY <1>1 DEF Arrive
    <2>2. HeldRows' = HeldRows
        BY <2>1 DEF HeldRows
    <2>3. sent'[r] = e /\ \A q \in Request \ {r} : sent'[q] = sent[q] /\ pc'[q] = pc[q]
        BY <1>1, ArriveTells
    <2>4. CASE Malformed(e)
        <3>1. pc' = [pc EXCEPT ![r] = "invalid"]
            BY <2>1, <2>4
        <3>2. pc'[r] = "invalid"
            BY <3>1 DEF PublishTypeOK
        <3>3. SentRows' = SentRows
            BY <2>1, <2>3, <3>2 DEF SentRows
        <3>4. Promise!Refuse(r)
            BY <2>1, <2>2, <3>1, <3>3 DEF Promise!Refuse
        <3> QED
            BY <3>4 DEF Promise!Next
    <2>5. CASE ~Malformed(e)
        <3>1. pc' = [pc EXCEPT ![r] = "writing"]
            BY <2>1, <2>5
        <3>2. pc'[r] = "writing"
            BY <3>1 DEF PublishTypeOK
        <3>3. SentRows' = [SentRows EXCEPT ![r] = Content(e)]
            BY <2>3, <3>2 DEF SentRows
        <3>4. Promise!Accept(r, Content(e))
            BY <2>1, <2>2, <3>1, <3>3 DEF Promise!Accept
        <3> QED
            BY <2>5, <3>4 DEF Promise!Next
    <2> QED
        BY <2>4, <2>5
<1>2. ASSUME NEW r \in Request, Write(r) PROVE Goal
    <2>1. UNCHANGED <<nodes, pc, sent, stale>>
        BY <1>2 DEF Write
    <2>2. SentRows' = SentRows /\ HeldRows' = HeldRows
        BY <2>1 DEF SentRows, HeldRows
    <2> QED
        BY <2>1, <2>2 DEF Promise!promiseVars
<1>3. ASSUME NEW r \in Request, Commit(r) PROVE Goal
    <2>1. /\ pc[r] = "writing" /\ next[r] = Done /\ pc' = [pc EXCEPT ![r] = "committed"]
          /\ nodes' = nodes \cup tx[r].nodes /\ UNCHANGED <<sent, stale>>
        BY <1>3 DEF Commit
    <2>2. WrittenOf(r)
        BY DEF Written
    <2>3. pc'[r] = "committed" /\ \A q \in Request \ {r} : pc'[q] = pc[q]
        BY <2>1 DEF PublishTypeOK
    <2>4. SentRows' = SentRows
        BY <2>1, <2>3, SentRowsStay
    <2>5. SentRows[r] = Content(sent[r]) /\ SentRows[r].def = sent[r].def
        BY <2>1 DEF SentRows, Content
    <2>6. \A d : RowsIn(nodes', d) = RowsIn(nodes, d) \cup RowsIn(tx[r].nodes, d)
        BY <2>1 DEF RowsIn
    <2>7. HeldRows = [d \in Key |-> RowsIn(nodes, d)] /\ HeldRows' = [d \in Key |-> RowsIn(nodes', d)]
        BY DEF HeldRows, RowsIn
    <2>8. \A d \in Key : RowsIn(nodes', d) =
              IF d = sent[r].def THEN RowsIn(nodes, d) \cup Content(sent[r]).rows
              ELSE RowsIn(nodes, d)
        BY <2>1, <2>2, <2>6, CommitsItsRows
    <2>9. HeldRows' = [HeldRows EXCEPT ![SentRows[r].def] = @ \cup SentRows[r].rows]
        <3> HIDE DEF PublishInv
        <3> QED
            BY <2>5, <2>7, <2>8
    <2>10. Promise!TakeEffect(r)
        BY <2>1, <2>4, <2>9 DEF Promise!TakeEffect
    <2> QED
        BY <2>10 DEF Promise!Next
<1>4. ASSUME NEW r \in Request, Answer(r) PROVE Goal
    <2>1. /\ pc[r] = "committed" /\ pc' = [pc EXCEPT ![r] = "published"]
          /\ stale' = [stale EXCEPT ![r] = Known(r) \ AllCgIds(sent[r])]
          /\ UNCHANGED <<nodes, sent>>
        BY <1>4 DEF Answer
    <2>2. HeldRows' = HeldRows
        BY <2>1 DEF HeldRows
    <2>3. pc'[r] = "published" /\ \A q \in Request \ {r} : pc'[q] = pc[q]
        BY <2>1 DEF PublishTypeOK
    <2>4. SentRows' = SentRows
        BY <2>1, <2>3, SentRowsStay
    <2>5. SentRows[r] = Content(sent[r]) /\ SentRows[r].def = sent[r].def
        BY <2>1 DEF SentRows, Content
    <2>6. sent[r] \in Envelope /\ sent[r].def \in Key
        BY <2>1, EnvelopeShape DEF Flow
    <2>7. Known(r) \ AllCgIds(sent[r])
              = Promise!KeysOf(HeldRows[SentRows[r].def]) \ Promise!KeysOf(SentRows[r].rows)
        BY <2>5, <2>6, KnownIsHeld
    <2>8. Promise!Report(r)
        BY <2>1, <2>2, <2>4, <2>7 DEF Promise!Report
    <2> QED
        BY <2>8 DEF Promise!Next
<1>5. ASSUME NEW r \in Request, AnswerLost(r) PROVE Goal
    <2>1. /\ pc[r] = "committed" /\ pc' = [pc EXCEPT ![r] = "failed"]
          /\ UNCHANGED <<nodes, sent, stale>>
        BY <1>5 DEF AnswerLost
    <2>2. HeldRows' = HeldRows
        BY <2>1 DEF HeldRows
    <2>3. pc'[r] = "failed" /\ \A q \in Request \ {r} : pc'[q] = pc[q]
        BY <2>1 DEF PublishTypeOK
    <2>4. SentRows' = SentRows
        BY <2>1, <2>3, SentRowsStay
    <2>5. Promise!Fail(r)
        BY <2>1, <2>2, <2>4 DEF Promise!Fail
    <2> QED
        BY <2>5 DEF Promise!Next
<1>6. ASSUME NEW r \in Request, NEW retried \in BOOLEAN, Abort(r, retried) PROVE Goal
    <2>1. /\ pc[r] = "writing" /\ pc' = [pc EXCEPT ![r] = IF retried THEN @ ELSE "failed"]
          /\ UNCHANGED <<nodes, sent, stale>>
        BY <1>6 DEF Abort
    <2>2. HeldRows' = HeldRows
        BY <2>1 DEF HeldRows
    <2>3. /\ pc'[r] = IF retried THEN "writing" ELSE "failed"
          /\ \A q \in Request \ {r} : pc'[q] = pc[q]
        BY <1>6, AbortTells
    <2>4. SentRows' = SentRows
        BY <2>1, <2>3, SentRowsStay
    <2>5. CASE retried
        <3>1. pc' = pc
            BY <2>1, <2>5 DEF PublishTypeOK
        <3> QED
            BY <2>1, <2>2, <2>4, <3>1 DEF Promise!promiseVars
    <2>6. CASE ~retried
        <3>1. pc' = [pc EXCEPT ![r] = "failed"]
            BY <2>1, <2>6
        <3>2. Promise!Fail(r)
            BY <2>1, <2>2, <2>4, <3>1 DEF Promise!Fail
        <3> QED
            BY <3>2 DEF Promise!Next
    <2> QED
        BY <2>5, <2>6
<1>7. CASE Rests
    <2>1. UNCHANGED <<nodes, pc, sent, stale>>
        BY <1>7 DEF Rests
    <2>2. SentRows' = SentRows /\ HeldRows' = HeldRows
        BY <2>1 DEF SentRows, HeldRows
    <2> QED
        BY <2>1, <2>2 DEF Promise!promiseVars
<1> QED
    BY <1>1, <1>2, <1>3, <1>4, <1>5, <1>6, <1>7, StepsArePublishes

(* Publishes of any number of sessions, whose statements interleave and whose *)
(* transactions abort and are retried, are seen to take effect one at a time, *)
(* each whole and at once, and what an answer lists as stale is what the      *)
(* definition then held beyond its rows (publish_structure, execute_write,    *)
(* _find_stale_entities).                                                     *)
THEOREM PublishesLinearize == Spec => PublishesAtOnce
<1>1. PublishInv /\ [Next]_vars => [Promise!Next]_(Promise!promiseVars)
    BY PromiseNext
<1> QED
    BY <1>1, PromiseInit, PublishInvariance, PTL DEF Spec, PublishesAtOnce, Promise!Spec

------------------------------------------------------------------------------
(* Reading the graph.                                                         *)

(* What owns what.                                                            *)
LEMMA Owners ==
    /\ DOMAIN Owner = {"Behavior", "Procedure", "Pattern", "Parameter", "Interface"}
    /\ Owner["Behavior"] = "Object" /\ Owner["Procedure"] = "Algorithm"
    /\ Owner["Pattern"] = "Procedure" /\ Owner["Parameter"] = "Procedure"
    /\ Owner["Interface"] = "Procedure"
BY DEF Owner, Labels

(* Every node has its owner, and parameters are those that were let through.  *)
LEMMA GuardsHold == PublishInv => GuardsNeverNeeded
<1> SUFFICES ASSUME PublishTypeOK, Flow, NodesSound, Owned, NEW d \in DefinitionIds
             PROVE  /\ OrphanPatterns(d) = {} /\ ObjectsWithoutBehavior(d) = {}
                    /\ ParametersWithoutDatatype(d) = {}
                    /\ \A n \in Of("Procedure", d) : Into(n, "Algorithm") # {}
                    /\ \A n \in Of("Parameter", d) \cup Of("Interface", d) : Into(n, "Procedure") # {}
    BY DEF PublishInv, GraphInv, GuardsNeverNeeded
<1>1. \A n \in nodes : n.label \in DOMAIN Owner => Into(n, Owner[n.label]) # {}
    BY DEF Owned, Into
<1>2. \A n \in nodes : n.label = "Object" => From(n, "Behavior") # {}
    BY DEF Owned, From
<1>3. \A n \in Of("Pattern", d) \cup Of("Parameter", d) \cup Of("Interface", d) :
          Into(n, "Procedure") # {}
    BY <1>1, Owners DEF Of
<1>4. \A n \in Of("Procedure", d) : Into(n, "Algorithm") # {}
    BY <1>1, Owners DEF Of
<1>5. OrphanPatterns(d) = {}
    BY <1>3 DEF OrphanPatterns
<1>6. ObjectsWithoutBehavior(d) = {}
    BY <1>2 DEF ObjectsWithoutBehavior, Of
<1>7. ASSUME NEW n \in nodes, n.label = "Parameter"
      PROVE  LastRow(sent[writer[n]].params, n.key).typed
    <2> DEFINE e == sent[writer[n]]
    <2>1. PICK k \in DOMAIN commits :
              writer[n] = commits[k] /\ n.key \in Rows(sent[commits[k]], n.label)
        BY DEF NodesSound, Brought
    <2>2. e \in Envelope /\ ~Malformed(e) /\ n.key \in Ids(e.params)
        BY <1>7, <2>1, RowsAre DEF Flow
    <2> HIDE DEF e
    <2>3. e.params \in Seq([id : Key, proc : Key, as : Key, members : SUBSET Key, typed : BOOLEAN])
        BY <2>2, EnvelopeAssumption DEF Envelopes
    <2>4. PICK i \in DOMAIN e.params : LastRow(e.params, n.key) = e.params[i]
        BY <2>2, <2>3, LastRowIs
    <2>5. e.params[i].typed
        BY <2>2 DEF Malformed
    <2> QED
        BY <2>4, <2>5 DEF e
<1>8. ParametersWithoutDatatype(d) = {}
    BY <1>7 DEF ParametersWithoutDatatype, Of
<1> QED
    BY <1>3, <1>4, <1>5, <1>6, <1>8

(* All that is committed is known to the report, and nothing of the           *)
(* definition overlapped.                                                     *)
Settled(d) == PublishInv /\ ended = Len(commits) /\ d \in Key /\ Serial(d)

(* The commits a settled definition knows of are all there are.               *)
LEMMA SettledTells ==
    ASSUME NEW d, Settled(d)
    PROVE  /\ PublishTypeOK /\ Flow /\ GraphInv
           /\ \A i : i \in PublishesOf(d) <=> CommitOf(i, d)
           /\ \A i \in PublishesOf(d) :
                 i \in Nat /\ i \in DOMAIN commits /\ Publish(i) \in Envelope /\ ~Malformed(Publish(i))
           /\ IsFiniteSet(PublishesOf(d))
           /\ InSeries(d)
<1>1. PublishTypeOK /\ Flow /\ GraphInv
    BY DEF Settled, PublishInv
<1>2. DOMAIN commits = 1 .. ended /\ ended \in Nat
    BY <1>1 DEF Settled, PublishTypeOK
<1>3. \A i : i \in PublishesOf(d) <=> CommitOf(i, d)
    BY <1>2 DEF PublishesOf, CommitOf
<1>4. \A i \in PublishesOf(d) :
          i \in Nat /\ i \in DOMAIN commits /\ Publish(i) \in Envelope /\ ~Malformed(Publish(i))
    BY <1>1, <1>2 DEF PublishesOf, Publish, Flow
<1>5. IsFiniteSet(PublishesOf(d))
    <2>1. PublishesOf(d) \subseteq 1 .. ended
        BY DEF PublishesOf
    <2> QED
        BY <1>2, <2>1, FS_Interval, FS_Subset
<1>6. InSeries(d)
    <2> SUFFICES ASSUME NEW i \in DOMAIN commits, NEW j \in DOMAIN commits,
                        CommitOf(i, d), CommitOf(j, d), j < i
                 PROVE  j <= base[commits[i]]
        BY DEF InSeries
    <2> DEFINE S == {0} \cup {k \in PublishesOf(d) : k < i}
    <2>1. i \in PublishesOf(d) /\ j \in S
        BY <1>3
    <2>2. S \subseteq Nat /\ S # {} /\ \A k \in S : k <= i
        BY <1>2, <1>4
    <2>3. i \in Nat /\ j \in Nat
        BY <1>2
    <2> HIDE DEF S
    <2>4. j <= Max(S) /\ Max(S) \in Nat
        BY <2>1, <2>2, <2>3, MaxOf
    <2>5. base[commits[i]] >= Max(S)
        BY <2>1 DEF Settled, Serial, S
    <2>6. base[commits[i]] \in Nat
        BY <1>1, SeqElement DEF PublishTypeOK
    <2> QED
        BY <2>3, <2>4, <2>5, <2>6
<1> QED
    BY <1>1, <1>3, <1>4, <1>5, <1>6

(* The keys of a label are the rows of the envelopes.                         *)
LEMMA KeysTell ==
    ASSUME NEW d, Settled(d), NEW label \in Labels, NEW key
    PROVE  (\E n \in Of(label, d) : n.key = key)
              <=> \E i \in PublishesOf(d) : key \in Rows(Publish(i), label)
<1>1. ASSUME NEW n \in Of(label, d), n.key = key
      PROVE  \E i \in PublishesOf(d) : key \in Rows(Publish(i), label)
    <2>1. PICK i \in DOMAIN commits : Brought(i, d, label, key)
        BY <1>1, SettledTells DEF GraphInv, NodesSound, Of
    <2> QED
        BY <2>1, SettledTells DEF Brought, Publish
<1>2. ASSUME NEW i \in PublishesOf(d), key \in Rows(Publish(i), label)
      PROVE  \E n \in Of(label, d) : n.key = key
    <2>1. i \in DOMAIN commits /\ sent[commits[i]].def = d
        BY SettledTells DEF CommitOf
    <2>2. Matching(nodes, label, key, d) # {}
        BY <1>2, <2>1, SettledTells DEF GraphInv, NodesComplete, Publish
    <2> QED
        BY <2>2 DEF Matching, Of
<1> QED
    BY <1>1, <1>2

(* Then a key has one node of a label.                                        *)
LEMMA OneNode ==
    ASSUME NEW d, Settled(d), NEW label, NEW x \in Of(label, d), NEW y \in Of(label, d),
           x.key = y.key
    PROVE  x = y
BY SettledTells DEF GraphInv, Exact, ExactOf, Settled, Of

(* A relationship is a link of an envelope, whose source was known then.      *)
LEMMA EdgeTells ==
    ASSUME NEW d, Settled(d), NEW x \in edges, x[1].def = d \/ x[2].def = d
    PROVE  /\ x = <<x[1], x[2]>> /\ x[1] \in nodes /\ x[2] \in nodes
           /\ x[1].def = d /\ x[2].def = d
           /\ \E i \in PublishesOf(d) :
                 /\ \E s \in ToSet(Statements) :
                       Link(x[1].label, x[1].key, x[2].label, x[2].key) \in Links(Publish(i), s)
                 /\ \E j \in PublishesOf(d) : j <= i /\ x[1].key \in Rows(Publish(j), x[1].label)
<1>1. x = <<x[1], x[2]>>
    BY SettledTells DEF PublishTypeOK
<1>2. x[1] \in nodes /\ x[2] \in nodes /\ x[1].def = d /\ x[2].def = d
    BY SettledTells DEF GraphInv, EdgesSound
<1>3. PICK i \in DOMAIN commits :
          /\ CommitOf(i, x[1].def)
          /\ \E s \in ToSet(Statements) :
                Link(x[1].label, x[1].key, x[2].label, x[2].key) \in Links(sent[commits[i]], s)
          /\ \E j \in 1 .. i : Brought(j, x[1].def, x[1].label, x[1].key)
    BY SettledTells DEF GraphInv, EdgesSound
<1>4. i \in PublishesOf(d)
    BY <1>2, <1>3, SettledTells
<1>5. PICK j \in 1 .. i : Brought(j, d, x[1].label, x[1].key)
    BY <1>2, <1>3
<1>6. j \in PublishesOf(d) /\ j <= i /\ x[1].key \in Rows(Publish(j), x[1].label)
    BY <1>5, SettledTells DEF Brought, Publish
<1> QED
    BY <1>1, <1>2, <1>3, <1>4, <1>6 DEF Publish

(* A link whose ends were known is a relationship.                            *)
LEMMA EdgeExists ==
    ASSUME NEW d, Settled(d), NEW i \in PublishesOf(d), NEW s \in ToSet(Statements),
           NEW l \in Links(Publish(i), s),
           \E j \in PublishesOf(d) : j <= i /\ l[1][2] \in Rows(Publish(j), l[1][1]),
           \E j \in PublishesOf(d) : j <= i /\ l[2][2] \in Rows(Publish(j), l[2][1])
    PROVE  \E a \in Of(l[1][1], d), b \in Of(l[2][1], d) :
               <<a, b>> \in edges /\ a.key = l[1][2] /\ b.key = l[2][2]
<1>1. CommitOf(i, d) /\ i \in DOMAIN commits /\ i \in Nat /\ l \in Links(sent[commits[i]], s)
    BY SettledTells DEF Publish
<1>2. ASSUME NEW label, NEW key,
             \E j \in PublishesOf(d) : j <= i /\ key \in Rows(Publish(j), label)
      PROVE  \E j \in 1 .. i : Brought(j, d, label, key)
    <2>1. PICK j \in PublishesOf(d) : j <= i /\ key \in Rows(Publish(j), label)
        BY <1>2
    <2>2. Brought(j, d, label, key)
        BY <2>1, SettledTells DEF Brought, Publish
    <2>3. j \in 1 .. i
        BY <1>1, <2>1 DEF PublishesOf
    <2> QED
        BY <2>2, <2>3
<1>3. /\ \E j \in 1 .. i : Brought(j, d, l[1][1], l[1][2])
      /\ \E j \in 1 .. i : Brought(j, d, l[2][1], l[2][2])
    BY <1>2
<1>4. ExactOf(d)
    BY SettledTells DEF GraphInv, Exact, Settled
<1>5. Joined(nodes, {l}, d) \cap edges # {}
    BY <1>1, <1>3, <1>4, SettledTells DEF ExactOf
<1>6. PICK x \in edges : x \in Joined(nodes, {l}, d)
    BY <1>5
<1>7. PICK a, b \in nodes : /\ x = <<a, b>> /\ a.def = d /\ b.def = d
                            /\ a.label = l[1][1] /\ a.key = l[1][2]
                            /\ b.label = l[2][1] /\ b.key = l[2][2]
    BY <1>6, JoinedByLink
<1> QED
    BY <1>6, <1>7 DEF Of

(* Links of parameters to interfaces are between rows of the same envelope.   *)
LEMMA ParamLinksAre ==
    ASSUME NEW e, NEW l \in ParamLinks(e)
    PROVE  l = <<l[1], l[2]>> /\ l[1] \in Ids(e.params) /\ l[2] \in Ids(e.ifaces)
<1>1. \A rows, m : ByMember(rows, m) \subseteq Ids(rows)
    BY DEF ByMember, Ids
<1>2. PICK w \in e.wires :
          l \in (ByMember(e.params, w[1]) \X ByMember(e.ifaces, w[2]))
                    \cup (ByMember(e.params, w[2]) \X ByMember(e.ifaces, w[1]))
    BY DEF ParamLinks
<1> QED
    BY <1>1, <1>2

(* An entity's owner is the one its rows name.                                *)
LEMMA LinkEnds ==
    ASSUME NEW e \in Envelope, NEW s \in {"Procedure", "Parameter", "Interface", "ParamLink"},
           NEW l \in Links(e, s)
    PROVE  l[1][2] \in Rows(e, l[1][1]) /\ l[2][2] \in Rows(e, l[2][1])
<1>1. CASE s = "Procedure"
    <2>1. PICK p \in ToSet(e.procs) : l = Link("Algorithm", p.alg, "Procedure", p.id)
        BY <1>1, LinksAre
    <2> QED
        BY <2>1, LinkIs, RowsAre, EnvelopeShape
<1>2. CASE s = "Parameter"
    <2>1. PICK p \in ToSet(e.params) : l = Link("Procedure", p.proc, "Parameter", p.id)
        BY <1>2, LinksAre
    <2> QED
        BY <2>1, LinkIs, RowsAre, EnvelopeShape
<1>3. CASE s = "Interface"
    <2>1. PICK p \in ToSet(e.ifaces) : l = Link("Procedure", p.proc, "Interface", p.id)
        BY <1>3, LinksAre
    <2> QED
        BY <2>1, LinkIs, RowsAre, EnvelopeShape
<1>4. CASE s = "ParamLink"
    <2>1. PICK p \in ParamLinks(e) : l = Link("Parameter", p[1], "Interface", p[2])
        BY <1>4, LinksAre
    <2> QED
        BY <2>1, LinkIs, RowsAre, ParamLinksAre
<1> QED
    BY <1>1, <1>2, <1>3, <1>4

(* An entity hangs under an owner exactly where a row says so.                *)
LEMMA Hangs ==
    ASSUME NEW d, Settled(d), NEW child \in {"Procedure", "Parameter", "Interface"},
           NEW n \in Of(child, d), NEW p \in Of(Owner[child], d)
    PROVE  <<p, n>> \in edges
               <=> \E i \in PublishesOf(d) :
                       Link(Owner[child], p.key, child, n.key) \in Links(Publish(i), child)
<1> DEFINE l == Link(Owner[child], p.key, child, n.key)
<1>0. /\ l[1][1] = Owner[child] /\ l[1][2] = p.key /\ l[2][1] = child /\ l[2][2] = n.key
    BY LinkIs
<1>1. /\ p \in nodes /\ p.label = Owner[child] /\ p.def = d
      /\ n \in nodes /\ n.label = child /\ n.def = d
    BY DEF Of
<1>a. child \in ToSet(Statements)
    BY StatementsDiffer DEF Labels
<1> HIDE DEF l
<1>2. ASSUME <<p, n>> \in edges
      PROVE  \E i \in PublishesOf(d) : l \in Links(Publish(i), child)
    <2> DEFINE x == <<p, n>>
    <2>0. x[1] = p /\ x[2] = n /\ x \in edges
        BY <1>2
    <2> HIDE DEF x
    <2>1. PICK i \in PublishesOf(d) : \E s \in ToSet(Statements) : l \in Links(Publish(i), s)
        BY <2>0, <1>1, EdgeTells DEF l
    <2>2. PICK s \in ToSet(Statements) : l \in Links(Publish(i), s)
        BY <2>1
    <2>3. s = child
        BY <1>0, <2>2, LinkTells, LinkIs, Owners
    <2> QED
        BY <2>2, <2>3
<1>3. ASSUME NEW i \in PublishesOf(d), l \in Links(Publish(i), child)
      PROVE  <<p, n>> \in edges
    <2>1. Publish(i) \in Envelope /\ i \in Nat
        BY SettledTells
    <2>2. l[1][2] \in Rows(Publish(i), l[1][1]) /\ l[2][2] \in Rows(Publish(i), l[2][1])
        BY <1>3, <2>1, LinkEnds
    <2>3. PICK a \in Of(l[1][1], d), b \in Of(l[2][1], d) :
              <<a, b>> \in edges /\ a.key = l[1][2] /\ b.key = l[2][2]
        BY <1>a, <1>3, <2>1, <2>2, EdgeExists
    <2>4. a = p /\ b = n
        BY <1>0, <2>3, OneNode
    <2> QED
        BY <2>3, <2>4
<1> QED
    BY <1>2, <1>3 DEF l

------------------------------------------------------------------------------
(* What the checks find, by what was sent.                                    *)

(* What was sent, was sent by one of the publishes.                           *)
LEMMA SentAre ==
    ASSUME NEW d
    PROVE  /\ \A x : x \in Sent(d, "params") <=> \E i \in PublishesOf(d) : x \in ToSet(Publish(i).params)
           /\ \A x : x \in Sent(d, "ifaces") <=> \E i \in PublishesOf(d) : x \in ToSet(Publish(i).ifaces)
           /\ \A x : x \in Sent(d, "procs") <=> \E i \in PublishesOf(d) : x \in ToSet(Publish(i).procs)
           /\ \A x : x \in AlgsOf(d) <=> \E i \in PublishesOf(d) : x \in Publish(i).algs
BY DEF Sent, AlgsOf

(* The links that hang an entity under its owner are the rows that name it.   *)
LEMMA LinkRows ==
    ASSUME NEW d, NEW a, NEW k
    PROVE  /\ (\E i \in PublishesOf(d) :
                    Link("Algorithm", a, "Procedure", k) \in Links(Publish(i), "Procedure"))
                 <=> \E p \in Sent(d, "procs") : p.alg = a /\ p.id = k
           /\ (\E i \in PublishesOf(d) :
                    Link("Procedure", a, "Parameter", k) \in Links(Publish(i), "Parameter"))
                 <=> \E x \in Sent(d, "params") : x.proc = a /\ x.id = k
           /\ (\E i \in PublishesOf(d) :
                    Link("Procedure", a, "Interface", k) \in Links(Publish(i), "Interface"))
                 <=> \E x \in Sent(d, "ifaces") : x.proc = a /\ x.id = k
<1>1. ASSUME NEW e
      PROVE  /\ Link("Algorithm", a, "Procedure", k) \in Links(e, "Procedure")
                   <=> \E p \in ToSet(e.procs) : p.alg = a /\ p.id = k
             /\ Link("Procedure", a, "Parameter", k) \in Links(e, "Parameter")
                   <=> \E x \in ToSet(e.params) : x.proc = a /\ x.id = k
             /\ Link("Procedure", a, "Interface", k) \in Links(e, "Interface")
                   <=> \E x \in ToSet(e.ifaces) : x.proc = a /\ x.id = k
    <2>1. Link("Algorithm", a, "Procedure", k) \in Links(e, "Procedure")
              <=> \E p \in ToSet(e.procs) : p.alg = a /\ p.id = k
        BY LinksAre, SameLink
    <2>2. Link("Procedure", a, "Parameter", k) \in Links(e, "Parameter")
              <=> \E x \in ToSet(e.params) : x.proc = a /\ x.id = k
        BY LinksAre, SameLink
    <2>3. Link("Procedure", a, "Interface", k) \in Links(e, "Interface")
              <=> \E x \in ToSet(e.ifaces) : x.proc = a /\ x.id = k
        BY LinksAre, SameLink
    <2> QED
        BY <2>1, <2>2, <2>3
<1>2. (\E i \in PublishesOf(d) : Link("Algorithm", a, "Procedure", k) \in Links(Publish(i), "Procedure"))
          <=> \E p \in Sent(d, "procs") : p.alg = a /\ p.id = k
    BY <1>1, SentAre
<1>3. (\E i \in PublishesOf(d) : Link("Procedure", a, "Parameter", k) \in Links(Publish(i), "Parameter"))
          <=> \E x \in Sent(d, "params") : x.proc = a /\ x.id = k
    BY <1>1, SentAre
<1>4. (\E i \in PublishesOf(d) : Link("Procedure", a, "Interface", k) \in Links(Publish(i), "Interface"))
          <=> \E x \in Sent(d, "ifaces") : x.proc = a /\ x.id = k
    BY <1>1, SentAre
<1> QED
    BY <1>2, <1>3, <1>4

(* What a node points at, and what points at it.                              *)
LEMMA FromHangs ==
    ASSUME NEW d, Settled(d), NEW child \in {"Procedure", "Parameter", "Interface"},
           NEW n \in Of(Owner[child], d), NEW k
    PROVE  (\E m \in From(n, child) : m.key = k)
               <=> \E i \in PublishesOf(d) : Link(Owner[child], n.key, child, k) \in Links(Publish(i), child)
<1>1. ASSUME NEW m \in From(n, child), m.key = k
      PROVE  \E i \in PublishesOf(d) : Link(Owner[child], n.key, child, k) \in Links(Publish(i), child)
    <2>1. PICK y \in edges : y[1] = n /\ y[2] = m /\ m.label = child
        BY DEF From
    <2>2. y = <<n, m>> /\ m \in Of(child, d)
        BY <2>1, EdgeTells DEF Of
    <2> QED
        BY <1>1, <2>1, <2>2, Hangs
<1>2. ASSUME NEW i \in PublishesOf(d), Link(Owner[child], n.key, child, k) \in Links(Publish(i), child)
      PROVE  \E m \in From(n, child) : m.key = k
    <2>1. k \in Rows(Publish(i), child)
        BY <1>2, SettledTells, LinkEnds, LinkIs
    <2>2. PICK m \in Of(child, d) : m.key = k
        BY <2>1, KeysTell DEF Labels
    <2>3. <<n, m>> \in edges
        BY <1>2, <2>2, Hangs
    <2>4. m \in From(n, child)
        <3> DEFINE y == <<n, m>>
        <3>1. y \in edges /\ y[1] = n /\ y[2] = m /\ m.label = child
            BY <2>3 DEF Of
        <3> HIDE DEF y
        <3> QED
            BY <3>1 DEF From
    <2> QED
        BY <2>2, <2>4
<1> QED
    BY <1>1, <1>2

(* What a node points at is of its definition.                                *)
LEMMA FromIsOf ==
    ASSUME NEW d, Settled(d), NEW label, NEW n \in Of("Procedure", d), NEW m \in From(n, label)
    PROVE  m \in Of(label, d)
<1>1. PICK y \in edges : y[1] = n /\ y[2] = m /\ m.label = label
    BY DEF From
<1> QED
    BY <1>1, EdgeTells DEF Of

(* Its owners are those the rows name.                                        *)
LEMMA IntoHangs ==
    ASSUME NEW d, Settled(d), NEW child \in {"Procedure", "Parameter", "Interface"},
           NEW n \in Of(child, d)
    PROVE  /\ Into(n, Owner[child]) \subseteq Of(Owner[child], d)
           /\ \A k : (\E p \in Into(n, Owner[child]) : p.key = k)
                 <=> \E i \in PublishesOf(d) :
                         Link(Owner[child], k, child, n.key) \in Links(Publish(i), child)
<1>1. ASSUME NEW p \in Into(n, Owner[child])
      PROVE  p \in Of(Owner[child], d) /\ <<p, n>> \in edges
    <2>1. PICK y \in edges : y[2] = n /\ y[1] = p /\ p.label = Owner[child]
        BY DEF Into
    <2> QED
        BY <2>1, EdgeTells DEF Of
<1>2. ASSUME NEW p \in Into(n, Owner[child])
      PROVE  \E i \in PublishesOf(d) : Link(Owner[child], p.key, child, n.key) \in Links(Publish(i), child)
    BY <1>1, Hangs
<1>3. ASSUME NEW k, NEW i \in PublishesOf(d),
             Link(Owner[child], k, child, n.key) \in Links(Publish(i), child)
      PROVE  \E p \in Into(n, Owner[child]) : p.key = k
    <2>1. k \in Rows(Publish(i), Owner[child])
        BY <1>3, SettledTells, LinkEnds, LinkIs
    <2>2. Owner[child] \in Labels
        BY Owners DEF Labels
    <2>3. PICK p \in Of(Owner[child], d) : p.key = k
        BY <2>1, <2>2, KeysTell
    <2>4. <<p, n>> \in edges
        BY <1>3, <2>3, Hangs
    <2>5. p \in Into(n, Owner[child])
        <3> DEFINE y == <<p, n>>
        <3>1. y \in edges /\ y[2] = n /\ y[1] = p /\ p.label = Owner[child]
            BY <2>4, <2>3 DEF Of
        <3> HIDE DEF y
        <3> QED
            BY <3>1 DEF Into
    <2> QED
        BY <2>3, <2>5
<1> QED
    BY <1>1, <1>2, <1>3

(* A procedure has the interfaces whose rows name it, an algorithm the        *)
(* procedures whose rows name it.                                             *)
LEMMA InterfacesOf ==
    ASSUME NEW d, Settled(d), NEW n \in Of("Procedure", d), NEW k
    PROVE  (\E m \in From(n, "Interface") : m.key = k)
               <=> \E x \in Sent(d, "ifaces") : x.proc = n.key /\ x.id = k
<1>1. n \in Of(Owner["Interface"], d)
    BY Owners
<1>2. (\E m \in From(n, "Interface") : m.key = k)
          <=> \E i \in PublishesOf(d) :
                  Link(Owner["Interface"], n.key, "Interface", k) \in Links(Publish(i), "Interface")
    BY <1>1, FromHangs
<1>3. (\E i \in PublishesOf(d) :
           Link("Procedure", n.key, "Interface", k) \in Links(Publish(i), "Interface"))
          <=> \E x \in Sent(d, "ifaces") : x.proc = n.key /\ x.id = k
    BY LinkRows
<1> QED
    BY <1>2, <1>3, Owners

(* The procedures of an algorithm are those sent with it.                     *)
LEMMA ProceduresOf ==
    ASSUME NEW d, Settled(d), NEW n \in Of("Algorithm", d), NEW k
    PROVE  (\E m \in From(n, "Procedure") : m.key = k)
               <=> \E p \in Sent(d, "procs") : p.alg = n.key /\ p.id = k
<1>1. n \in Of(Owner["Procedure"], d)
    BY Owners
<1>2. (\E m \in From(n, "Procedure") : m.key = k)
          <=> \E i \in PublishesOf(d) :
                  Link(Owner["Procedure"], n.key, "Procedure", k) \in Links(Publish(i), "Procedure")
    BY <1>1, FromHangs
<1> QED
    BY <1>2, LinkRows, Owners

(* The entities are those that were sent.                                     *)
LEMMA EntitiesSent ==
    ASSUME NEW d, Settled(d), NEW key
    PROVE  /\ (\E n \in Of("Procedure", d) : n.key = key) <=> \E p \in Sent(d, "procs") : p.id = key
           /\ (\E n \in Of("Algorithm", d) : n.key = key) <=> key \in AlgsOf(d)
           /\ (\E n \in Of("Parameter", d) : n.key = key) <=> \E x \in Sent(d, "params") : x.id = key
           /\ (\E n \in Of("Interface", d) : n.key = key) <=> \E x \in Sent(d, "ifaces") : x.id = key
<1>1. {"Procedure", "Algorithm", "Parameter", "Interface"} \subseteq Labels
    BY DEF Labels
<1>2. (\E n \in Of("Procedure", d) : n.key = key) <=> \E p \in Sent(d, "procs") : p.id = key
    <2>1. (\E n \in Of("Procedure", d) : n.key = key)
              <=> \E i \in PublishesOf(d) : key \in Rows(Publish(i), "Procedure")
        BY <1>1, KeysTell
    <2>2. \A i \in PublishesOf(d) :
              Rows(Publish(i), "Procedure") = {p.id : p \in ToSet(Publish(i).procs)}
        BY SettledTells, EnvelopeShape, RowsAre
    <2> QED
        BY <2>1, <2>2, SentAre
<1>3. (\E n \in Of("Algorithm", d) : n.key = key) <=> key \in AlgsOf(d)
    BY <1>1, KeysTell, RowsAre, SentAre
<1>4. (\E n \in Of("Parameter", d) : n.key = key) <=> \E x \in Sent(d, "params") : x.id = key
    <2>1. \A i \in PublishesOf(d) :
              Rows(Publish(i), "Parameter") = {x.id : x \in ToSet(Publish(i).params)}
        BY SettledTells, EnvelopeShape, RowsAre
    <2>2. (\E n \in Of("Parameter", d) : n.key = key)
              <=> \E i \in PublishesOf(d) : key \in Rows(Publish(i), "Parameter")
        BY <1>1, KeysTell
    <2> QED
        BY <2>1, <2>2, SentAre
<1>5. (\E n \in Of("Interface", d) : n.key = key) <=> \E x \in Sent(d, "ifaces") : x.id = key
    <2>1. \A i \in PublishesOf(d) :
              Rows(Publish(i), "Interface") = {x.id : x \in ToSet(Publish(i).ifaces)}
        BY SettledTells, EnvelopeShape, RowsAre
    <2>2. (\E n \in Of("Interface", d) : n.key = key)
              <=> \E i \in PublishesOf(d) : key \in Rows(Publish(i), "Interface")
        BY <1>1, KeysTell
    <2> QED
        BY <2>1, <2>2, SentAre
<1> QED
    BY <1>2, <1>3, <1>4, <1>5

(* A node holds what the last envelope that has a row for it says.            *)
LEMMA LastWriter ==
    ASSUME NEW d, Settled(d), NEW n \in nodes, n.def = d, n.label \in Labels,
           NEW S, \A i : i \in S <=> i \in PublishesOf(d) /\ n.key \in Rows(Publish(i), n.label)
    PROVE  sent[writer[n]] = Publish(Max(S))
<1>1. \A i : i \in S <=> Brought(i, d, n.label, n.key)
    BY SettledTells DEF Brought, Publish
<1>2. PICK k \in DOMAIN commits : writer[n] = commits[k] /\ Brought(k, d, n.label, n.key)
    BY SettledTells DEF GraphInv, NodesSound
<1>3. ended \in Nat
    BY SettledTells DEF Settled, PublishTypeOK
<1>4. S \subseteq Nat /\ S # {} /\ \A i \in S : i <= ended
    <2>1. \A i \in S : i \in 1 .. ended
        BY DEF PublishesOf
    <2> QED
        BY <1>1, <1>2, <1>3, <2>1
<1>5. Max(S) \in S /\ k <= Max(S) /\ Max(S) \in Nat /\ k \in Nat
    BY <1>1, <1>2, <1>3, <1>4, MaxOf
<1>6. Brought(Max(S), d, n.label, n.key) /\ Max(S) \in DOMAIN commits
    BY <1>1, <1>5 DEF Brought, CommitOf
<1>7. PICK j \in DOMAIN commits : writer[n] = commits[j] /\ Max(S) <= j
    BY <1>6, SettledTells DEF GraphInv, Exact, ExactOf, Settled
<1>8. j = k
    BY <1>2, <1>7, SettledTells DEF Flow
<1>9. Max(S) = k
    BY <1>5, <1>7, <1>8
<1> QED
    BY <1>2, <1>9 DEF Publish

(* Whether a rule lets a node through is what the envelopes say of it.        *)
LEMMA LetsAllowed ==
    ASSUME NEW d, Settled(d), NEW label \in {"Procedure", "Parameter", "Interface"},
           NEW n \in Of(label, d), NEW m
    PROVE  Lets(m, n) <=> Allowed(m, d, Field[label], n.key)
<1> DEFINE S == {i \in PublishesOf(d) : n.key \in Ids(Publish(i)[Field[label]])}
<1>1. n \in nodes /\ n.def = d /\ n.label = label /\ n.label \in Labels
    BY DEF Of, Labels
<1>2. \A e : Rows(e, label) = Ids(e[Field[label]])
    <2>1. /\ Field["Procedure"] = "procs" /\ Field["Parameter"] = "params"
          /\ Field["Interface"] = "ifaces"
        BY DEF Field
    <2>2. CASE label = "Procedure"
        BY <2>1, <2>2, RowsAre
    <2>3. CASE label = "Parameter"
        BY <2>1, <2>3, RowsAre
    <2>4. CASE label = "Interface"
        BY <2>1, <2>4, RowsAre
    <2> QED
        BY <2>2, <2>3, <2>4
<1>3. \A i : i \in S <=> i \in PublishesOf(d) /\ n.key \in Rows(Publish(i), n.label)
    BY <1>1, <1>2
<1> HIDE DEF S
<1>4. sent[writer[n]] = Publish(Max(S))
    BY <1>1, <1>3, LastWriter
<1>5. As(n) = LastAs(d, Field[label], n.key)
    BY <1>1, <1>4 DEF As, LastAs, S
<1> HIDE DEF Field
<1> QED
    BY <1>5 DEF Lets, Allowed

(* procedure_without_interface finds the procedures sent without one.         *)
LEMMA CheckProcedures ==
    ASSUME NEW d, Settled(d)
    PROVE  ProceduresWithoutInterface(d) = {<<p>> : p \in ProcsWithoutInterface(d)}
<1>1. ASSUME NEW n \in Of("Procedure", d)
      PROVE  From(n, "Interface") = {} <=> \A x \in Sent(d, "ifaces") : x.proc # n.key
    BY InterfacesOf
<1>2. ASSUME NEW key
      PROVE  (\E n \in Of("Procedure", d) : n.key = key /\ From(n, "Interface") = {})
                 <=> key \in ProcsWithoutInterface(d)
    <2>1. key \in ProcsWithoutInterface(d)
              <=> (\E p \in Sent(d, "procs") : p.id = key) /\ \A x \in Sent(d, "ifaces") : x.proc # key
        BY DEF ProcsWithoutInterface
    <2>2. (\E n \in Of("Procedure", d) : n.key = key) <=> \E p \in Sent(d, "procs") : p.id = key
        BY EntitiesSent
    <2> QED
        BY <1>1, <2>1, <2>2
<1> QED
    BY <1>2 DEF ProceduresWithoutInterface

(* algorithm_without_procedure finds the algorithms sent without one.         *)
LEMMA CheckAlgorithms ==
    ASSUME NEW d, Settled(d)
    PROVE  AlgorithmsWithoutProcedure(d) =
               {<<a>> : a \in {b \in AlgsOf(d) : \A p \in Sent(d, "procs") : p.alg # b}}
<1>1. ASSUME NEW n \in Of("Algorithm", d)
      PROVE  From(n, "Procedure") = {} <=> \A p \in Sent(d, "procs") : p.alg # n.key
    BY ProceduresOf
<1>2. \A key : (\E n \in Of("Algorithm", d) : n.key = key /\ From(n, "Procedure") = {})
                   <=> key \in {b \in AlgsOf(d) : \A p \in Sent(d, "procs") : p.alg # b}
    BY <1>1, EntitiesSent
<1> QED
    BY <1>2 DEF AlgorithmsWithoutProcedure

(* What the last envelope says of an algorithm is what its node holds.        *)
LEMMA CheckAnnotations ==
    ASSUME NEW d, Settled(d)
    PROVE  AnnotationConventions(d) = UNION {{<<a, w>> : w \in Warned(d, a)} : a \in AlgsOf(d)}
<1>1. ASSUME NEW n \in Of("Algorithm", d)
      PROVE  sent[writer[n]].warnings = Warned(d, n.key)
    <2> DEFINE S == {i \in PublishesOf(d) : n.key \in Publish(i).algs}
    <2>1. n \in nodes /\ n.def = d /\ n.label = "Algorithm" /\ n.label \in Labels
        BY DEF Of, Labels
    <2>2. \A i : i \in S <=> i \in PublishesOf(d) /\ n.key \in Rows(Publish(i), n.label)
        BY <2>1, RowsAre
    <2> HIDE DEF S
    <2>3. sent[writer[n]] = Publish(Max(S))
        BY <2>1, <2>2, LastWriter
    <2> QED
        BY <2>3 DEF Warned, S
<1>2. ASSUME NEW f
      PROVE  f \in AnnotationConventions(d)
                 <=> \E n \in Of("Algorithm", d) : \E w \in Warned(d, n.key) : f = <<n.key, w>>
    BY <1>1 DEF AnnotationConventions
<1>3. ASSUME NEW f
      PROVE  f \in UNION {{<<a, w>> : w \in Warned(d, a)} : a \in AlgsOf(d)}
                 <=> \E a \in AlgsOf(d) : \E w \in Warned(d, a) : f = <<a, w>>
    OBVIOUS
<1>4. \A a : a \in AlgsOf(d) <=> \E n \in Of("Algorithm", d) : n.key = a
    BY EntitiesSent
<1> HIDE DEF Warned
<1> QED
    BY <1>2, <1>3, <1>4

(* A set has two elements when it counts more than one.                       *)
LEMMA MoreThanOne ==
    ASSUME NEW S, IsFiniteSet(S)
    PROVE  Cardinality(S) > 1 <=> \E a, b \in S : a # b
<1> DEFINE c == Cardinality(S)
<1>1. c \in Nat /\ (c = 0 <=> S = {}) /\ (c = 1 <=> \E x : S = {x})
    BY FS_CardinalityType, FS_EmptySet, FS_Singleton
<1> HIDE DEF c
<1>2. c > 1 <=> c # 0 /\ c # 1
    BY <1>1
<1>3. (S # {} /\ ~ \E x : S = {x}) <=> \E a, b \in S : a # b
    <2>1. ASSUME S # {}, ~ \E x : S = {x} PROVE \E a, b \in S : a # b
        <3>1. PICK a \in S : TRUE
            BY <2>1
        <3>2. S # {a}
            BY <2>1
        <3> QED
            BY <3>1, <3>2
    <2>2. ASSUME NEW a \in S, NEW b \in S, a # b PROVE S # {} /\ ~ \E x : S = {x}
        BY <2>2
    <2> QED
        BY <2>1, <2>2
<1> QED
    BY <1>1, <1>2, <1>3 DEF c

(* What a function takes on a finite set is a finite set.                     *)
LEMMA ImageFinite ==
    ASSUME NEW S, IsFiniteSet(S), NEW f, f = [x \in S |-> f[x]]
    PROVE  IsFiniteSet({f[x] : x \in S})
<1> DEFINE T == {f[x] : x \in S}
<1>1. f \in [S -> T] /\ \A t \in T : \E x \in S : f[x] = t
    OBVIOUS
<1> HIDE DEF T
<1>2. f \in Surjection(S, T)
    BY <1>1 DEF Surjection
<1>3. IsFiniteSet(T)
    BY <1>2, FS_Surjection
<1> QED
    BY <1>3 DEF T

(* Rows are finitely many, and so are the owners they name.                   *)
LEMMA OwnersFinite ==
    ASSUME NEW d, Settled(d), NEW key
    PROVE  /\ IsFiniteSet(OwnersOf(Sent(d, "params"), key))
           /\ IsFiniteSet(OwnersOf(Sent(d, "ifaces"), key))
<1>1. ASSUME NEW s, NEW T, s \in Seq(T) PROVE IsFiniteSet(ToSet(s))
    <2>0. DOMAIN s = 1 .. Len(s) /\ Len(s) \in Nat /\ s = [i \in DOMAIN s |-> s[i]]
        BY <1>1
    <2>1. IsFiniteSet(DOMAIN s)
        BY <2>0, FS_Interval
    <2>2. ToSet(s) = {s[i] : i \in DOMAIN s}
        BY DEF ToSet
    <2> QED
        BY <2>0, <2>1, <2>2, ImageFinite
<1>2. \A i \in PublishesOf(d) :
          /\ Publish(i).params
                 \in Seq([id : Key, proc : Key, as : Key, members : SUBSET Key, typed : BOOLEAN])
          /\ Publish(i).ifaces \in Seq([id : Key, proc : Key, as : Key, members : SUBSET Key])
    <2>1. \A i \in PublishesOf(d) : Publish(i) \in Envelopes
        BY SettledTells, EnvelopeAssumption
    <2> QED
        BY <2>1 DEF Envelopes
<1>3. IsFiniteSet(Sent(d, "params"))
    <2> DEFINE rows == [i \in PublishesOf(d) |-> ToSet(Publish(i).params)]
               all == {rows[i] : i \in PublishesOf(d)}
    <2>1. rows = [i \in PublishesOf(d) |-> rows[i]]
        OBVIOUS
    <2>2. \A x \in all : IsFiniteSet(x)
        BY <1>1, <1>2
    <2>3. Sent(d, "params") = UNION all
        BY DEF Sent
    <2> HIDE DEF rows
    <2>4. IsFiniteSet(all)
        BY <2>1, SettledTells, ImageFinite
    <2> HIDE DEF all
    <2> QED
        BY <2>2, <2>3, <2>4, FS_UNION
<1>4. IsFiniteSet(Sent(d, "ifaces"))
    <2> DEFINE rows == [i \in PublishesOf(d) |-> ToSet(Publish(i).ifaces)]
               all == {rows[i] : i \in PublishesOf(d)}
    <2>1. rows = [i \in PublishesOf(d) |-> rows[i]]
        OBVIOUS
    <2>2. \A x \in all : IsFiniteSet(x)
        BY <1>1, <1>2
    <2>3. Sent(d, "ifaces") = UNION all
        BY DEF Sent
    <2> HIDE DEF rows
    <2>4. IsFiniteSet(all)
        BY <2>1, SettledTells, ImageFinite
    <2> HIDE DEF all
    <2> QED
        BY <2>2, <2>3, <2>4, FS_UNION
<1>5. ASSUME NEW rows, IsFiniteSet(rows) PROVE IsFiniteSet(OwnersOf(rows, key))
    <2> DEFINE named == {y \in rows : y.id = key}
               owner == [x \in named |-> x.proc]
    <2>1. IsFiniteSet(named) /\ owner = [x \in named |-> owner[x]]
        BY <1>5, FS_Subset
    <2>2. OwnersOf(rows, key) = {owner[x] : x \in named}
        BY DEF OwnersOf
    <2> HIDE DEF named, owner
    <2> QED
        BY <2>1, <2>2, ImageFinite
<1> QED
    BY <1>3, <1>4, <1>5

(* The links of a definition's parameters and interfaces, for all keys.       *)
LEMMA RowsOfLinks ==
    ASSUME NEW d
    PROVE  /\ \A a, k : (\E i \in PublishesOf(d) :
                             Link("Procedure", a, "Parameter", k) \in Links(Publish(i), "Parameter"))
                  <=> \E x \in Sent(d, "params") : x.proc = a /\ x.id = k
           /\ \A a, k : (\E i \in PublishesOf(d) :
                             Link("Procedure", a, "Interface", k) \in Links(Publish(i), "Interface"))
                  <=> \E x \in Sent(d, "ifaces") : x.proc = a /\ x.id = k
<1>1. ASSUME NEW a, NEW k
      PROVE  /\ (\E i \in PublishesOf(d) :
                       Link("Procedure", a, "Parameter", k) \in Links(Publish(i), "Parameter"))
                    <=> \E x \in Sent(d, "params") : x.proc = a /\ x.id = k
             /\ (\E i \in PublishesOf(d) :
                       Link("Procedure", a, "Interface", k) \in Links(Publish(i), "Interface"))
                    <=> \E x \in Sent(d, "ifaces") : x.proc = a /\ x.id = k
    BY LinkRows
<1> QED
    BY <1>1

(* Links between two owners are those that the rows of all envelopes put      *)
(* under more than one.                                                       *)
LEMMA CheckLinks ==
    ASSUME NEW d, Settled(d)
    PROVE  DanglingParamLinks(d) =
               {x \in UNION {ParamLinks(Publish(i)) : i \in PublishesOf(d)} :
                   Cardinality(OwnersOf(Sent(d, "params"), x[1])
                                   \cup OwnersOf(Sent(d, "ifaces"), x[2])) > 1}
<1> DEFINE A(k) == OwnersOf(Sent(d, "params"), k)
           B(k) == OwnersOf(Sent(d, "ifaces"), k)
<1>1. ASSUME NEW a \in Of("Parameter", d)
      PROVE  /\ Into(a, "Procedure") \subseteq Of("Procedure", d)
             /\ \A k : (\E p \in Into(a, "Procedure") : p.key = k) <=> k \in A(a.key)
             /\ A(a.key) # {}
    <2>1. /\ Into(a, "Procedure") \subseteq Of("Procedure", d)
          /\ \A k : (\E p \in Into(a, "Procedure") : p.key = k)
                <=> \E i \in PublishesOf(d) :
                        Link("Procedure", k, "Parameter", a.key) \in Links(Publish(i), "Parameter")
        BY SMTT(30), IntoHangs, Owners
    <2>2. \A k : (\E i \in PublishesOf(d) :
                      Link("Procedure", k, "Parameter", a.key) \in Links(Publish(i), "Parameter"))
                  <=> \E x \in Sent(d, "params") : x.proc = k /\ x.id = a.key
        BY RowsOfLinks
    <2>3. \A k : k \in A(a.key) <=> \E x \in Sent(d, "params") : x.proc = k /\ x.id = a.key
        BY DEF OwnersOf
    <2>4. \E x \in Sent(d, "params") : x.id = a.key
        BY EntitiesSent
    <2> HIDE DEF A
    <2> QED
        BY <2>1, <2>2, <2>3, <2>4
<1>2. ASSUME NEW b \in Of("Interface", d)
      PROVE  /\ Into(b, "Procedure") \subseteq Of("Procedure", d)
             /\ \A k : (\E p \in Into(b, "Procedure") : p.key = k) <=> k \in B(b.key)
             /\ B(b.key) # {}
    <2>1. /\ Into(b, "Procedure") \subseteq Of("Procedure", d)
          /\ \A k : (\E p \in Into(b, "Procedure") : p.key = k)
                <=> \E i \in PublishesOf(d) :
                        Link("Procedure", k, "Interface", b.key) \in Links(Publish(i), "Interface")
        BY IntoHangs, Owners
    <2>2. \A k : (\E i \in PublishesOf(d) :
                      Link("Procedure", k, "Interface", b.key) \in Links(Publish(i), "Interface"))
                  <=> \E x \in Sent(d, "ifaces") : x.proc = k /\ x.id = b.key
        BY RowsOfLinks
    <2>3. \A k : k \in B(b.key) <=> \E x \in Sent(d, "ifaces") : x.proc = k /\ x.id = b.key
        BY DEF OwnersOf
    <2>4. \E x \in Sent(d, "ifaces") : x.id = b.key
        BY EntitiesSent
    <2> HIDE DEF B
    <2> QED
        BY <2>1, <2>2, <2>3, <2>4
<1>3. ASSUME NEW a \in Of("Parameter", d), NEW b \in Of("Interface", d)
      PROVE  (\E p \in Into(a, "Procedure"), q \in Into(b, "Procedure") : p # q)
                 <=> Cardinality(A(a.key) \cup B(b.key)) > 1
    <2>1. Cardinality(A(a.key) \cup B(b.key)) > 1 <=> \E u, v \in A(a.key) \cup B(b.key) : u # v
        <3>1. IsFiniteSet(A(a.key) \cup B(b.key))
            BY OwnersFinite, FS_Union
        <3> HIDE DEF A, B
        <3> QED
            BY <3>1, MoreThanOne
    <2> HIDE DEF A, B
    <2>2. (\E u, v \in A(a.key) \cup B(b.key) : u # v) <=> \E u \in A(a.key), v \in B(b.key) : u # v
        BY <1>1, <1>2
    <2>3. (\E u \in A(a.key), v \in B(b.key) : u # v)
              <=> \E p \in Into(a, "Procedure"), q \in Into(b, "Procedure") : p.key # q.key
        BY <1>1, <1>2
    <2>4. \A p \in Into(a, "Procedure"), q \in Into(b, "Procedure") : p.key = q.key => p = q
        BY <1>1, <1>2, OneNode
    <2> QED
        BY <2>1, <2>2, <2>3, <2>4
<1>4. ASSUME NEW x \in edges, x[1] \in Of("Parameter", d), x[2] \in Of("Interface", d)
      PROVE  \E i \in PublishesOf(d) : <<x[1].key, x[2].key>> \in ParamLinks(Publish(i))
    <2>1. x[1].def = d /\ x[1].label = "Parameter" /\ x[2].label = "Interface"
        BY <1>4 DEF Of
    <2> DEFINE l == Link("Parameter", x[1].key, "Interface", x[2].key)
    <2>2. PICK i \in PublishesOf(d) : \E s \in ToSet(Statements) : l \in Links(Publish(i), s)
        BY <2>1, EdgeTells
    <2>3. PICK s \in ToSet(Statements) : l \in Links(Publish(i), s)
        BY <2>2
    <2>4. l[1][1] = "Parameter" /\ l[1][2] = x[1].key /\ l[2][2] = x[2].key
        BY LinkIs
    <2> HIDE DEF l
    <2>5. PICK p \in ParamLinks(Publish(i)) : l = Link("Parameter", p[1], "Interface", p[2])
        BY <2>3, <2>4, LinkTells, LinkIs
    <2>6. p = <<x[1].key, x[2].key>>
        BY <2>4, <2>5, LinkIs, ParamLinksAre
    <2> QED
        BY <2>6
<1>5. ASSUME NEW i \in PublishesOf(d), NEW k \in ParamLinks(Publish(i))
      PROVE  \E a \in Of("Parameter", d), b \in Of("Interface", d) :
                 <<a, b>> \in edges /\ a.key = k[1] /\ b.key = k[2]
    <2> DEFINE l == Link("Parameter", k[1], "Interface", k[2])
    <2>1. l \in Links(Publish(i), "ParamLink") /\ "ParamLink" \in ToSet(Statements)
        BY LinksAre, StatementsDiffer
    <2>2. l[1][1] = "Parameter" /\ l[1][2] = k[1] /\ l[2][1] = "Interface" /\ l[2][2] = k[2]
        BY LinkIs
    <2>3. Publish(i) \in Envelope /\ i \in Nat
        BY SettledTells
    <2> HIDE DEF l
    <2>4. l[1][2] \in Rows(Publish(i), l[1][1]) /\ l[2][2] \in Rows(Publish(i), l[2][1])
        BY <2>1, <2>3, LinkEnds
    <2>5. \E a \in Of(l[1][1], d), b \in Of(l[2][1], d) :
              <<a, b>> \in edges /\ a.key = l[1][2] /\ b.key = l[2][2]
        BY <2>1, <2>3, <2>4, EdgeExists
    <2> QED
        BY <2>2, <2>5
<1> DEFINE Found == {x \in UNION {ParamLinks(Publish(i)) : i \in PublishesOf(d)} :
                        Cardinality(A(x[1]) \cup B(x[2])) > 1}
<1>6. ASSUME NEW f \in DanglingParamLinks(d) PROVE f \in Found
    <2>1. PICK x \in edges : /\ f = <<x[1].key, x[2].key>>
                             /\ x[1] \in Of("Parameter", d) /\ x[2] \in Of("Interface", d)
                             /\ \E p \in Into(x[1], "Procedure"), q \in Into(x[2], "Procedure") : p # q
        BY DEF DanglingParamLinks
    <2>2. Cardinality(A(x[1].key) \cup B(x[2].key)) > 1
        BY <1>3, <2>1
    <2>3. f[1] = x[1].key /\ f[2] = x[2].key
        BY <2>1
    <2>4. \E i \in PublishesOf(d) : f \in ParamLinks(Publish(i))
        BY <1>4, <2>1
    <2> HIDE DEF A, B
    <2> QED
        BY <2>2, <2>3, <2>4
<1>7. ASSUME NEW f \in Found PROVE f \in DanglingParamLinks(d)
    <2>1. PICK i \in PublishesOf(d) : f \in ParamLinks(Publish(i))
        OBVIOUS
    <2>2. PICK a \in Of("Parameter", d), b \in Of("Interface", d) :
              <<a, b>> \in edges /\ a.key = f[1] /\ b.key = f[2]
        BY <1>5, <2>1
    <2>3. Cardinality(A(f[1]) \cup B(f[2])) > 1
        OBVIOUS
    <2>4. \E p \in Into(a, "Procedure"), q \in Into(b, "Procedure") : p # q
        <3> HIDE DEF A, B
        <3> QED
            BY <1>3, <2>2, <2>3
    <2>5. f = <<f[1], f[2]>>
        BY <2>1, ParamLinksAre
    <2> DEFINE x == <<a, b>>
    <2>6. x \in edges /\ x[1] = a /\ x[2] = b
        BY <2>2
    <2> HIDE DEF x
    <2>7. f = <<x[1].key, x[2].key>>
        BY <2>2, <2>5, <2>6
    <2> QED
        BY <2>4, <2>6, <2>7 DEF DanglingParamLinks
<1> QED
    BY <1>6, <1>7

------------------------------------------------------------------------------
(* What a report holds when nothing committed meanwhile.                      *)

(* The seven checks together.                                                 *)
LEMMA ChecksFind ==
    ASSUME NEW d, Settled(d)
    PROVE  FoundUpTo(Len(Checks) + 1, d) = Faults(d)
<1> DEFINE Found(name, s) == {[check |-> name, of |-> f] : f \in s}
<1>1. /\ Len(Checks) = 7 /\ Checks[1] = "orphan_pattern"
      /\ Checks[2] = "procedure_without_interface" /\ Checks[3] = "dangling_param_link"
      /\ Checks[4] = "algorithm_without_procedure" /\ Checks[5] = "parameter_without_datatype"
      /\ Checks[6] = "object_without_behavior" /\ Checks[7] = "annotation_convention"
    BY DEF Checks
<1>2. /\ Findings(Checks[1], d) = OrphanPatterns(d)
      /\ Findings(Checks[2], d) = ProceduresWithoutInterface(d)
      /\ Findings(Checks[3], d) = DanglingParamLinks(d)
      /\ Findings(Checks[4], d) = AlgorithmsWithoutProcedure(d)
      /\ Findings(Checks[5], d) = ParametersWithoutDatatype(d)
      /\ Findings(Checks[6], d) = ObjectsWithoutBehavior(d)
      /\ Findings(Checks[7], d) = AnnotationConventions(d)
    BY <1>1 DEF Findings
<1>3. OrphanPatterns(d) = {} /\ ParametersWithoutDatatype(d) = {} /\ ObjectsWithoutBehavior(d) = {}
    <2>1. CASE d \in DefinitionIds
        BY <2>1, GuardsHold DEF Settled, GuardsNeverNeeded
    <2>2. CASE d \notin DefinitionIds
        <3>1. \A label : Of(label, d) = {}
            BY <2>2 DEF Of, DefinitionIds
        <3> QED
            BY <3>1 DEF OrphanPatterns, ParametersWithoutDatatype, ObjectsWithoutBehavior
    <2> QED
        BY <2>1, <2>2
<1>4. 1 .. Len(Checks) + 1 - 1 = {1, 2, 3, 4, 5, 6, 7}
    BY <1>1
<1>5. FoundUpTo(Len(Checks) + 1, d) =
          UNION {Found(Checks[c], Findings(Checks[c], d)) : c \in {1, 2, 3, 4, 5, 6, 7}}
    BY <1>4 DEF FoundUpTo
<1>6. \A x : x \in FoundUpTo(Len(Checks) + 1, d)
          <=> \/ x \in Found(Checks[2], ProceduresWithoutInterface(d))
              \/ x \in Found(Checks[3], DanglingParamLinks(d))
              \/ x \in Found(Checks[4], AlgorithmsWithoutProcedure(d))
              \/ x \in Found(Checks[7], AnnotationConventions(d))
    BY <1>2, <1>3, <1>5
<1>7. \A x : x \in Found(Checks[2], ProceduresWithoutInterface(d))
          <=> x \in {[check |-> "procedure_without_interface", of |-> <<p>>] :
                        p \in ProcsWithoutInterface(d)}
    BY <1>1, CheckProcedures
<1>8. \A x : x \in Found(Checks[3], DanglingParamLinks(d))
          <=> x \in {[check |-> "dangling_param_link", of |-> l] : l \in
                        {y \in UNION {ParamLinks(Publish(i)) : i \in PublishesOf(d)} :
                            Cardinality(OwnersOf(Sent(d, "params"), y[1])
                                            \cup OwnersOf(Sent(d, "ifaces"), y[2])) > 1}}
    BY <1>1, CheckLinks
<1>9. \A x : x \in Found(Checks[4], AlgorithmsWithoutProcedure(d))
          <=> x \in {[check |-> "algorithm_without_procedure", of |-> <<a>>] : a \in
                        {b \in AlgsOf(d) : \A p \in Sent(d, "procs") : p.alg # b}}
    BY <1>1, CheckAlgorithms
<1>10. \A x : x \in Found(Checks[7], AnnotationConventions(d))
          <=> x \in UNION {{[check |-> "annotation_convention", of |-> <<a, w>>] : w \in Warned(d, a)} :
                              a \in AlgsOf(d)}
    <2> HIDE DEF Warned
    <2> QED
        BY <1>1, CheckAnnotations
<1> HIDE DEF Found
<1> QED
    BY <1>6, <1>7, <1>8, <1>9, <1>10 DEF Faults

(* What a mapped rule asks of the envelopes.                                  *)
Meant(m, d) ==
    /\ ~Rejected(m)
    /\ m.operation = "requiresProcedure" =>
          \E p \in Sent(d, "procs") : Allowed(m, d, "procs", p.id)
    /\ m.operation = "requiresParameter" =>
          \E p \in Sent(d, "params") : Allowed(m, d, "params", p.id)
    /\ m.operation = "requiresInterface" =>
          \A p \in Sent(d, "procs") : \E i \in Sent(d, "ifaces") :
              i.proc = p.id /\ Allowed(m, d, "ifaces", i.id)
    /\ m.operation = "forbidsOrphan" /\ m.label = "Algorithm" => \A a \in AlgsOf(d) : Rooted(d, a)

(* An algorithm hangs under the behavior when one was known.                  *)
LEMMA AlgorithmsRooted ==
    ASSUME NEW d, Settled(d), NEW n \in Of("Algorithm", d)
    PROVE  (\E x \in edges : Owns(x, n)) <=> Rooted(d, n.key)
<1>0. n \in nodes /\ n.label = "Algorithm" /\ n.def = d
    BY DEF Of
<1>1. ASSUME NEW x \in edges, Owns(x, n) PROVE Rooted(d, n.key)
    <2>0. x[2] = n
        BY <1>1 DEF Owns
    <2> DEFINE l == Link(x[1].label, x[1].key, x[2].label, x[2].key)
    <2>1. PICK i \in PublishesOf(d) :
              /\ \E s \in ToSet(Statements) : l \in Links(Publish(i), s)
              /\ \E j \in PublishesOf(d) : j <= i /\ x[1].key \in Rows(Publish(j), x[1].label)
        BY <1>0, <2>0, EdgeTells
    <2>2. PICK s \in ToSet(Statements) : l \in Links(Publish(i), s)
        BY <2>1
    <2>3. l[1][1] = x[1].label /\ l[2][1] = "Algorithm" /\ l[2][2] = n.key
        BY <1>0, <2>0, LinkIs
    <2> HIDE DEF l
    <2>4. PICK a \in Publish(i).algs : l = Link("Behavior", TheBehavior, "Algorithm", a)
        BY <2>2, <2>3, LinkTells, LinkIs
    <2>5. x[1].label = "Behavior" /\ n.key \in Publish(i).algs
        BY <2>3, <2>4, LinkIs
    <2>6. PICK j \in PublishesOf(d) : j <= i /\ x[1].key \in Rows(Publish(j), "Behavior")
        BY <2>1, <2>5
    <2>7. Publish(j).object # None
        BY <2>6, RowsAre
    <2> QED
        BY <2>5, <2>6, <2>7 DEF Rooted
<1>2. ASSUME Rooted(d, n.key) PROVE \E x \in edges : Owns(x, n)
    <2>1. PICK i, j \in PublishesOf(d) :
              j <= i /\ n.key \in Publish(i).algs /\ Publish(j).object # None
        BY <1>2 DEF Rooted
    <2> DEFINE l == Link("Behavior", TheBehavior, "Algorithm", n.key)
    <2>2. l \in Links(Publish(i), "Algorithm") /\ "Algorithm" \in ToSet(Statements)
        BY <2>1, LinksAre, StatementsDiffer DEF Labels
    <2>3. /\ l[1][1] = "Behavior" /\ l[1][2] = TheBehavior
          /\ l[2][1] = "Algorithm" /\ l[2][2] = n.key
        BY LinkIs
    <2> HIDE DEF l
    <2>4. l[1][2] \in Rows(Publish(j), l[1][1]) /\ l[2][2] \in Rows(Publish(i), l[2][1])
        BY <2>1, <2>3, RowsAre
    <2>5. i \in Nat
        BY SettledTells
    <2>6. PICK a \in Of(l[1][1], d), b \in Of(l[2][1], d) :
              <<a, b>> \in edges /\ a.key = l[1][2] /\ b.key = l[2][2]
        BY <2>1, <2>2, <2>4, <2>5, EdgeExists
    <2>7. b = n /\ a.label = "Behavior"
        <3>1. b = n
            BY <2>3, <2>6, OneNode
        <3>2. a.label = "Behavior"
            BY <2>3, <2>6 DEF Of
        <3> QED
            BY <3>1, <3>2
    <2> DEFINE x == <<a, b>>
    <2>8. x \in edges /\ x[2] = n /\ x[1].label = "Behavior"
        BY <2>6, <2>7
    <2> HIDE DEF x
    <2> QED
        BY <2>8 DEF Owns
<1> QED
    BY <1>1, <1>2

(* A rule passes when the envelopes do what it asks.                          *)
LEMMA RulesPass ==
    ASSUME NEW d, Settled(d), NEW m
    PROVE  Result(m, d).passed <=> Meant(m, d)
<1>1. CASE Rejected(m)
    BY <1>1 DEF Result, Meant
<1>2. CASE ~Rejected(m)
    <2>1. Result(m, d).passed = Passes(m, d)
        BY <1>2 DEF Result
    <2>2. m.operation \in Operations
        BY <1>2 DEF Rejected
    <2>0. /\ Field["Procedure"] = "procs" /\ Field["Parameter"] = "params"
          /\ Field["Interface"] = "ifaces"
        BY DEF Field
    <2>3. CASE m.operation = "requiresProcedure"
        <3>1. Passes(m, d) <=> \E p \in Of("Procedure", d) : Lets(m, p)
            BY <2>3 DEF Passes
        <3>2. Meant(m, d) <=> \E p \in Sent(d, "procs") : Allowed(m, d, "procs", p.id)
            BY <1>2, <2>3 DEF Meant
        <3>3. \A p \in Of("Procedure", d) : Lets(m, p) <=> Allowed(m, d, "procs", p.key)
            BY <2>0, LetsAllowed
        <3> QED
            BY <2>1, <3>1, <3>2, <3>3, EntitiesSent
    <2>4. CASE m.operation = "requiresParameter"
        <3>1. Passes(m, d) <=> \E p \in Of("Parameter", d) : Lets(m, p)
            BY <2>4 DEF Passes
        <3>2. Meant(m, d) <=> \E p \in Sent(d, "params") : Allowed(m, d, "params", p.id)
            BY <1>2, <2>4 DEF Meant
        <3>3. \A p \in Of("Parameter", d) : Lets(m, p) <=> Allowed(m, d, "params", p.key)
            BY <2>0, LetsAllowed
        <3> QED
            BY <2>1, <3>1, <3>2, <3>3, EntitiesSent
    <2>5. CASE m.operation = "requiresInterface"
        <3>1. Passes(m, d) <=>
                  \A p \in Of("Procedure", d) : \E i \in From(p, "Interface") : Lets(m, i)
            BY <2>5 DEF Passes
        <3>2. Meant(m, d) <=>
                  \A p \in Sent(d, "procs") : \E i \in Sent(d, "ifaces") :
                      i.proc = p.id /\ Allowed(m, d, "ifaces", i.id)
            BY <1>2, <2>5 DEF Meant
        <3>3. ASSUME NEW p \in Of("Procedure", d)
              PROVE  (\E i \in From(p, "Interface") : Lets(m, i))
                         <=> \E i \in Sent(d, "ifaces") :
                                 i.proc = p.key /\ Allowed(m, d, "ifaces", i.id)
            <4>1. \A i \in From(p, "Interface") : i \in Of("Interface", d)
                BY FromIsOf
            <4>2. \A i \in From(p, "Interface") : Lets(m, i) <=> Allowed(m, d, "ifaces", i.key)
                BY <2>0, <4>1, LetsAllowed
            <4> QED
                BY <4>2, InterfacesOf
        <3> DEFINE has(key) == \E i \in Sent(d, "ifaces") :
                                  i.proc = key /\ Allowed(m, d, "ifaces", i.id)
        <3>4. Passes(m, d) <=> \A p \in Of("Procedure", d) : has(p.key)
            BY <3>1, <3>3
        <3>5. Meant(m, d) <=> \A p \in Sent(d, "procs") : has(p.id)
            BY <3>2
        <3> HIDE DEF has
        <3> QED
            BY <2>1, <3>4, <3>5, EntitiesSent
    <2>6. CASE m.operation = "forbidsOrphan"
        <3>1. Passes(m, d) <=> \A n \in Of(m.label, d) : \E x \in edges : Owns(x, n)
            BY <2>6 DEF Passes
        <3>2. Meant(m, d) <=> (m.label = "Algorithm" => \A a \in AlgsOf(d) : Rooted(d, a))
            BY <1>2, <2>6 DEF Meant
        <3>3. CASE m.label = "Algorithm"
            BY <2>1, <3>1, <3>2, <3>3, AlgorithmsRooted, EntitiesSent
        <3>4. CASE m.label # "Algorithm"
            <4>1. m.label \in DOMAIN Owner
                BY <1>2, <2>6, <3>4, Owners DEF Rejected, OrphanLabels
            <4>2. ASSUME NEW n \in Of(m.label, d) PROVE \E x \in edges : Owns(x, n)
                <5>1. n \in nodes /\ n.label = m.label
                    BY DEF Of
                <5>2. PICK x \in edges : x[2] = n /\ x[1].label = Owner[n.label]
                    BY <4>1, <5>1, SettledTells DEF GraphInv, Owned
                <5>3. x[1].label \notin {"Pattern", "Parameter"}
                    BY <4>1, <5>1, <5>2, Owners
                <5> QED
                    BY <5>2, <5>3 DEF Owns
            <4> QED
                BY <2>1, <3>1, <3>2, <3>4, <4>2
        <3> QED
            BY <3>3, <3>4
    <2> QED
        BY <2>2, <2>3, <2>4, <2>5, <2>6 DEF Operations
<1> QED
    BY <1>1, <1>2

(* What a report would find now is what the envelopes call for.               *)
AnswersMeant ==
    \A d \in Key : Serial(d) =>
        /\ FoundUpTo(Len(Checks) + 1, d) = Faults(d)
        /\ \A m : Result(m, d).passed <=> Meant(m, d)

(* All of it, of the state alone.                                             *)
LEMMA AsPublished == PublishInv /\ ended = Len(commits) => AnswersMeant
<1> SUFFICES ASSUME PublishInv, ended = Len(commits), NEW d \in Key, Serial(d)
             PROVE  /\ FoundUpTo(Len(Checks) + 1, d) = Faults(d)
                    /\ \A m : Result(m, d).passed <=> Meant(m, d)
    BY DEF AnswersMeant
<1>1. Settled(d)
    BY DEF Settled
<1> QED
    BY <1>1, ChecksFind, RulesPass

------------------------------------------------------------------------------
(* Reports beside publishing.                                                 *)

(* A step of the report leaves publishing alone; any other leaves the report. *)
LEMMA ReportSteps ==
    ASSUME [Next]_vars
    PROVE  \/ UNCHANGED reportVars
           \/ \E d \in Asked : Resolve(d)
           \/ FetchPublishedAt \/ RunCheck \/ EvaluateRule \/ Assemble \/ ReportFails
BY DEF Next, vars

(* What committed stays, with all that the request sent.                      *)
LEMMA HistoryStays ==
    ASSUME PublishTypeOK, Flow, [Next]_vars
    PROVE  /\ Len(commits) \in Nat /\ Len(commits') \in Nat /\ Len(commits) <= Len(commits')
           /\ DOMAIN commits = 1 .. Len(commits)
           /\ \A i \in 1 .. Len(commits) :
                 /\ commits'[i] = commits[i]
                 /\ stamp'[commits[i]] = stamp[commits[i]]
                 /\ sent'[commits[i]] = sent[commits[i]]
                 /\ base'[commits[i]] = base[commits[i]]
           /\ Len(commits') = Len(commits) => UNCHANGED <<nodes, edges, writer>>
<1>0. Len(commits) \in Nat /\ DOMAIN commits = 1 .. Len(commits)
    BY DEF PublishTypeOK
<1>1. \A i \in DOMAIN commits : commits[i] \in Request /\ pc[commits[i]] \notin {"idle", "writing"}
    BY SeqElement DEF Flow, PublishTypeOK
<1>2. ASSUME NEW r \in Request, NEW e \in Envelope, Arrive(r, e)
      PROVE  /\ UNCHANGED <<nodes, edges, writer, commits>>
             /\ \A q \in Request \ {r} : stamp'[q] = stamp[q] /\ sent'[q] = sent[q] /\ base'[q] = base[q]
             /\ pc[r] = "idle"
    BY <1>2 DEF Arrive, PublishTypeOK
<1>3. ASSUME NEW r \in Request, Write(r) \/ Answer(r) \/ AnswerLost(r)
      PROVE  UNCHANGED <<nodes, edges, writer, commits, stamp, sent, base>>
    BY <1>3 DEF Write, Answer, AnswerLost
<1>4. ASSUME NEW r \in Request, NEW retried \in BOOLEAN, Abort(r, retried)
      PROVE  /\ UNCHANGED <<nodes, edges, writer, commits, stamp, sent>>
             /\ \A q \in Request \ {r} : base'[q] = base[q]
             /\ pc[r] = "writing"
    BY <1>4, AbortTells
<1>5. ASSUME NEW r \in Request, Commit(r)
      PROVE  /\ UNCHANGED <<stamp, sent, base>> /\ Len(commits') = Len(commits) + 1
             /\ \A i \in DOMAIN commits : commits'[i] = commits[i]
    BY <1>5, CommitTells
<1>6. CASE Rests
    BY <1>0, <1>6 DEF Rests
<1> QED
    BY <1>0, <1>1, <1>2, <1>3, <1>4, <1>5, <1>6, StepsArePublishes

(* While nothing commits the graph answers alike.                             *)
LEMMA QueriesStay ==
    ASSUME PublishTypeOK, Flow, NodesSound, [Next]_vars, Len(commits') = Len(commits)
    PROVE  /\ \A c, d : Findings(c, d)' = Findings(c, d)
           /\ \A m, d : Result(m, d)' = Result(m, d)
<1>1. UNCHANGED <<nodes, edges, writer>>
    BY HistoryStays
<1>2. \A n \in nodes : sent'[writer[n]] = sent[writer[n]]
    BY HistoryStays DEF NodesSound
<1>3. /\ \A label, d : Of(label, d)' = Of(label, d)
      /\ \A n, label : Into(n, label)' = Into(n, label) /\ From(n, label)' = From(n, label)
    BY <1>1 DEF Of, Into, From
<1>4. \A label, d : \A n \in Of(label, d) : n \in nodes
    BY DEF Of
<1>5. ASSUME NEW d PROVE OrphanPatterns(d)' = OrphanPatterns(d)
    BY <1>3 DEF OrphanPatterns
<1>6. ASSUME NEW d PROVE ProceduresWithoutInterface(d)' = ProceduresWithoutInterface(d)
    BY <1>3 DEF ProceduresWithoutInterface
<1>7. ASSUME NEW d PROVE DanglingParamLinks(d)' = DanglingParamLinks(d)
    BY <1>1, <1>3 DEF DanglingParamLinks
<1>8. ASSUME NEW d PROVE AlgorithmsWithoutProcedure(d)' = AlgorithmsWithoutProcedure(d)
    BY <1>3 DEF AlgorithmsWithoutProcedure
<1>9. ASSUME NEW d PROVE ParametersWithoutDatatype(d)' = ParametersWithoutDatatype(d)
    <2> DEFINE typed(m) == LastRow(sent[writer[m]].params, m.key).typed
               found == {m \in Of("Parameter", d) : ~typed(m)}
    <2>1. \A m \in Of("Parameter", d) : sent'[writer'[m]] = sent[writer[m]]
        BY <1>1, <1>2, <1>4
    <2>2. \A m \in Of("Parameter", d) : typed(m)' <=> typed(m)
        BY <2>1
    <2>3. /\ ParametersWithoutDatatype(d) = {<<n.key>> : n \in found}
          /\ ParametersWithoutDatatype(d)' = {<<n.key>> : n \in found'}
        BY DEF ParametersWithoutDatatype
    <2>4. Of("Parameter", d)' = Of("Parameter", d)
        BY <1>3
    <2> HIDE DEF typed
    <2>5. found' = found
        BY <2>2, <2>4
    <2> HIDE DEF found
    <2> QED
        BY <2>3, <2>5
<1>10. ASSUME NEW d PROVE ObjectsWithoutBehavior(d)' = ObjectsWithoutBehavior(d)
    BY <1>3 DEF ObjectsWithoutBehavior
<1>11. ASSUME NEW d PROVE AnnotationConventions(d)' = AnnotationConventions(d)
    BY <1>1, <1>2, <1>3, <1>4 DEF AnnotationConventions
<1>12. \A c, d : Findings(c, d)' = Findings(c, d)
    BY <1>5, <1>6, <1>7, <1>8, <1>9, <1>10, <1>11 DEF Findings
<1>13. ASSUME NEW m, NEW d PROVE Passes(m, d)' = Passes(m, d)
    <2>1. \A n \in nodes : Lets(m, n)' <=> Lets(m, n)
        BY <1>1, <1>2 DEF Lets, As
    <2>2. \A n, label : \A i \in From(n, label) : i \in nodes
        BY DEF From, PublishTypeOK
    <2>3. \A label : \A n \in Of(label, d) : Lets(m, n)' <=> Lets(m, n)
        BY <1>4, <2>1
    <2>4. \A n, label : \A i \in From(n, label) : Lets(m, i)' <=> Lets(m, i)
        BY <2>1, <2>2
    <2> QED
        BY <1>1, <1>3, <2>3, <2>4 DEF Passes
<1>14. \A m, d : Result(m, d)' = Result(m, d)
    BY <1>13 DEF Result
<1> QED
    BY <1>12, <1>14

(* What an answer is measured by stays as it was.                             *)
LEMMA AnswerStays ==
    ASSUME PublishTypeOK, Flow, [Next]_vars, ended' = ended, ended \in Nat, ended <= Len(commits), NEW d
    PROVE  /\ Serial(d)' <=> Serial(d)
           /\ Faults(d)' = Faults(d)
           /\ \A m : Meant(m, d)' <=> Meant(m, d)
<1>1. \A i \in 1 .. ended : /\ commits'[i] = commits[i] /\ sent'[commits[i]] = sent[commits[i]]
                            /\ base'[commits[i]] = base[commits[i]]
    BY HistoryStays
<1>2. PublishesOf(d)' = PublishesOf(d) /\ \A i \in PublishesOf(d) : i \in 1 .. ended
    BY <1>1 DEF PublishesOf
<1>3. \A i \in PublishesOf(d) : Publish(i)' = Publish(i)
    BY <1>1, <1>2 DEF Publish
<1>4. /\ \A field : Sent(d, field)' = Sent(d, field)
      /\ AlgsOf(d)' = AlgsOf(d)
    BY <1>2, <1>3 DEF Sent, AlgsOf
<1>5. ASSUME NEW a \in AlgsOf(d) PROVE Warned(d, a)' = Warned(d, a)
    <2> DEFINE S == {i \in PublishesOf(d) : a \in Publish(i).algs}
    <2>1. S' = S
        BY <1>2, <1>3
    <2>2. S \subseteq Nat /\ S # {} /\ \A i \in S : i <= ended
        BY <1>2, SentAre
    <2>3. Max(S) \in S
        BY <2>2, MaxOf
    <2>4. Max(S) \in PublishesOf(d)
        BY <2>3
    <2> DEFINE k == Max(S)
    <2>5. k' = k
        BY <2>1
    <2>6. Warned(d, a) = Publish(k).warnings
        BY DEF Warned
    <2>7. Warned(d, a)' = (Publish(k).warnings)'
        BY DEF Warned
    <2>8. (Publish(k).warnings)' = Publish(k).warnings
        <3>1. k \in 1 .. ended
            BY <1>2, <2>4
        <3> HIDE DEF k
        <3> QED
            BY <1>1, <2>5, <3>1 DEF Publish
    <2> QED
        BY <2>6, <2>7, <2>8
<1>6. ProcsWithoutInterface(d)' = ProcsWithoutInterface(d)
    BY <1>4 DEF ProcsWithoutInterface
<1>7. \A rows, key : OwnersOf(rows, key)' = OwnersOf(rows, key)
    BY DEF OwnersOf
<1>8. Faults(d)' = Faults(d)
    <2> DEFINE links == {x \in UNION {ParamLinks(Publish(i)) : i \in PublishesOf(d)} :
                            Cardinality(OwnersOf(Sent(d, "params"), x[1])
                                            \cup OwnersOf(Sent(d, "ifaces"), x[2])) > 1}
               warned == UNION {{[check |-> "annotation_convention", of |-> <<a, w>>] :
                                    w \in Warned(d, a)} : a \in AlgsOf(d)}
               empty == {b \in AlgsOf(d) : \A p \in Sent(d, "procs") : p.alg # b}
    <2>1. links' = links
        <3>1. \A i \in PublishesOf(d) : ParamLinks(Publish(i))' = ParamLinks(Publish(i))
            BY <1>3 DEF ParamLinks
        <3>2. \A x : (x \in UNION {ParamLinks(Publish(i)) : i \in PublishesOf(d)})'
                         <=> x \in UNION {ParamLinks(Publish(i)) : i \in PublishesOf(d)}
            BY <1>2, <3>1
        <3> DEFINE owners(x) == OwnersOf(Sent(d, "params"), x[1]) \cup OwnersOf(Sent(d, "ifaces"), x[2])
                   all == UNION {ParamLinks(Publish(i)) : i \in PublishesOf(d)}
        <3>3. \A x : owners(x)' = owners(x)
            BY <1>4 DEF OwnersOf
        <3>4. links = {x \in all : Cardinality(owners(x)) > 1}
            OBVIOUS
        <3>5. links' = {x \in all' : Cardinality(owners(x)') > 1}
            OBVIOUS
        <3>6. all' = all
            BY <3>2
        <3> HIDE DEF links, owners, all
        <3> QED
            BY <3>3, <3>4, <3>5, <3>6
    <2>2. warned' = warned
        <3> HIDE DEF Warned
        <3> QED
            BY <1>4, <1>5
    <2>3. empty' = empty
        BY <1>4
    <2>4. Faults(d) =
              {[check |-> "procedure_without_interface", of |-> <<p>>] : p \in ProcsWithoutInterface(d)}
              \cup {[check |-> "dangling_param_link", of |-> l] : l \in links}
              \cup {[check |-> "algorithm_without_procedure", of |-> <<a>>] : a \in empty}
              \cup warned
        BY DEF Faults
    <2>5. Faults(d)' =
              {[check |-> "procedure_without_interface", of |-> <<p>>] : p \in ProcsWithoutInterface(d)'}
              \cup {[check |-> "dangling_param_link", of |-> l] : l \in links'}
              \cup {[check |-> "algorithm_without_procedure", of |-> <<a>>] : a \in empty'}
              \cup warned'
        BY DEF Faults
    <2> HIDE DEF links, warned, empty
    <2> QED
        BY <1>6, <2>1, <2>2, <2>3, <2>4, <2>5
<1>9. Serial(d)' <=> Serial(d)
    BY <1>1, <1>2 DEF Serial
<1>10. \A a : Rooted(d, a)' <=> Rooted(d, a)
    BY <1>2, <1>3 DEF Rooted
<1>11. ASSUME NEW field, NEW x \in Sent(d, field)
       PROVE  LastAs(d, field, x.id)' = LastAs(d, field, x.id)
    <2> DEFINE S == {i \in PublishesOf(d) : x.id \in Ids(Publish(i)[field])}
               k == Max(S)
    <2>1. S' = S
        BY <1>2, <1>3
    <2>2. S # {}
        BY DEF Sent, ToSet, Ids
    <2>3. S \subseteq Nat /\ \A i \in S : i <= ended
        BY <1>2
    <2>4. k \in S
        BY <2>2, <2>3, MaxOf
    <2>5. k \in 1 .. ended
        BY <1>2, <2>4
    <2>6. k' = k
        BY <2>1
    <2>7. /\ LastAs(d, field, x.id) = LastRow(Publish(k)[field], x.id).as
          /\ LastAs(d, field, x.id)' = LastRow(Publish(k)'[field], x.id).as
        BY DEF LastAs
    <2>8. Publish(k)' = Publish(k)
        <3> HIDE DEF k
        <3> QED
            BY <1>1, <2>5, <2>6 DEF Publish
    <2> HIDE DEF k
    <2> QED
        BY <2>7, <2>8
<1>12. \A m, field : \A x \in Sent(d, field) :
           Allowed(m, d, field, x.id)' <=> Allowed(m, d, field, x.id)
    BY <1>11 DEF Allowed
<1>13. \A m : Rejected(m)' <=> Rejected(m)
    BY DEF Rejected
<1>14. ASSUME NEW m PROVE Meant(m, d)' <=> Meant(m, d)
    <2>1. ASSUME NEW field
          PROVE  (\E x \in Sent(d, field) : Allowed(m, d, field, x.id))'
                     <=> \E x \in Sent(d, field) : Allowed(m, d, field, x.id)
        BY <1>4, <1>12
    <2>2. (\A p \in Sent(d, "procs") : \E i \in Sent(d, "ifaces") :
              i.proc = p.id /\ Allowed(m, d, "ifaces", i.id))'
              <=> \A p \in Sent(d, "procs") : \E i \in Sent(d, "ifaces") :
                      i.proc = p.id /\ Allowed(m, d, "ifaces", i.id)
        BY <1>4, <1>12
    <2>3. (\A a \in AlgsOf(d) : Rooted(d, a))' <=> \A a \in AlgsOf(d) : Rooted(d, a)
        BY <1>4, <1>10
    <2> HIDE DEF Allowed, Rooted, AlgsOf, Sent, Rejected
    <2> QED
        BY <1>13, <2>1, <2>2, <2>3 DEF Meant
<1> QED
    BY <1>8, <1>9, <1>14

(* The verdicts are what the rules mean.                                      *)
RulesMeant ==
    Quiet /\ Serial(report.def) => \A x \in report.results : x.passed <=> Meant(x.mapping, report.def)

(* Which is what RulesAsPublished says.                                       *)
LEMMA RulesMean == RulesAsPublished <=> RulesMeant
BY DEF RulesAsPublished, RulesMeant, Meant

(* Keys of nodes but the behavior's are keys.                                 *)
LEMMA NodeKeys ==
    ASSUME Flow, NodesSound, NEW n \in nodes, n.label # "Behavior"
    PROVE  n.key \in Key
<1>1. PICK i \in DOMAIN commits : n.key \in Rows(sent[commits[i]], n.label)
    BY DEF NodesSound, Brought
<1>2. sent[commits[i]] \in Envelope
    BY DEF Flow
<1> QED
    BY <1>1, <1>2, RowKeys

(* A finding names keys.                                                      *)
LEMMA FindingsTyped ==
    ASSUME PublishTypeOK, Flow, NodesSound, NEW c \in DOMAIN Checks, NEW d,
           NEW f \in Findings(Checks[c], d)
    PROVE  f \in Seq(Key)
<1>1. /\ DOMAIN Checks = 1 .. 7 /\ Checks[1] = "orphan_pattern"
      /\ Checks[2] = "procedure_without_interface" /\ Checks[3] = "dangling_param_link"
      /\ Checks[4] = "algorithm_without_procedure" /\ Checks[5] = "parameter_without_datatype"
      /\ Checks[6] = "object_without_behavior" /\ Checks[7] = "annotation_convention"
    BY DEF Checks
<1>2. \A label : \A n \in Of(label, d) : label # "Behavior" => n.key \in Key
    BY NodeKeys DEF Of
<1>3. \A n \in nodes : sent[writer[n]].warnings \subseteq Key
    <2> TAKE n \in nodes
    <2>1. PICK i \in DOMAIN commits : writer[n] = commits[i]
        BY DEF NodesSound
    <2> QED
        BY <2>1, EnvelopeShape DEF Flow
<1>4. \A k, w \in Key : <<k>> \in Seq(Key) /\ <<k, w>> \in Seq(Key)
    OBVIOUS
<1>5. CASE c = 1
    BY <1>1, <1>2, <1>4, <1>5 DEF Findings, OrphanPatterns
<1>6. CASE c = 2
    BY <1>1, <1>2, <1>4, <1>6 DEF Findings, ProceduresWithoutInterface
<1>7. CASE c = 3
    BY ZenonT(60), <1>1, <1>2, <1>4, <1>7 DEF Findings, DanglingParamLinks
<1>8. CASE c = 4
    BY <1>1, <1>2, <1>4, <1>8 DEF Findings, AlgorithmsWithoutProcedure
<1>9. CASE c = 5
    BY <1>1, <1>2, <1>4, <1>9 DEF Findings, ParametersWithoutDatatype
<1>10. CASE c = 6
    BY <1>1, <1>2, <1>4, <1>10 DEF Findings, ObjectsWithoutBehavior
<1>11. CASE c = 7
    <2>1. f \in AnnotationConventions(d)
        BY <1>1, <1>11 DEF Findings
    <2>2. PICK n \in Of("Algorithm", d) : \E w \in sent[writer[n]].warnings : f = <<n.key, w>>
        BY <2>1 DEF AnnotationConventions
    <2>3. n \in nodes
        BY DEF Of
    <2> QED
        BY <1>2, <1>3, <1>4, <2>2, <2>3
<1> QED
    BY <1>1, <1>5, <1>6, <1>7, <1>8, <1>9, <1>10, <1>11

(* A result is one of its mapping.                                            *)
LEMMA ResultTyped ==
    ASSUME NEW m \in Mapping, NEW d
    PROVE  /\ Result(m, d) \in [mapping : Mapping, passed : BOOLEAN, exists : BOOLEAN]
           /\ Result(m, d).mapping = m
<1>1. CASE Rejected(m)
    BY <1>1 DEF Result
<1>2. CASE ~Rejected(m)
    <2>1. m.operation \in Operations
        BY <1>2 DEF Rejected
    <2>2. Passes(m, d) \in BOOLEAN
        BY <2>1 DEF Passes, Operations
    <2>3. Result(m, d) = [mapping |-> m, passed |-> Passes(m, d), exists |-> m.rule \in Rule]
        BY <1>2 DEF Result
    <2> HIDE DEF Passes
    <2> QED
        BY <2>2, <2>3
<1> QED
    BY <1>1, <1>2

(* The stamp is 0 or one of a publish that committed.                         *)
LEMMA StampIs ==
    ASSUME PublishTypeOK, Flow, NodesSound, NEW d, NEW k,
           k = Max({0} \cup {stamp[writer[n]] : n \in {m \in nodes : m.def = d}})
    PROVE  /\ k \in Nat
           /\ k # 0 => \E i \in 1 .. Len(commits) : stamp[commits[i]] = k
<1> DEFINE S == {0} \cup {stamp[writer[n]] : n \in {m \in nodes : m.def = d}}
           c == Cardinality(Arrived)
<1>1. c \in Nat /\ stamp \in [Request -> 0 .. c] /\ writer \in [nodes -> Request]
    BY FS_CardinalityType DEF PublishTypeOK, Flow
<1> HIDE DEF c
<1>2. S \subseteq Nat /\ S # {} /\ \A x \in S : x <= c
    BY <1>1
<1> HIDE DEF S
<1>3. k \in S
    <2>1. Max(S) \in S
        BY <1>1, <1>2, MaxOf
    <2> QED
        BY <2>1 DEF S
<1>4. ASSUME k # 0 PROVE \E i \in 1 .. Len(commits) : stamp[commits[i]] = k
    <2>1. PICK n \in nodes : k = stamp[writer[n]]
        BY <1>3, <1>4 DEF S
    <2>2. PICK i \in DOMAIN commits : writer[n] = commits[i]
        BY DEF NodesSound
    <2>3. DOMAIN commits = 1 .. Len(commits)
        BY DEF PublishTypeOK
    <2> QED
        BY <2>1, <2>2, <2>3
<1> QED
    BY <1>2, <1>3, <1>4

------------------------------------------------------------------------------
(* Nothing is reported.                                                       *)
LEMMA InitReport == Init => ReportInv
<1> SUFFICES ASSUME Init PROVE ReportInv
    OBVIOUS
<1> USE DEF Init
<1>1. PublishTypeOK
    BY InitPublish DEF PublishInv
<1>2. Len(commits) = 0 /\ Len(Checks) = 7
    BY DEF PublishInit, Checks
<1>3. report \in
          [step : {"idle", "stamp", "checks", "rules", "answered", "failed", "no definition",
                   "ambiguous"},
           check : 1 .. Len(Checks) + 1, def : Key \cup {None}, publishedAt : Nat,
           findings : SUBSET [check : ToSet(Checks), of : Seq(Key)],
           results : SUBSET [mapping : Mapping, passed : BOOLEAN, exists : BOOLEAN]]
    BY <1>2
<1>4. TypeOK
    BY <1>1, <1>3 DEF TypeOK
<1>5. ReportFlow
    BY <1>2 DEF ReportFlow
<1> QED
    BY <1>4, <1>5 DEF ReportInv, StampInv, FoundInv, FindingsAsPublished, RulesAsPublished, Quiet

(* There are seven checks.                                                    *)
LEMMA SevenChecks ==
    Len(Checks) = 7 /\ DOMAIN Checks = 1 .. 7 /\ \A c \in 1 .. 7 : Checks[c] \in ToSet(Checks)
BY DEF Checks, ToSet

(* A report takes its steps in order and keeps its types.                     *)
LEMMA NextReportFlow ==
    ASSUME PublishInv, PublishInv', TypeOK, ReportFlow, [Next]_vars
    PROVE  TypeOK' /\ ReportFlow'
<1>0. /\ PublishTypeOK /\ Flow /\ NodesSound /\ PublishTypeOK'
      /\ Len(commits) \in Nat /\ Len(commits') \in Nat /\ Len(commits) <= Len(commits')
      /\ begun \in Nat /\ checked \in Nat /\ ended \in Nat
      /\ Len(Checks) = 7 /\ DOMAIN Checks = 1 .. 7
    BY HistoryStays, SevenChecks DEF PublishInv, GraphInv, TypeOK
<1> DEFINE Reports ==
               [step : {"idle", "stamp", "checks", "rules", "answered", "failed", "no definition",
                        "ambiguous"},
                check : 1 .. Len(Checks) + 1, def : Key \cup {None}, publishedAt : Nat,
                findings : SUBSET [check : ToSet(Checks), of : Seq(Key)],
                results : SUBSET [mapping : Mapping, passed : BOOLEAN, exists : BOOLEAN]]
<1>r. report \in Reports
    BY DEF TypeOK
<1>t. TypeOK' <=> report' \in Reports /\ {begun', checked', ended'} \subseteq Nat
    BY <1>0 DEF TypeOK
<1>1. CASE UNCHANGED reportVars
    <2>1. UNCHANGED <<report, begun, checked, ended>>
        BY <1>1 DEF reportVars
    <2>2. TypeOK'
        BY <1>0, <1>r, <1>t, <2>1
    <2>3. begun <= Len(commits') /\ checked <= Len(commits') /\ ended <= Len(commits')
        BY <1>0 DEF ReportFlow
    <2> QED
        BY <2>1, <2>2, <2>3 DEF ReportFlow
<1>2. ASSUME NEW d \in Asked, Resolve(d) PROVE TypeOK' /\ ReportFlow'
    <2>1. UNCHANGED <<checked, ended, commits>> /\ begun' = Len(commits) /\ report.step = "idle"
        BY <1>2 DEF Resolve, publishVars
    <2>2. \/ d # None /\ report' = [report EXCEPT !.step = "stamp", !.def = d]
          \/ \E x \in DefinitionIds : report' = [report EXCEPT !.step = "stamp", !.def = x]
          \/ report' = [report EXCEPT !.step = "no definition"]
          \/ report' = [report EXCEPT !.step = "ambiguous"]
        <3>1. Cardinality(DefinitionIds) = 1 => DefinitionIds # {}
            BY FS_EmptySet
        <3> QED
            BY <1>2, <3>1 DEF Resolve
    <2>3. Asked \subseteq Key \cup {None} /\ DefinitionIds \subseteq Key
        BY SMTT(30), <1>0, MappingAssumption DEF DefinitionIds, PublishTypeOK, Nodes
    <2>4. \/ \E x \in Key : report' = [report EXCEPT !.step = "stamp", !.def = x]
          \/ report' = [report EXCEPT !.step = "no definition"]
          \/ report' = [report EXCEPT !.step = "ambiguous"]
        BY <2>2, <2>3
    <2>5. /\ report' \in Reports /\ report'.check = report.check
          /\ report'.findings = report.findings /\ report'.results = report.results
          /\ \/ report'.step = "stamp" /\ report'.def \in Key
             \/ report'.step \in {"no definition", "ambiguous"}
        BY <1>r, <2>4
    <2>6. TypeOK'
        BY <1>0, <1>t, <2>1, <2>5
    <2> HIDE DEF Reports
    <2> QED
        BY <1>0, <2>1, <2>5, <2>6 DEF ReportFlow
<1>3. CASE FetchPublishedAt
    <2> DEFINE k == Max({0} \cup {stamp[writer[n]] : n \in {m \in nodes : m.def = report.def}})
    <2>1. k \in Nat
        BY <1>0, StampIs
    <2>2. /\ UNCHANGED <<begun, checked, ended, commits>> /\ report.step = "stamp"
          /\ report' = [report EXCEPT !.step = "checks", !.publishedAt = k]
        BY <1>3 DEF FetchPublishedAt, publishVars
    <2> HIDE DEF k
    <2>3. /\ report' \in Reports /\ report'.step = "checks" /\ report'.check = report.check
          /\ report'.def = report.def
        BY <1>r, <2>1, <2>2
    <2>4. TypeOK'
        BY <1>0, <1>t, <2>2, <2>3
    <2> HIDE DEF Reports
    <2> QED
        BY <1>0, <2>2, <2>3, <2>4 DEF ReportFlow
<1>4. CASE RunCheck
    <2> DEFINE c == report.check
               found == {[check |-> Checks[c], of |-> f] : f \in Findings(Checks[c], report.def)}
    <2>1. report.step = "checks" /\ c \in 1 .. 7
        BY <1>0, <1>4 DEF RunCheck, ReportFlow
    <2>2. found \subseteq [check : ToSet(Checks), of : Seq(Key)]
        BY <1>0, <2>1, FindingsTyped, SevenChecks
    <2>3. /\ UNCHANGED <<begun, ended, commits>>
          /\ report' = [report EXCEPT !.findings = @ \cup found, !.check = @ + 1,
                           !.step = IF c = Len(Checks) THEN "rules" ELSE @]
          /\ checked' \in {Len(commits), checked}
        BY <1>4 DEF RunCheck, publishVars
    <2> HIDE DEF found
    <2>4. /\ report' \in Reports /\ report'.check = c + 1 /\ report'.def = report.def
          /\ report'.step = IF c = 7 THEN "rules" ELSE "checks"
        <3> DEFINE fs == report.findings \cup found
                   k == c + 1
                   st == IF c = 7 THEN "rules" ELSE "checks"
        <3>1. report' = [report EXCEPT !.findings = fs, !.check = k, !.step = st]
            BY <1>0, <2>1, <2>3
        <3>2. fs \in SUBSET [check : ToSet(Checks), of : Seq(Key)]
            BY <1>r, <2>2
        <3>3. k \in 1 .. Len(Checks) + 1
            BY <1>0, <2>1
        <3>4. st \in {"checks", "rules"}
            OBVIOUS
        <3> HIDE DEF fs, k, st
        <3>5. report' \in Reports
            BY <1>r, <3>1, <3>2, <3>3, <3>4
        <3>6. report'.check = k /\ report'.def = report.def /\ report'.step = st
            BY <1>r, <3>1
        <3> QED
            BY <3>5, <3>6 DEF k, st
    <2>5. TypeOK'
        BY <1>0, <1>t, <2>3, <2>4
    <2> HIDE DEF Reports
    <2> QED
        BY <1>0, <2>1, <2>3, <2>4, <2>5 DEF ReportFlow
<1>5. CASE EvaluateRule
    <2>1. PICK m \in Mapping : report' = [report EXCEPT !.results = @ \cup {Result(m, report.def)}]
        BY <1>5 DEF EvaluateRule
    <2>2. UNCHANGED <<begun, checked, ended, commits>> /\ report.step = "rules"
        BY <1>5 DEF EvaluateRule, publishVars
    <2>3. Result(m, report.def) \in [mapping : Mapping, passed : BOOLEAN, exists : BOOLEAN]
        BY ResultTyped
    <2>4. /\ report' \in Reports /\ report'.check = report.check /\ report'.def = report.def
          /\ report'.step = "rules"
        BY <1>r, <2>1, <2>2, <2>3
    <2>5. TypeOK'
        BY <1>0, <1>t, <2>2, <2>4
    <2> HIDE DEF Reports
    <2> QED
        BY <1>0, <2>2, <2>4, <2>5 DEF ReportFlow
<1>6. CASE Assemble
    <2>1. /\ report.step = "rules" /\ report' = [report EXCEPT !.step = "answered"]
          /\ ended' = Len(commits) /\ UNCHANGED <<begun, checked, commits>>
        BY <1>6 DEF Assemble, publishVars
    <2>2. /\ report' \in Reports /\ report'.check = report.check /\ report'.def = report.def
          /\ report'.step = "answered"
        BY <1>r, <2>1
    <2>3. TypeOK'
        BY <1>0, <1>t, <2>1, <2>2
    <2> HIDE DEF Reports
    <2> QED
        BY <1>0, <2>1, <2>2, <2>3 DEF ReportFlow
<1>7. CASE ReportFails
    <2>1. report' = [report EXCEPT !.step = "failed"] /\ UNCHANGED <<begun, checked, ended, commits>>
        BY <1>7 DEF ReportFails
    <2>2. report' \in Reports /\ report'.step = "failed"
        BY <1>r, <2>1
    <2>3. TypeOK'
        BY <1>0, <1>t, <2>1, <2>2
    <2> HIDE DEF Reports
    <2> QED
        BY <1>0, <2>1, <2>2, <2>3 DEF ReportFlow
<1> QED
    BY <1>1, <1>2, <1>3, <1>4, <1>5, <1>6, <1>7, ReportSteps

(* The stamp is read before the first check.                                  *)
LEMMA NextStamp ==
    ASSUME PublishInv, TypeOK, ReportFlow, StampInv, [Next]_vars
    PROVE  StampInv'
<1>0. /\ PublishTypeOK /\ Flow /\ NodesSound
      /\ Len(commits) \in Nat /\ Len(commits') \in Nat /\ Len(commits) <= Len(commits')
      /\ checked \in Nat /\ checked <= Len(commits)
    BY HistoryStays DEF PublishInv, GraphInv, TypeOK, ReportFlow
<1>h. \A i \in 1 .. Len(commits) : stamp'[commits'[i]] = stamp[commits[i]]
    BY <1>0, HistoryStays
<1>c. report.check \in 1 .. 8
    <2>1. report.check \in 1 .. Len(Checks) + 1
        BY DEF TypeOK
    <2> QED
        BY <2>1, SevenChecks
<1>1. CASE UNCHANGED reportVars
    <2>1. UNCHANGED <<report, checked>>
        BY <1>1 DEF reportVars
    <2> SUFFICES ASSUME report.step \in {"checks", "rules", "answered"}, report.publishedAt # 0
                 PROVE  \E i \in 1 .. (IF report.check = 1 THEN Len(commits') ELSE checked) :
                            stamp'[commits'[i]] = report.publishedAt
        BY <2>1 DEF StampInv
    <2>2. PICK i \in 1 .. (IF report.check = 1 THEN Len(commits) ELSE checked) :
              stamp[commits[i]] = report.publishedAt
        BY DEF StampInv
    <2> QED
        BY <1>0, <1>h, <2>2
<1>2. ASSUME NEW d \in Asked, Resolve(d) PROVE StampInv'
    <2>1. report'.step \in {"stamp", "no definition", "ambiguous"}
        BY <1>2 DEF Resolve, TypeOK
    <2> QED
        BY <2>1 DEF StampInv
<1>3. CASE FetchPublishedAt
    <2> PICK k : k = Max({0} \cup {stamp[writer[n]] : n \in {m \in nodes : m.def = report.def}})
        OBVIOUS
    <2>1. k # 0 => \E i \in 1 .. Len(commits) : stamp[commits[i]] = k
        <3> PICK d : d = report.def
            OBVIOUS
        <3>1. k = Max({0} \cup {stamp[writer[n]] : n \in {m \in nodes : m.def = d}})
            OBVIOUS
        <3> QED
            BY <1>0, <3>1, StampIs
    <2>2. /\ UNCHANGED <<commits, stamp>> /\ report.step = "stamp"
          /\ report' = [report EXCEPT !.step = "checks", !.publishedAt = k]
        BY <1>3 DEF FetchPublishedAt, publishVars
    <2>3. report'.publishedAt = k /\ report'.check = 1
        BY <2>2 DEF TypeOK, ReportFlow
    <2> QED
        BY <2>1, <2>2, <2>3 DEF StampInv
<1>4. CASE RunCheck
    <2>1. /\ UNCHANGED <<commits, stamp>> /\ report.step = "checks"
          /\ report'.publishedAt = report.publishedAt /\ report'.check = report.check + 1
          /\ checked' = IF report.check = 1 THEN Len(commits) ELSE checked
        BY <1>4 DEF RunCheck, publishVars, TypeOK
    <2>2. report'.check # 1
        BY <1>c, <2>1
    <2> QED
        BY <2>1, <2>2 DEF StampInv
<1>5. CASE EvaluateRule \/ Assemble
    <2>1. /\ UNCHANGED <<commits, stamp, checked>> /\ report.step = "rules"
          /\ report'.publishedAt = report.publishedAt /\ report'.check = report.check
        BY <1>5 DEF EvaluateRule, Assemble, publishVars, TypeOK
    <2> QED
        BY <2>1 DEF StampInv
<1>6. CASE ReportFails
    <2>1. report'.step = "failed"
        BY <1>6 DEF ReportFails, TypeOK
    <2> QED
        BY <2>1 DEF StampInv
<1> QED
    BY <1>1, <1>2, <1>3, <1>4, <1>5, <1>6, ReportSteps

(* What a report found is what the graph it looks at answers.                 *)
LEMMA NextFound ==
    ASSUME PublishInv, TypeOK, ReportFlow, FoundInv, [Next]_vars
    PROVE  FoundInv'
<1>0. /\ PublishTypeOK /\ Flow /\ NodesSound
      /\ Len(commits) \in Nat /\ Len(commits') \in Nat /\ Len(commits) <= Len(commits')
      /\ begun \in Nat /\ begun <= Len(commits)
    BY HistoryStays DEF PublishInv, GraphInv, TypeOK, ReportFlow
<1>c. report.check \in 1 .. 8
    <2>1. report.check \in 1 .. Len(Checks) + 1
        BY DEF TypeOK
    <2> QED
        BY <2>1, SevenChecks
<1>q. Len(commits') = Len(commits) =>
          /\ \A k, d : FoundUpTo(k, d)' = FoundUpTo(k, d)
          /\ \A m, d : Result(m, d)' = Result(m, d)
    BY <1>0, QueriesStay DEF FoundUpTo
<1>1. CASE UNCHANGED reportVars
    <2>1. UNCHANGED <<report, begun>>
        BY <1>1 DEF reportVars
    <2> SUFFICES ASSUME report.step \in {"checks", "rules"}, begun = Len(commits')
                 PROVE  /\ report.findings = FoundUpTo(report.check, report.def)'
                        /\ \A x \in report.results : x = Result(x.mapping, report.def)'
        BY <2>1 DEF FoundInv
    <2>2. Len(commits') = Len(commits)
        BY <1>0
    <2>3. /\ report.findings = FoundUpTo(report.check, report.def)
          /\ \A x \in report.results : x = Result(x.mapping, report.def)
        BY <2>2 DEF FoundInv
    <2> PICK k, d : k = report.check /\ d = report.def
        OBVIOUS
    <2>4. FoundUpTo(report.check, report.def)' = FoundUpTo(k, d)'
        BY <2>1
    <2>5. \A m : Result(m, report.def)' = Result(m, d)'
        BY <2>1
    <2> QED
        BY <1>q, <2>2, <2>3, <2>4, <2>5
<1>2. ASSUME NEW d \in Asked, Resolve(d) PROVE FoundInv'
    <2>1. report'.step \in {"stamp", "no definition", "ambiguous"}
        BY <1>2 DEF Resolve, TypeOK
    <2> QED
        BY <2>1 DEF FoundInv
<1>3. CASE FetchPublishedAt
    <2>1. /\ report'.findings = {} /\ report'.results = {} /\ report'.check = 1
        BY <1>3 DEF FetchPublishedAt, TypeOK, ReportFlow
    <2>2. \A d : FoundUpTo(1, d)' = {}
        BY DEF FoundUpTo
    <2> QED
        BY <2>1, <2>2 DEF FoundInv
<1>4. CASE RunCheck
    <2> PICK c, d : c = report.check /\ d = report.def
        OBVIOUS
    <2>1. /\ UNCHANGED <<begun, commits>> /\ report.step = "checks"
          /\ report'.findings =
                report.findings \cup {[check |-> Checks[c], of |-> f] : f \in Findings(Checks[c], d)}
          /\ report'.check = c + 1 /\ report'.def = d /\ report'.results = report.results
        BY <1>4 DEF RunCheck, publishVars, TypeOK
    <2> SUFFICES ASSUME begun = Len(commits)
                 PROVE  /\ report'.findings = FoundUpTo(c + 1, d)'
                        /\ \A x \in report.results : x = Result(x.mapping, d)'
        BY <2>1 DEF FoundInv
    <2>2. /\ report.findings = FoundUpTo(c, d)
          /\ \A x \in report.results : x = Result(x.mapping, d)
        BY <2>1 DEF FoundInv
    <2>3. FoundUpTo(c + 1, d) =
              FoundUpTo(c, d) \cup {[check |-> Checks[c], of |-> f] : f \in Findings(Checks[c], d)}
        <3>1. 1 .. (c + 1) - 1 = (1 .. c - 1) \cup {c}
            BY <1>c
        <3> QED
            BY <3>1 DEF FoundUpTo
    <2> QED
        BY <1>q, <2>1, <2>2, <2>3
<1>5. CASE EvaluateRule
    <2> PICK c, d : c = report.check /\ d = report.def
        OBVIOUS
    <2>1. PICK m \in Mapping : report' = [report EXCEPT !.results = @ \cup {Result(m, report.def)}]
        BY <1>5 DEF EvaluateRule
    <2>2. UNCHANGED <<begun, commits>> /\ report.step = "rules"
        BY <1>5 DEF EvaluateRule, publishVars
    <2>3. /\ report'.findings = report.findings /\ report'.check = c /\ report'.def = d
          /\ report'.results = report.results \cup {Result(m, d)}
        BY <2>1 DEF TypeOK
    <2> SUFFICES ASSUME begun = Len(commits)
                 PROVE  /\ report'.findings = FoundUpTo(c, d)'
                        /\ \A x \in report'.results : x = Result(x.mapping, d)'
        BY <2>2, <2>3 DEF FoundInv
    <2>4. /\ report.findings = FoundUpTo(c, d)
          /\ \A x \in report.results : x = Result(x.mapping, d)
        BY <2>2 DEF FoundInv
    <2>5. Result(m, d).mapping = m
        BY ResultTyped
    <2> QED
        BY <1>q, <2>2, <2>3, <2>4, <2>5
<1>6. CASE Assemble \/ ReportFails
    <2>1. report'.step \in {"answered", "failed"}
        BY <1>6 DEF Assemble, ReportFails, TypeOK
    <2> QED
        BY <2>1 DEF FoundInv
<1> QED
    BY <1>1, <1>2, <1>3, <1>4, <1>5, <1>6, ReportSteps

(* And what it answers is what the envelopes call for.                        *)
LEMMA NextAnswered ==
    ASSUME PublishInv, PublishInv', TypeOK, ReportFlow, FoundInv,
           FindingsAsPublished, RulesAsPublished, [Next]_vars
    PROVE  FindingsAsPublished' /\ RulesAsPublished'
<1>0. /\ PublishTypeOK /\ Flow /\ NodesSound
      /\ Len(commits) \in Nat /\ ended \in Nat /\ ended <= Len(commits)
    BY HistoryStays DEF PublishInv, GraphInv, TypeOK, ReportFlow
<1>r. /\ RulesAsPublished <=> RulesMeant
      /\ RulesAsPublished' <=> RulesMeant'
    BY RulesMean, PTL
<1>1. CASE UNCHANGED reportVars
    <2>1. UNCHANGED <<report, begun, ended>>
        BY <1>1 DEF reportVars
    <2> PICK d : d = report.def
        OBVIOUS
    <2>2. /\ Serial(d)' <=> Serial(d)
          /\ Faults(d)' = Faults(d)
          /\ \A m : Meant(m, d)' <=> Meant(m, d)
        BY <1>0, <2>1, AnswerStays
    <2>3. /\ Serial(report.def)' <=> Serial(d)'
          /\ Faults(report.def)' = Faults(d)'
          /\ \A m : Meant(m, report.def)' <=> Meant(m, d)'
        BY <2>1
    <2>4. Quiet' <=> Quiet
        BY <2>1 DEF Quiet
    <2>5. FindingsAsPublished'
        BY <2>1, <2>2, <2>3, <2>4 DEF FindingsAsPublished
    <2>6. RulesAsPublished'
        BY <1>r, <2>1, <2>2, <2>3, <2>4 DEF RulesMeant
    <2> QED
        BY <2>5, <2>6
<1>2. CASE Assemble
    <2> PICK d : d = report.def
        OBVIOUS
    <2>1. /\ report.step = "rules" /\ d \in Key /\ report.check = 8
          /\ report'.findings = report.findings /\ report'.results = report.results
          /\ report'.def = d
          /\ begun' = begun /\ commits' = commits /\ ended' = Len(commits')
        <3>1. /\ report.step = "rules" /\ report' = [report EXCEPT !.step = "answered"]
              /\ begun' = begun /\ commits' = commits /\ ended' = Len(commits')
            BY <1>2 DEF Assemble, publishVars
        <3>2. d \in Key /\ report.check = 8
            BY <3>1, SevenChecks DEF ReportFlow
        <3>3. /\ report'.findings = report.findings /\ report'.results = report.results
              /\ report'.def = d
            BY <3>1 DEF TypeOK
        <3> QED
            BY <3>1, <3>2, <3>3
    <2> SUFFICES ASSUME begun = Len(commits), Serial(d)'
                 PROVE  /\ report.findings = Faults(d)'
                        /\ \A x \in report.results : x.passed <=> Meant(x.mapping, d)'
        BY <1>r, <2>1 DEF FindingsAsPublished, RulesMeant, Quiet
    <2>2. /\ report.findings = FoundUpTo(8, d)
          /\ \A x \in report.results : x = Result(x.mapping, d)
        BY <2>1 DEF FoundInv
    <2>3. /\ FoundUpTo(8, d)' = FoundUpTo(8, d)
          /\ \A m : Result(m, d)' = Result(m, d)
        BY <1>0, <2>1, QueriesStay DEF FoundUpTo
    <2>4. /\ FoundUpTo(8, d)' = Faults(d)'
          /\ \A m : Result(m, d)'.passed <=> Meant(m, d)'
        <3>1. AnswersMeant'
            <4>1. PublishInv' /\ (ended = Len(commits))' => AnswersMeant'
                BY AsPublished, PTL
            <4> QED
                BY <2>1, <4>1
        <3>2. Len(Checks) + 1 = 8
            BY SevenChecks
        <3> QED
            BY <2>1, <3>1, <3>2 DEF AnswersMeant
    <2> QED
        BY <2>2, <2>3, <2>4
<1>3. CASE (\E d \in Asked : Resolve(d)) \/ FetchPublishedAt \/ RunCheck \/ EvaluateRule \/ ReportFails
    <2>1. report'.step # "answered"
        BY <1>3 DEF Resolve, FetchPublishedAt, RunCheck, EvaluateRule, ReportFails, TypeOK
    <2> QED
        BY <2>1 DEF FindingsAsPublished, RulesAsPublished, Quiet
<1> QED
    BY <1>1, <1>2, <1>3, ReportSteps

(* Whatever publishes interleave with it, a report keeps the inductive        *)
(* invariant of both (app.py computgraph_validate beside                      *)
(* publish_from_envelope).                                                    *)
THEOREM ReportInvariance == Spec => [](PublishInv /\ ReportInv)
<1>1. Init => PublishInv /\ ReportInv
    BY InitPublish, InitReport DEF Init
<1>2. PublishInv /\ ReportInv /\ [Next]_vars => (PublishInv /\ ReportInv)'
    <2> SUFFICES ASSUME PublishInv, ReportInv, [Next]_vars
                 PROVE  PublishInv' /\ ReportInv'
        OBVIOUS
    <2>1. PublishInv'
        BY NextPublish
    <2>2. TypeOK /\ ReportFlow /\ StampInv /\ FoundInv /\ FindingsAsPublished /\ RulesAsPublished
        BY DEF ReportInv
    <2>3. TypeOK' /\ ReportFlow'
        BY <2>1, <2>2, NextReportFlow
    <2>4. StampInv' /\ FoundInv'
        BY <2>2, NextStamp, NextFound
    <2>5. FindingsAsPublished' /\ RulesAsPublished'
        BY <2>1, <2>2, NextAnswered
    <2> QED
        BY <2>1, <2>3, <2>4, <2>5 DEF ReportInv
<1> QED
    BY <1>1, <1>2, PTL DEF Spec

(* A report is a report, whatever interleaves (the types of the state).       *)
THEOREM TypeCorrect == Spec => []TypeOK
BY ReportInvariance, PTL DEF ReportInv

(* No interleaving, conflict or retry of publishes leaves what four of the    *)
(* checks guard against: a node without its owner, an object without a        *)
(* behavior, a parameter without a data type (cg_structure_checks.py).        *)
THEOREM GuardsAreNeverNeeded == Spec => []GuardsNeverNeeded
BY PublishInvariance, GuardsHold, PTL

(* The publish that a report's publishedAt names had committed before its     *)
(* first check ran (build_validation_report).                                 *)
THEOREM StampIsSeen == Spec => []StampSeen
<1>1. ReportInv => StampSeen
    BY SevenChecks DEF ReportInv, ReportFlow, StampInv, StampSeen
<1> QED
    BY <1>1, ReportInvariance, PTL

(* A quiet report of serial publishes finds what the envelopes call for and   *)
(* nothing else (run_structural_checks).                                      *)
THEOREM FindingsAreAsPublished == Spec => []FindingsAsPublished
BY ReportInvariance, PTL DEF ReportInv

(* And its verdicts are what the rules mean of them                           *)
(* (evaluate_rule_mappings).                                                  *)
THEOREM RulesAreAsPublished == Spec => []RulesAsPublished
BY ReportInvariance, PTL DEF ReportInv
==============================================================================
