-------------------------- MODULE ComputgraphPublish --------------------------
(***************************************************************************)
(* POST /computgraph/publish (app.py, computgraph_publish.py): confirmed   *)
(* envelopes become nodes and relationships of the Computgraph partition.  *)
(* Every request runs its statements in one transaction of its own;        *)
(* requests of several sessions interleave statement by statement.         *)
(*                                                                         *)
(* Neo4j is external: a transaction reads what is committed and what it    *)
(* wrote itself, locks the nodes it sets, and MERGE creates a node when it *)
(* sees none, for there is no uniqueness constraint. Node properties are   *)
(* abstracted to the request that set them last. One project; names are    *)
(* abstracted to the keys nodes are merged on.                             *)
(***************************************************************************)
EXTENDS Integers, Sequences, FiniteSets, SequencesExt

CONSTANTS
    Request,    \* publish requests
    Envelope,   \* cgContextJson envelopes a client may send
    Key,        \* cgIds, algorithm indices and definition ids
    MaxFaults,  \* bound of the model: failures of Neo4j
    None

(* Entities nest in the envelope. as stands for the name, kind and type of a  *)
(* row, which its id does not fix; typed is FALSE for a parameter the checks  *)
(* on kind, dataType and ids refuse. members and wires are node ids of the    *)
(* canvas, warnings what its parser noted.                                    *)
Envelopes ==
    [def : Key \cup {None}, object : Key \cup {None}, algs : SUBSET Key,
     procs : Seq([id : Key, alg : Key, as : Key]),
     patterns : SUBSET [id : Key, proc : Key, host : Key \cup {None}],
     params : Seq([id : Key, proc : Key, as : Key, members : SUBSET Key, typed : BOOLEAN]),
     ifaces : Seq([id : Key, proc : Key, as : Key, members : SUBSET Key]),
     wires : SUBSET (Key \X Key), warnings : SUBSET Key]

(* Entities are read out of the algorithm and the procedure that hold them.   *)
ASSUME EnvelopeAssumption ==
    /\ Envelope \subseteq Envelopes /\ Envelope # {}
    /\ \A e \in Envelope :
          /\ \A p \in ToSet(e.procs) : p.alg \in e.algs
          /\ \A x \in e.patterns \cup ToSet(e.params) \cup ToSet(e.ifaces) :
                x.proc \in {p.id : p \in ToSet(e.procs)}
ASSUME BoundsAssumption == MaxFaults \in Nat /\ None \notin Key \cup Envelopes

VARIABLES
    nodes,   \* committed nodes: label, key, definition, and who created them
    edges,   \* committed relationships; the labels they join tell their type
    writer,  \* the request that set a node last
    pc,      \* per request: "idle", "writing", "committed", or its answer
    next,    \* the number of its next statement
    sent,    \* the envelope of the request
    stamp,   \* its publishedAt, by order of arrival
    tx,      \* what its transaction wrote and has not committed
    stale,   \* staleEntityIds it answered
    commits, \* history: requests in the order they committed
    base,    \* history: how many had when the request started to write
    faults

publishVars == <<nodes, edges, writer, pc, next, sent, stamp, tx, stale, commits, base, faults>>

------------------------------------------------------------------------------
(* Row building: pure, before anything is written.                            *)

Labels == {"Object", "Behavior", "Algorithm", "Procedure", "Pattern", "Parameter", "Interface"}

(* Behavior and Algorithm carry no cgId.                                      *)
CgLabels == Labels \ {"Behavior", "Algorithm"}

TheBehavior == "behavior"

(* Defect: a parameter without a recognized dataType goes through.            *)
MalformedUnchecked(e) == e.def = None

Malformed(e) == e.def = None \/ \E i \in DOMAIN e.params : ~e.params[i].typed

Ids(rows) == {rows[i].id : i \in DOMAIN rows}

(* A node is set by all rows for its id in turn (UNWIND), so the last one's   *)
(* properties stay.                                                           *)
LastRow(rows, id) == rows[Max({i \in DOMAIN rows : rows[i].id = id})]

AllCgIds(e) ==
    Ids(e.procs) \cup {p.id : p \in e.patterns} \cup Ids(e.params) \cup Ids(e.ifaces)
        \cup ({e.object} \ {None})

(* A member listed by two rows belongs to the later one.                      *)
ByMember(rows, m) ==
    LET hits == {i \in DOMAIN rows : m \in rows[i].members}
    IN  {rows[i].id : i \in {j \in hits : \A k \in hits : k <= j}}

ParamLinks(e) ==
    UNION {(ByMember(e.params, w[1]) \X ByMember(e.ifaces, w[2]))
               \cup (ByMember(e.params, w[2]) \X ByMember(e.ifaces, w[1])) : w \in e.wires}

------------------------------------------------------------------------------
(* The transaction: nine statements in this order, each over all its rows.    *)

Statements == <<"Object", "Behavior", "Algorithm", "Procedure", "Pattern", "PatternHost",
                "Parameter", "Interface", "ParamLink">>

Done == Len(Statements) + 1

(* The keys a statement merges a node for.                                    *)
Rows(e, s) ==
    CASE s = "Object" -> {e.object} \ {None}
      [] s = "Behavior" -> IF e.object = None THEN {} ELSE {TheBehavior}
      [] s = "Algorithm" -> e.algs
      [] s = "Procedure" -> Ids(e.procs)
      [] s = "Pattern" -> {p.id : p \in e.patterns}
      [] s = "Parameter" -> Ids(e.params)
      [] s = "Interface" -> Ids(e.ifaces)
      [] OTHER -> {}

Link(from, fromKey, to, toKey) == <<<<from, fromKey>>, <<to, toKey>>>>

(* The relationships it merges, between nodes it finds by label and key.      *)
Links(e, s) ==
    CASE s = "Behavior" -> {Link("Object", o, s, TheBehavior) : o \in {e.object} \ {None}}
      [] s = "Algorithm" -> {Link("Behavior", TheBehavior, s, a) : a \in e.algs}
      [] s = "Procedure" -> {Link("Algorithm", p.alg, s, p.id) : p \in ToSet(e.procs)}
      [] s = "Pattern" -> {Link("Procedure", p.proc, s, p.id) : p \in e.patterns}
      [] s = "PatternHost" ->
            {Link("Pattern", p.id, "Pattern", p.host) : p \in {q \in e.patterns : q.host # None}}
      [] s = "Parameter" -> {Link("Procedure", p.proc, s, p.id) : p \in ToSet(e.params)}
      [] s = "Interface" -> {Link("Procedure", p.proc, s, p.id) : p \in ToSet(e.ifaces)}
      [] s = "ParamLink" -> {Link("Parameter", l[1], "Interface", l[2]) : l \in ParamLinks(e)}
      [] OTHER -> {}

(* A statement without rows is not run.                                       *)
Skipped(e, s) == Rows(e, s) = {} /\ Links(e, s) = {}

FirstFrom(e, k) ==
    CHOOSE i \in k .. Done :
        /\ i = Done \/ ~Skipped(e, Statements[i])
        /\ \A j \in k .. i - 1 : Skipped(e, Statements[j])

NoWrites == [nodes |-> {}, edges |-> {}]

Matching(seen, label, key, d) == {n \in seen : n.label = label /\ n.key = key /\ n.def = d}

(* MERGE on (key, definition, project) under a label.                         *)
Merge(r, label, key) ==
    LET found == Matching(nodes \cup tx[r].nodes, label, key, sent[r].def)
    IN  IF found = {} THEN {[label |-> label, key |-> key, def |-> sent[r].def, by |-> r]}
        ELSE found

(* The relationships between all nodes seen that match.                       *)
Joined(seen, links, d) ==
    UNION {Matching(seen, l[1][1], l[1][2], d) \X Matching(seen, l[2][1], l[2][2], d) : l \in links}

------------------------------------------------------------------------------
PublishInit ==
    /\ nodes = {} /\ edges = {} /\ writer = <<>>
    /\ pc = [r \in Request |-> "idle"]
    /\ next = [r \in Request |-> Done]
    /\ sent = [r \in Request |-> None]
    /\ stamp = [r \in Request |-> 0]
    /\ tx = [r \in Request |-> NoWrites]
    /\ stale = [r \in Request |-> {}]
    /\ commits = <<>>
    /\ base = [r \in Request |-> 0]
    /\ faults = 0

Arrived == {r \in Request : sent[r] # None}

(* The request arrives: it is stamped and its rows are built, or answered 422.*)
Arrive(r, e) ==
    /\ pc[r] = "idle"
    /\ sent' = [sent EXCEPT ![r] = e]
    /\ stamp' = [stamp EXCEPT ![r] = Cardinality(Arrived) + 1]
    /\ pc' = [pc EXCEPT ![r] = IF Malformed(e) THEN "invalid" ELSE "writing"]
    /\ next' = [next EXCEPT ![r] = FirstFrom(e, 1)]
    /\ base' = [base EXCEPT ![r] = Len(commits)]
    /\ UNCHANGED <<nodes, edges, writer, tx, stale, commits, faults>>

(* One statement; a node another transaction has set is waited for.           *)
Write(r) ==
    /\ pc[r] = "writing" /\ next[r] # Done
    /\ LET e == sent[r]
           s == Statements[next[r]]
           merged == UNION {Merge(r, s, key) : key \in Rows(e, s)}
           written == tx[r].nodes \cup merged
       IN  /\ \A q \in Request \ {r} : merged \cap tx[q].nodes = {}
           /\ tx' = [tx EXCEPT ![r] =
                        [nodes |-> written,
                         edges |-> @.edges \cup Joined(nodes \cup written, Links(e, s), e.def)]]
           /\ next' = [next EXCEPT ![r] = FirstFrom(e, @ + 1)]
    /\ UNCHANGED <<nodes, edges, writer, pc, sent, stamp, stale, commits, base, faults>>

Commit(r) ==
    /\ pc[r] = "writing" /\ next[r] = Done
    /\ nodes' = nodes \cup tx[r].nodes
    /\ edges' = edges \cup tx[r].edges
    /\ writer' = [n \in nodes' |-> IF n \in tx[r].nodes THEN r ELSE writer[n]]
    /\ tx' = [tx EXCEPT ![r] = NoWrites]
    /\ pc' = [pc EXCEPT ![r] = "committed"]
    /\ commits' = Append(commits, r)
    /\ UNCHANGED <<next, sent, stamp, stale, base, faults>>

(* The transaction fails and is rolled back: execute_write runs it again when *)
(* the error is a transient one, else the route answers 502.                  *)
Abort(r, retried) ==
    /\ pc[r] = "writing"
    /\ faults < MaxFaults
    /\ faults' = faults + 1
    /\ tx' = [tx EXCEPT ![r] = NoWrites]
    /\ pc' = [pc EXCEPT ![r] = IF retried THEN @ ELSE "failed"]
    /\ next' = [next EXCEPT ![r] = FirstFrom(sent[r], 1)]
    /\ base' = [base EXCEPT ![r] = Len(commits)]
    /\ UNCHANGED <<nodes, edges, writer, sent, stamp, stale, commits>>

(* Defect: entities are compared with the ones that were there on arrival.    *)
KnownEarlier(r) ==
    {n.key : n \in {m \in nodes : m.def = sent[r].def /\ m.label \in CgLabels
                                     /\ \E i \in 1 .. base[r] : commits[i] = m.by}}

(* The cgIds the definition has, of whatever publish.                         *)
Known(r) == {n.key : n \in {m \in nodes : m.def = sent[r].def /\ m.label \in CgLabels}}

(* The stale entities are listed after the transaction and outside it.        *)
Answer(r) ==
    /\ pc[r] = "committed"
    /\ stale' = [stale EXCEPT ![r] = Known(r) \ AllCgIds(sent[r])]
    /\ pc' = [pc EXCEPT ![r] = "published"]
    /\ UNCHANGED <<nodes, edges, writer, next, sent, stamp, tx, commits, base, faults>>

(* The list cannot be read: the route answers 502 although all is written.    *)
AnswerLost(r) ==
    /\ pc[r] = "committed"
    /\ faults < MaxFaults
    /\ faults' = faults + 1
    /\ pc' = [pc EXCEPT ![r] = "failed"]
    /\ UNCHANGED <<nodes, edges, writer, next, sent, stamp, tx, stale, commits, base>>

PublishNext ==
    \E r \in Request :
        \/ \E e \in Envelope : Arrive(r, e)
        \/ Write(r) \/ Commit(r) \/ Answer(r) \/ AnswerLost(r)
        \/ \E retried \in BOOLEAN : Abort(r, retried)

------------------------------------------------------------------------------
Answers == {"published", "failed", "invalid"}

Nodes == [label : Labels, key : Key \cup {TheBehavior}, def : Key, by : Request]

(* Types.                                                                     *)
PublishTypeOK ==
    /\ nodes \subseteq Nodes /\ edges \subseteq nodes \X nodes
    /\ writer \in [nodes -> Request]
    /\ pc \in [Request -> {"idle", "writing", "committed"} \cup Answers]
    /\ next \in [Request -> 1 .. Done]
    /\ sent \in [Request -> Envelope \cup {None}]
    /\ stamp \in [Request -> 0 .. Cardinality(Arrived)]
    /\ tx \in [Request -> [nodes : SUBSET Nodes, edges : SUBSET (Nodes \X Nodes)]]
    /\ stale \in [Request -> SUBSET Key]
    /\ commits \in Seq(Request) /\ base \in [Request -> Nat] /\ faults \in 0 .. MaxFaults

(* An answered publish names every entity that some publish of its definition *)
(* committed before it and its own payload lacks, and none the payload has,   *)
(* although the list is read outside the transaction (_find_stale_entities).  *)
StaleListComplete ==
    \A r \in Request : pc[r] = "published" =>
        /\ stale[r] \cap AllCgIds(sent[r]) = {}
        /\ \A i, j \in DOMAIN commits :
              commits[j] = r /\ i < j /\ sent[commits[i]].def = sent[r].def
                  => AllCgIds(sent[commits[i]]) \subseteq stale[r] \cup AllCgIds(sent[r])

------------------------------------------------------------------------------
(* What an envelope asks for; what was asked, and what definitions hold.      *)
Content(e) ==
    [def |-> e.def, rows |-> UNION {{<<label, key>> : key \in Rows(e, label)} : label \in Labels}]

SentRows ==
    [r \in Request |-> IF pc[r] \in {"idle", "invalid"} THEN None ELSE Content(sent[r])]

HeldRows == [d \in Key |-> {<<n.label, n.key>> : n \in {m \in nodes : m.def = d}}]

Promise == INSTANCE PublishedDefinitions WITH
    Definition <- Key, Listed <- CgLabels, Nothing <- None,
    Payload <- {Content(e) : e \in {x \in Envelope : ~Malformed(x)}},
    phase <- pc, payload <- SentRows, held <- HeldRows, listed <- stale

(* Publishes that interleave statement by statement, abort and are retried    *)
(* are seen to take effect one at a time, whole and at once.                  *)
PublishesAtOnce == Promise!Spec
==============================================================================
