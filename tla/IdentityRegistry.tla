--------------------------- MODULE IdentityRegistry ---------------------------
(***************************************************************************)
(* The identity registry (dg_identity.py, the /identity routes of app.py)  *)
(* beside publishing: requests mint identities, bind and detach native ids *)
(* and write shared properties, each query a transaction of its own.       *)
(*                                                                         *)
(* Neo4j is external: MERGE looks for nodes and, there being no uniqueness *)
(* constraint, creates one when it saw none, so that two may look before   *)
(* either creates. A dgId is a pure function of project, definition and    *)
(* cgId: with one project and definition a cgId stands for its dgId.       *)
(***************************************************************************)
EXTENDS Integers, FiniteSets

CONSTANTS
    Request,   \* requests
    CgId,      \* entities of the definition
    Native,    \* (platform, native id) pairs
    Property,  \* names of shared properties
    Value,     \* values written to them
    Job,       \* what a request may ask for
    None

Ops == {"mint", "publish", "bind", "detach", "write"}

Jobs == [op : Ops, cg : CgId, native : Native \cup {None}, name : Property \cup {None},
         value : Value \cup {None}]

ASSUME JobAssumption ==
    /\ Job \subseteq Jobs /\ None \notin Native \cup Property \cup Value \cup Jobs
    /\ \A j \in Job : /\ j.op \in {"bind", "detach"} => j.native # None
                      /\ j.op = "write" => j.name # None /\ j.value # None

VARIABLES
    entities, \* entity nodes: cgId, whether labelled by a publish, who created them
    reps,     \* Representation nodes: native id, who created them
    props,    \* SharedProperty nodes: dgId, name, who created them
    value,    \* their values
    bound,    \* HAS_REPRESENTATION
    held,     \* HAS_SHARED_PROPERTY
    pc,       \* per request: "idle", its next query, or its answer
    job,      \* what it asked for
    seen,     \* what the MERGE of its last query found
    after     \* history: the requests answered when it arrived

graph == <<entities, reps, props, value, bound, held>>
vars == <<graph, pc, job, seen, after>>

Answers == {"minted", "published", "bound", "ambiguous", "not found", "detached", "written", "failed"}

(* A shared property carries a dgId too, and MATCH (e {dgId}) has no label.   *)
Carriers(cg) == {e \in entities : e.cg = cg} \cup {p \in props : p.cg = cg}

OwnersOf(n) == {x[1].cg : x \in {y \in bound : y[2].native = n}}

(* Defect: whose representation it is is left out of the pattern.             *)
RepsOfAny(cg, n) == {p \in reps : p.native = n}

RepsOf(cg, n) == {x[2] : x \in {y \in bound : y[1].cg = cg /\ y[2].native = n}}

Nothing == [found |-> {}, carriers |-> {}]

------------------------------------------------------------------------------
Init ==
    /\ entities = {} /\ reps = {} /\ props = {} /\ value = <<>> /\ bound = {} /\ held = {}
    /\ pc = [r \in Request |-> "idle"]
    /\ job = [r \in Request |-> None]
    /\ seen = [r \in Request |-> Nothing]
    /\ after = [r \in Request |-> {}]

Goes(r, to) == pc' = [pc EXCEPT ![r] = to]

(* The request for op is about to run the query.                              *)
At(r, query, op) == pc[r] = query /\ job[r].op = op

Arrive(r, j) ==
    /\ pc[r] = "idle"
    /\ job' = [job EXCEPT ![r] = j]
    /\ after' = [after EXCEPT ![r] = {q \in Request : pc[q] \in Answers}]
    /\ Goes(r, CASE j.op \in {"mint", "publish"} -> "merge"
                 [] j.op = "bind" -> "resolve"
                 [] j.op = "detach" -> "count"
                 [] j.op = "write" -> "check")
    /\ UNCHANGED <<graph, seen>>

(* MERGE looks.                                                               *)
Look(r, found) ==
    /\ seen' = [seen EXCEPT ![r] = [found |-> found, carriers |-> Carriers(job[r].cg)]]
    /\ Goes(r, "create")
    /\ UNCHANGED <<graph, job, after>>

(* The minting MERGE has no label: any node with the cgId will do.            *)
LookToMint(r) == At(r, "merge", "mint") /\ Look(r, {e \in entities : e.cg = job[r].cg})

(* Publishing merges under a label, which a minted node has not.              *)
LookToPublish(r) ==
    /\ At(r, "merge", "publish")
    /\ Look(r, {e \in entities : e.cg = job[r].cg /\ e.labelled})

LookToBind(r) ==
    At(r, "merge", "bind") /\ Look(r, {p \in reps : p.native = job[r].native})

LookToWrite(r) ==
    /\ At(r, "merge", "write")
    /\ Look(r, {p \in props : p.cg = job[r].cg /\ p.name = job[r].name})

(* Defect: the node is created whatever was found.                            *)
MintAnew(r) ==
    /\ At(r, "create", "mint")
    /\ entities' = entities \cup {[cg |-> job[r].cg, labelled |-> FALSE, by |-> r]}
    /\ Goes(r, "minted")
    /\ UNCHANGED <<reps, props, value, bound, held, job, seen, after>>

Mint(r) ==
    /\ At(r, "create", "mint")
    /\ entities' = IF seen[r].found # {} THEN entities
                   ELSE entities \cup {[cg |-> job[r].cg, labelled |-> FALSE, by |-> r]}
    /\ Goes(r, "minted")
    /\ UNCHANGED <<reps, props, value, bound, held, job, seen, after>>

Publish(r) ==
    /\ At(r, "create", "publish")
    /\ entities' = IF seen[r].found # {} THEN entities
                   ELSE entities \cup {[cg |-> job[r].cg, labelled |-> TRUE, by |-> r]}
    /\ Goes(r, "published")
    /\ UNCHANGED <<reps, props, value, bound, held, job, seen, after>>

(* Defect: an existing binding is not looked at.                              *)
ResolveUnguarded(r) ==
    /\ pc[r] = "resolve"
    /\ Goes(r, "check")
    /\ UNCHANGED <<graph, job, seen, after>>

(* bind first resolves the native id: single() takes any of several records.  *)
Resolve(r) ==
    /\ pc[r] = "resolve"
    /\ LET owners == OwnersOf(job[r].native)
       IN  \/ owners = {} /\ Goes(r, "check")
           \/ \E cg \in owners : Goes(r, IF cg = job[r].cg THEN "check" ELSE "ambiguous")
    /\ UNCHANGED <<graph, job, seen, after>>

(* bind and write ask for a node that carries the dgId.                       *)
Check(r) ==
    /\ pc[r] = "check"
    /\ Goes(r, IF Carriers(job[r].cg) = {} THEN "not found" ELSE "merge")
    /\ UNCHANGED <<graph, job, seen, after>>

(* Every carrier is bound. A representation deleted meanwhile fails the query.*)
Bind(r) ==
    /\ At(r, "create", "bind")
    /\ LET merged == IF seen[r].found # {} THEN seen[r].found
                     ELSE {[native |-> job[r].native, by |-> r]}
       IN  IF seen[r].found \subseteq reps
           THEN /\ reps' = reps \cup merged
                /\ bound' = bound \cup (seen[r].carriers \X merged)
                /\ Goes(r, "bound")
           ELSE UNCHANGED <<reps, bound>> /\ Goes(r, "failed")
    /\ UNCHANGED <<entities, props, value, held, job, seen, after>>

(* Detaching counts first.                                                    *)
Count(r) ==
    /\ pc[r] = "count"
    /\ Goes(r, IF RepsOf(job[r].cg, job[r].native) = {} THEN "not found" ELSE "delete")
    /\ UNCHANGED <<graph, job, seen, after>>

(* DETACH DELETE takes every relationship of the node with it.                *)
Detach(r) ==
    /\ pc[r] = "delete"
    /\ LET gone == RepsOf(job[r].cg, job[r].native)
       IN  reps' = reps \ gone /\ bound' = {x \in bound : x[2] \notin gone}
    /\ Goes(r, "detached")
    /\ UNCHANGED <<entities, props, value, held, job, seen, after>>

(* Defect: the value is set where the property is created only.               *)
WriteOnce(r) ==
    /\ At(r, "create", "write")
    /\ LET merged == IF seen[r].found # {} THEN seen[r].found
                     ELSE {[cg |-> job[r].cg, name |-> job[r].name, by |-> r]}
       IN  /\ props' = props \cup merged
           /\ value' = [p \in props' |-> IF p \in props THEN value[p] ELSE job[r].value]
           /\ held' = held \cup (seen[r].carriers \X merged)
    /\ Goes(r, "written")
    /\ UNCHANGED <<entities, reps, bound, job, seen, after>>

Write(r) ==
    /\ At(r, "create", "write")
    /\ LET merged == IF seen[r].found # {} THEN seen[r].found
                     ELSE {[cg |-> job[r].cg, name |-> job[r].name, by |-> r]}
       IN  /\ props' = props \cup merged
           /\ value' = [p \in props' |-> IF p \in merged THEN job[r].value ELSE value[p]]
           /\ held' = held \cup (seen[r].carriers \X merged)
    /\ Goes(r, "written")
    /\ UNCHANGED <<entities, reps, bound, job, seen, after>>

Next ==
    \E r \in Request :
        \/ \E j \in Job : Arrive(r, j)
        \/ LookToMint(r) \/ LookToPublish(r) \/ LookToBind(r) \/ LookToWrite(r)
        \/ Mint(r) \/ Publish(r)
        \/ Resolve(r) \/ Check(r) \/ Bind(r)
        \/ Count(r) \/ Detach(r)
        \/ Write(r)

Spec == Init /\ [][Next]_vars

------------------------------------------------------------------------------
(* Requests of one kind, none of which arrived before another was answered.   *)
Asking(op, field, x) == {r \in Request : job[r] # None /\ job[r].op = op /\ job[r][field] = x}

Sequential(requests) ==
    \A q, r \in requests : q # r => q \in after[r] \/ r \in after[q]

Nodes == [cg : CgId, labelled : BOOLEAN, by : Request]
RepNodes == [native : Native, by : Request]
PropNodes == [cg : CgId, name : Property, by : Request]

(* Types.                                                                     *)
TypeOK ==
    /\ entities \subseteq Nodes /\ reps \subseteq RepNodes /\ props \subseteq PropNodes
    /\ value \in [props -> Value]
    /\ bound \subseteq (entities \cup props) \X reps
    /\ held \subseteq (entities \cup props) \X props
    /\ pc \in [Request -> {"idle", "merge", "create", "resolve", "check", "count", "delete"}
                              \cup Answers]
    /\ job \in [Request -> Job \cup {None}]
    /\ seen \in [Request -> [found : SUBSET (Nodes \cup RepNodes \cup PropNodes),
                            carriers : SUBSET (Nodes \cup PropNodes)]]
    /\ after \in [Request -> SUBSET Request]

(* A native id belongs to at most one identity, never repointed silently,     *)
(* unless two binds of it were under way at once: bind resolves first and     *)
(* merges three queries later (bind_representation).                          *)
OneOwner ==
    \A n \in Native : Sequential(Asking("bind", "native", n)) => Cardinality(OwnersOf(n)) <= 1

(* An identity answered as bound stays so through publishes, mints, writes    *)
(* and detaches of the same native id from any other identity, unless binds   *)
(* of it raced (detach_representation counts and deletes in two queries).     *)
BindingKept ==
    \A r \in Request :
        /\ pc[r] = "bound"
        /\ Sequential(Asking("bind", "native", job[r].native))
        /\ \A q \in Asking("detach", "native", job[r].native) :
              job[q].cg = job[r].cg => q \in after[r]
        => job[r].cg \in OwnersOf(job[r].native)

(* Minting is idempotent: unless two mints of it were under way at once an    *)
(* entity has one minted node, and none minted after it was published, when   *)
(* the labelled node serves (mint_identity).                                  *)
MintedOnce ==
    \A cg \in CgId :
        LET minted == {e \in entities : e.cg = cg /\ ~e.labelled}
        IN  /\ Sequential(Asking("mint", "cg", cg)) => Cardinality(minted) <= 1
            /\ \A e \in minted, q \in Asking("publish", "cg", cg) : q \notin after[e.by]

(* Whoever reads a shared property by its dgId reads the last value written,  *)
(* of all nodes that writes which raced to create it may have left, once a    *)
(* write began after all others were answered (write_shared_property).        *)
LastWriteRead ==
    \A r \in Request :
        /\ pc[r] = "written"
        /\ \A q \in Asking("write", "cg", job[r].cg) \ {r} :
              job[q].name = job[r].name => q \in after[r]
        => \A x \in held : x[1].cg = job[r].cg /\ x[2].name = job[r].name
                               => value[x[2]] = job[r].value
===============================================================================
