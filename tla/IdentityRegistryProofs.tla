------------------------ MODULE IdentityRegistryProofs ------------------------
(***************************************************************************)
(* Theorems of IdentityRegistry, for every set of requests, entities,      *)
(* native ids, properties and jobs.                                        *)
(***************************************************************************)
EXTENDS IdentityRegistry, FiniteSetTheorems, TLAPS

(* The steps a request goes through, by what it asked for.                    *)
StepsOf(op) ==
    CASE op = "mint" -> {"merge", "create", "minted"}
      [] op = "publish" -> {"merge", "create", "published"}
      [] op = "bind" -> {"resolve", "check", "merge", "create", "bound", "ambiguous",
                         "not found", "failed"}
      [] op = "detach" -> {"count", "delete", "not found", "detached"}
      [] op = "write" -> {"check", "merge", "create", "not found", "written"}

FlowOf(r) ==
    \/ job[r] = None /\ pc[r] = "idle"
    \/ job[r] \in Job /\ pc[r] \in StepsOf(job[r].op)

Flow == \A r \in Request : FlowOf(r)

(* What was answered before a request arrived.                                *)
Ordered == \A r \in Request : \A q \in after[r] : pc[q] \in Answers

(* What MERGE found was there, and matched; binds and writes found a carrier. *)
SeenOf(r) ==
    /\ pc[r] = "merge" /\ job[r].op \in {"bind", "write"} => Carriers(job[r].cg) # {}
    /\ pc[r] = "create" =>
          /\ seen[r].carriers \subseteq Carriers(job[r].cg)
          /\ job[r].op \in {"mint", "publish"} =>
                seen[r].found \subseteq {e \in entities : e.cg = job[r].cg}
          /\ job[r].op = "bind" =>
                seen[r].carriers # {} /\ seen[r].found \subseteq {p \in RepNodes : p.native = job[r].native}
          /\ job[r].op = "write" =>
                seen[r].found \subseteq {p \in props : p.cg = job[r].cg /\ p.name = job[r].name}

Seen == \A r \in Request : SeenOf(r)

Base == TypeOK /\ Flow /\ Ordered /\ Seen

(* Whether a request has created or found the entity cg.                      *)
Entered(q, cg) == pc[q] \in {"minted", "published"} /\ job[q].cg = cg

MintInv ==
    /\ \A e \in entities : Entered(e.by, e.cg) /\ (~e.labelled => pc[e.by] = "minted")
    /\ \A q \in Request : pc[q] \in {"minted", "published"} => \E e \in entities : e.cg = job[q].cg
    /\ \A r \in Request : pc[r] = "create" /\ job[r].op = "mint" =>
          \A q \in after[r] : Entered(q, job[r].cg) => seen[r].found # {}
    /\ \A e \in entities : ~e.labelled => \A q \in after[e.by] : ~Entered(q, e.cg)

BindsSequential(n) == Sequential(Asking("bind", "native", n))

OneCg(n) == \A x, y \in bound : x[2].native = n /\ y[2].native = n => x[1].cg = y[1].cg

AllOf(n, cg) == \A x \in bound : x[2].native = n => x[1].cg = cg

DetachedBefore(r) ==
    \A q \in Asking("detach", "native", job[r].native) : job[q].cg = job[r].cg => q \in after[r]

BindOf(r) ==
    /\ pc[r] \in {"check", "merge", "create"} /\ job[r].op = "bind" /\ BindsSequential(job[r].native) =>
          AllOf(job[r].native, job[r].cg)
    /\ pc[r] = "bound" /\ BindsSequential(job[r].native) /\ DetachedBefore(r) =>
          \E x \in bound : x[2].native = job[r].native /\ x[1].cg = job[r].cg

BindInv ==
    /\ \A n \in Native : BindsSequential(n) => OneCg(n)
    /\ \A r \in Request : BindOf(r)

(* Requests that write the property r writes came before r.                   *)
WritesBefore(r) ==
    \A q \in Asking("write", "cg", job[r].cg) \ {r} : job[q].name = job[r].name => q \in after[r]

WriteOf(r) ==
    /\ pc[r] = "create" /\ job[r].op = "write" =>
          \A p \in props : /\ p.cg = job[r].cg /\ p.name = job[r].name /\ p.by \in after[r]
                           => p \in seen[r].found
    /\ pc[r] = "written" /\ WritesBefore(r) =>
          \A p \in props : p.cg = job[r].cg /\ p.name = job[r].name => value[p] = job[r].value

WriteInv ==
    /\ \A x \in held : x[1].cg = x[2].cg
    /\ \A p \in props : pc[p.by] = "written" /\ job[p.by].cg = p.cg /\ job[p.by].name = p.name
    /\ \A r \in Request : WriteOf(r)

------------------------------------------------------------------------------
(* What a job is.                                                             *)
LEMMA JobShape ==
    ASSUME NEW j \in Job
    PROVE  /\ j # None /\ j.op \in Ops /\ j.cg \in CgId
           /\ j.op \in {"bind", "detach"} => j.native \in Native
           /\ j.op = "write" => j.name \in Property /\ j.value \in Value
BY JobAssumption DEF Jobs

(* The requests still under way have an answer to come.                       *)
LEMMA Steps ==
    /\ StepsOf("mint") = {"merge", "create", "minted"}
    /\ StepsOf("publish") = {"merge", "create", "published"}
    /\ StepsOf("bind") = {"resolve", "check", "merge", "create", "bound", "ambiguous",
                          "not found", "failed"}
    /\ StepsOf("detach") = {"count", "delete", "not found", "detached"}
    /\ StepsOf("write") = {"check", "merge", "create", "not found", "written"}
BY DEF StepsOf

(* What a request asked for tells its steps, and its step what it asked for.  *)
LEMMA StepTells ==
    ASSUME Flow, NEW r \in Request
    PROVE  /\ job[r] = None <=> pc[r] = "idle"
           /\ job[r] # None => job[r] \in Job
           /\ pc[r] \in {"minted"} => job[r].op = "mint"
           /\ pc[r] \in {"published"} => job[r].op = "publish"
           /\ pc[r] \in {"resolve", "bound"} => job[r].op = "bind"
           /\ pc[r] \in {"count", "delete"} => job[r].op = "detach"
           /\ pc[r] \in {"written"} => job[r].op = "write"
           /\ pc[r] = "check" => job[r].op \in {"bind", "write"}
           /\ job[r] # None /\ pc[r] \in Answers =>
                 /\ job[r].op = "mint" => pc[r] = "minted"
                 /\ job[r].op = "publish" => pc[r] = "published"
<1>1. FlowOf(r)
  BY DEF Flow
<1>2. CASE job[r] = None /\ pc[r] = "idle"
  BY <1>2, JobShape DEF Answers
<1>3. CASE job[r] \in Job /\ pc[r] \in StepsOf(job[r].op)
  <2>1. job[r].op \in {"mint", "publish", "bind", "detach", "write"} /\ job[r] # None
    BY <1>3, JobShape DEF Ops
  <2> QED
    BY <1>3, <2>1, Steps DEF Answers
<1> QED
  BY <1>1, <1>2, <1>3 DEF FlowOf

(* At first nothing is there.                                                 *)
LEMMA InitBase == Init => Base /\ MintInv /\ BindInv /\ WriteInv
<1> SUFFICES ASSUME Init PROVE Base /\ MintInv /\ BindInv /\ WriteInv
  OBVIOUS
<1>1. TypeOK
  <2>1. value \in [props -> Value]
    BY DEF Init
  <2>2. seen \in [Request -> [found : SUBSET (Nodes \cup RepNodes \cup PropNodes),
                              carriers : SUBSET (Nodes \cup PropNodes)]]
    BY DEF Init, Nothing
  <2> QED
    BY <2>1, <2>2 DEF Init, TypeOK
<1>2. Flow /\ Ordered /\ Seen
  BY DEF Init, Flow, FlowOf, Ordered, Seen, SeenOf
<1>3. MintInv
  BY DEF Init, MintInv
<1>4. BindInv
  BY DEF Init, BindInv, BindOf, OneCg
<1>5. WriteInv
  BY DEF Init, WriteInv, WriteOf
<1> QED
  BY <1>1, <1>2, <1>3, <1>4, <1>5 DEF Base

------------------------------------------------------------------------------
(* What requests do to one another.                                           *)
Moves ==
    \A q \in Request :
        /\ pc[q] # "idle" => job'[q] = job[q] /\ after'[q] = after[q] /\ pc'[q] # "idle"
        /\ pc[q] \in Answers => pc'[q] = pc[q]
        /\ pc[q] = "create" /\ pc'[q] = "create" => seen'[q] = seen[q]

(* A request keeps its job and its answer, whichever request takes a step.    *)
LEMMA NextMoves == Base /\ [Next]_vars => Moves
<1> SUFFICES ASSUME TypeOK, Flow, [Next]_vars PROVE Moves
  BY DEF Base
<1> USE StepTells, JobShape DEF graph, At, Goes, Look, TypeOK, Answers
<1>1. ASSUME NEW r \in Request, NEW j \in Job, Arrive(r, j) PROVE Moves
  <2>1. j.op \in {"mint", "publish", "bind", "detach", "write"}
    BY JobShape DEF Ops
  <2>2. PICK s \in {"merge", "resolve", "count", "check"} : pc' = [pc EXCEPT ![r] = s]
    BY <1>1, <2>1 DEF Arrive
  <2> QED
    BY <1>1, <2>2 DEF Arrive, Moves
<1>2. ASSUME NEW r \in Request, LookToMint(r) PROVE Moves
  BY <1>2 DEF LookToMint, Moves
<1>3. ASSUME NEW r \in Request, LookToPublish(r) PROVE Moves
  BY <1>3 DEF LookToPublish, Moves
<1>4. ASSUME NEW r \in Request, LookToBind(r) PROVE Moves
  BY <1>4 DEF LookToBind, Moves
<1>5. ASSUME NEW r \in Request, LookToWrite(r) PROVE Moves
  BY <1>5 DEF LookToWrite, Moves
<1>6. ASSUME NEW r \in Request, Mint(r) PROVE Moves
  BY <1>6 DEF Mint, Moves
<1>7. ASSUME NEW r \in Request, Publish(r) PROVE Moves
  BY <1>7 DEF Publish, Moves
<1>8. ASSUME NEW r \in Request, Resolve(r) PROVE Moves
  BY <1>8 DEF Resolve, Moves
<1>9. ASSUME NEW r \in Request, Check(r) PROVE Moves
  BY <1>9 DEF Check, Moves
<1>10. ASSUME NEW r \in Request, Bind(r) PROVE Moves
  BY <1>10 DEF Bind, Moves
<1>11. ASSUME NEW r \in Request, Count(r) PROVE Moves
  BY <1>11 DEF Count, Moves
<1>12. ASSUME NEW r \in Request, Detach(r) PROVE Moves
  BY <1>12 DEF Detach, Moves
<1>13. ASSUME NEW r \in Request, Write(r) PROVE Moves
  BY <1>13 DEF Write, Moves
<1>14. CASE UNCHANGED vars
  BY <1>14 DEF vars, Moves
<1> QED
  BY <1>1, <1>2, <1>3, <1>4, <1>5, <1>6, <1>7, <1>8, <1>9, <1>10,
     <1>11, <1>12, <1>13, <1>14 DEF Next

(* Nodes stay; those that carry a dgId grow in number only.                   *)
LEMMA NodesStay ==
    ASSUME Base, [Next]_vars
    PROVE  /\ entities \subseteq entities' /\ props \subseteq props'
           /\ \A cg : Carriers(cg) \subseteq Carriers(cg)'
<1>1. entities \subseteq entities' /\ props \subseteq props'
  BY DEF Next, vars, graph, Arrive, Look, LookToMint, LookToPublish, LookToBind, LookToWrite, Mint, Publish,
         Resolve, Check, Bind, Count, Detach, Write
<1> QED
  BY <1>1 DEF Carriers

(* Carriers are nodes.                                                        *)
LEMMA CarriersTyped ==
    ASSUME TypeOK, NEW cg
    PROVE  Carriers(cg) \subseteq entities \cup props /\ Carriers(cg) \subseteq Nodes \cup PropNodes
BY DEF Carriers, TypeOK

(* A look keeps the types.                                                    *)
LEMMA LookTyped ==
    ASSUME TypeOK, NEW r \in Request, NEW found \in SUBSET (Nodes \cup RepNodes \cup PropNodes),
           Look(r, found)
    PROVE  TypeOK'
<1>1. [found |-> found, carriers |-> Carriers(job[r].cg)]
         \in [found : SUBSET (Nodes \cup RepNodes \cup PropNodes), carriers : SUBSET (Nodes \cup PropNodes)]
  BY CarriersTyped
<1>2. seen' \in [Request -> [found : SUBSET (Nodes \cup RepNodes \cup PropNodes),
                             carriers : SUBSET (Nodes \cup PropNodes)]]
  BY <1>1 DEF Look, TypeOK
<1>3. pc' = [pc EXCEPT ![r] = "create"] /\ UNCHANGED <<entities, reps, props, value, bound, held, job, after>>
  BY DEF Look, Goes, graph
<1> QED
  BY <1>2, <1>3 DEF TypeOK

(* The types, action by action.                                               *)
LEMMA NextTypes == Base /\ [Next]_vars => TypeOK'
<1> SUFFICES ASSUME TypeOK, Flow, Seen, [Next]_vars PROVE TypeOK'
  BY DEF Base
<1> USE DEF graph, Goes, At
<1>1. ASSUME NEW r \in Request, NEW j \in Job, Arrive(r, j) PROVE TypeOK'
  <2>1. j.op \in {"mint", "publish", "bind", "detach", "write"}
    BY JobShape DEF Ops
  <2>2. PICK s \in {"merge", "resolve", "count", "check"} : pc' = [pc EXCEPT ![r] = s]
    BY <1>1, <2>1 DEF Arrive
  <2>3. after' \in [Request -> SUBSET Request]
    BY <1>1 DEF Arrive, TypeOK
  <2>4. job' \in [Request -> Job \cup {None}] /\ UNCHANGED <<entities, reps, props, value, bound, held, seen>>
    BY <1>1 DEF Arrive, TypeOK
  <2>5. pc' \in [Request -> {"idle", "merge", "create", "resolve", "check", "count", "delete"} \cup Answers]
    BY <2>2 DEF TypeOK
  <2> QED
    BY <2>3, <2>4, <2>5 DEF TypeOK
<1>2. ASSUME NEW r \in Request, LookToMint(r) PROVE TypeOK'
  BY <1>2, LookTyped DEF LookToMint, TypeOK
<1>3. ASSUME NEW r \in Request, LookToPublish(r) PROVE TypeOK'
  BY <1>3, LookTyped DEF LookToPublish, TypeOK
<1>4. ASSUME NEW r \in Request, LookToBind(r) PROVE TypeOK'
  BY <1>4, LookTyped DEF LookToBind, TypeOK
<1>5. ASSUME NEW r \in Request, LookToWrite(r) PROVE TypeOK'
  BY <1>5, LookTyped DEF LookToWrite, TypeOK
<1>6. ASSUME NEW r \in Request, Mint(r) PROVE TypeOK'
  <2>1. job[r].cg \in CgId
    BY <1>6, StepTells, JobShape DEF Mint
  <2>2. [cg |-> job[r].cg, labelled |-> FALSE, by |-> r] \in Nodes
    BY <2>1 DEF Nodes
  <2>3. entities' \subseteq Nodes /\ entities \subseteq entities'
    BY <1>6, <2>2 DEF Mint, TypeOK
  <2> QED
    BY <1>6, <2>3 DEF Mint, TypeOK, Answers
<1>7. ASSUME NEW r \in Request, Publish(r) PROVE TypeOK'
  <2>1. job[r].cg \in CgId
    BY <1>7, StepTells, JobShape DEF Publish
  <2>2. [cg |-> job[r].cg, labelled |-> TRUE, by |-> r] \in Nodes
    BY <2>1 DEF Nodes
  <2>3. entities' \subseteq Nodes /\ entities \subseteq entities'
    BY <1>7, <2>2 DEF Publish, TypeOK
  <2> QED
    BY <1>7, <2>3 DEF Publish, TypeOK, Answers
<1>8. ASSUME NEW r \in Request, Resolve(r) PROVE TypeOK'
  BY <1>8 DEF Resolve, TypeOK, Answers
<1>9. ASSUME NEW r \in Request, Check(r) PROVE TypeOK'
  BY <1>9 DEF Check, TypeOK, Answers
<1>10. ASSUME NEW r \in Request, Bind(r) PROVE TypeOK'
  <2>1. job[r].native \in Native /\ seen[r].carriers \subseteq entities \cup props
    BY <1>10, StepTells, JobShape, CarriersTyped DEF Bind, Seen, SeenOf
  <2>2. CASE seen[r].found \subseteq reps
    <3> DEFINE merged == IF seen[r].found # {} THEN seen[r].found
                         ELSE {[native |-> job[r].native, by |-> r]}
    <3>1. merged \subseteq RepNodes
      BY <2>1, <2>2 DEF TypeOK, RepNodes
    <3>2. reps' = reps \cup merged /\ bound' = bound \cup (seen[r].carriers \X merged)
      BY <1>10, <2>2 DEF Bind
    <3>3. reps' \subseteq RepNodes /\ bound' \subseteq (entities \cup props) \X reps'
      BY <2>1, <3>1, <3>2 DEF TypeOK
    <3> QED
      BY <1>10, <3>3 DEF Bind, TypeOK, Answers
  <2>3. CASE ~(seen[r].found \subseteq reps)
    BY <1>10, <2>3 DEF Bind, TypeOK, Answers
  <2> QED
    BY <2>2, <2>3
<1>11. ASSUME NEW r \in Request, Count(r) PROVE TypeOK'
  BY <1>11 DEF Count, TypeOK, Answers
<1>12. ASSUME NEW r \in Request, Detach(r) PROVE TypeOK'
  <2>1. reps' \subseteq RepNodes /\ bound' \subseteq (entities \cup props) \X reps'
    BY <1>12 DEF Detach, TypeOK
  <2> QED
    BY <1>12, <2>1 DEF Detach, TypeOK, Answers
<1>13. ASSUME NEW r \in Request, Write(r) PROVE TypeOK'
  <2>1. /\ job[r].cg \in CgId /\ job[r].name \in Property /\ job[r].value \in Value
        /\ seen[r].carriers \subseteq entities \cup props /\ seen[r].found \subseteq props
    BY <1>13, StepTells, JobShape, CarriersTyped DEF Write, Seen, SeenOf
  <2> DEFINE merged == IF seen[r].found # {} THEN seen[r].found
                       ELSE {[cg |-> job[r].cg, name |-> job[r].name, by |-> r]}
  <2>2. merged \subseteq PropNodes
    BY <2>1 DEF TypeOK, PropNodes
  <2>3. /\ props' = props \cup merged /\ held' = held \cup (seen[r].carriers \X merged)
        /\ value' = [p \in props' |-> IF p \in merged THEN job[r].value ELSE value[p]]
    BY <1>13 DEF Write
  <2>4. props' \subseteq PropNodes /\ held' \subseteq (entities \cup props') \X props'
        /\ bound \subseteq (entities \cup props') \X reps
    BY <2>1, <2>2, <2>3 DEF TypeOK
  <2>5. value' \in [props' -> Value]
    BY <2>1, <2>3 DEF TypeOK
  <2> QED
    BY <1>13, <2>4, <2>5 DEF Write, TypeOK, Answers
<1>14. CASE UNCHANGED vars
  BY <1>14 DEF vars, TypeOK
<1> QED
  BY <1>1, <1>2, <1>3, <1>4, <1>5, <1>6, <1>7, <1>8, <1>9, <1>10,
     <1>11, <1>12, <1>13, <1>14 DEF Next

(* The steps of one request.                                                  *)
Acts(r) ==
    \/ \E j \in Job : Arrive(r, j)
    \/ LookToMint(r) \/ LookToPublish(r) \/ LookToBind(r) \/ LookToWrite(r)
    \/ Mint(r) \/ Publish(r) \/ Resolve(r) \/ Check(r) \/ Bind(r) \/ Count(r) \/ Detach(r) \/ Write(r)

(* A request leaves the others where they are.                                *)
LEMMA Others ==
    ASSUME TypeOK, NEW r \in Request, Acts(r), NEW q \in Request, q # r
    PROVE  pc'[q] = pc[q] /\ job'[q] = job[q] /\ seen'[q] = seen[q] /\ after'[q] = after[q]
<1> USE DEF At, Goes, Look, TypeOK
<1>1. ASSUME NEW j \in Job, Arrive(r, j)
      PROVE  pc'[q] = pc[q] /\ job'[q] = job[q] /\ seen'[q] = seen[q] /\ after'[q] = after[q]
  BY <1>1 DEF Arrive
<1>2. CASE LookToMint(r) \/ LookToPublish(r) \/ LookToBind(r) \/ LookToWrite(r)
  BY <1>2 DEF LookToMint, LookToPublish, LookToBind, LookToWrite
<1>3. CASE Mint(r) \/ Publish(r) \/ Resolve(r) \/ Check(r)
  BY <1>3 DEF Mint, Publish, Resolve, Check
<1>4. CASE Bind(r) \/ Count(r) \/ Detach(r) \/ Write(r)
  BY <1>4 DEF Bind, Count, Detach, Write
<1> QED
  BY <1>1, <1>2, <1>3, <1>4 DEF Acts

(* A request that goes on as its kind of request does.                        *)
LEMMA FlowOn ==
    ASSUME TypeOK, Flow, NEW r \in Request, pc[r] # "idle", NEW to, pc' = [pc EXCEPT ![r] = to], UNCHANGED job,
           to \in StepsOf(job[r].op)
    PROVE  Flow'
<1>1. job[r] \in Job
  BY StepTells
<1> QED
  BY <1>1 DEF Flow, FlowOf, TypeOK

(* What requests do, by what they asked for.                                  *)
LEMMA NextFlow == Base /\ [Next]_vars => Flow'
<1> SUFFICES ASSUME TypeOK, Flow, [Next]_vars PROVE Flow'
  BY DEF Base
<1> USE DEF Goes, At
<1>1. ASSUME NEW r \in Request, NEW j \in Job, Arrive(r, j) PROVE Flow'
  <2>1. j.op \in {"mint", "publish", "bind", "detach", "write"}
    BY JobShape DEF Ops
  <2>2. PICK s \in StepsOf(j.op) : pc' = [pc EXCEPT ![r] = s]
    BY <1>1, <2>1, Steps DEF Arrive
  <2>3. job' = [job EXCEPT ![r] = j]
    BY <1>1 DEF Arrive
  <2> QED
    BY <2>2, <2>3 DEF Flow, FlowOf, TypeOK
<1>2. ASSUME NEW r \in Request, LookToMint(r) \/ LookToPublish(r) \/ LookToBind(r) \/ LookToWrite(r)
      PROVE  Flow'
  <2>1. pc[r] = "merge" /\ pc' = [pc EXCEPT ![r] = "create"] /\ UNCHANGED job
        /\ job[r].op \in {"mint", "publish", "bind", "write"}
    BY <1>2 DEF LookToMint, LookToPublish, LookToBind, LookToWrite, Look
  <2>2. "create" \in StepsOf(job[r].op)
    BY <2>1, Steps
  <2> QED
    BY <2>1, <2>2, FlowOn
<1>3. ASSUME NEW r \in Request, Mint(r) PROVE Flow'
  BY <1>3, FlowOn, Steps DEF Mint
<1>4. ASSUME NEW r \in Request, Publish(r) PROVE Flow'
  BY <1>4, FlowOn, Steps DEF Publish
<1>5. ASSUME NEW r \in Request, Resolve(r) PROVE Flow'
  <2>1. PICK to \in {"check", "ambiguous"} : pc' = [pc EXCEPT ![r] = to] /\ UNCHANGED job
    BY <1>5 DEF Resolve
  <2>2. pc[r] # "idle" /\ to \in StepsOf(job[r].op)
    BY <1>5, <2>1, StepTells, Steps DEF Resolve
  <2> QED
    BY <2>1, <2>2, FlowOn
<1>6. ASSUME NEW r \in Request, Check(r) PROVE Flow'
  <2>1. PICK to \in {"not found", "merge"} : pc' = [pc EXCEPT ![r] = to] /\ UNCHANGED job
    BY <1>6 DEF Check
  <2>2. pc[r] # "idle" /\ to \in StepsOf(job[r].op)
    BY <1>6, <2>1, StepTells, Steps DEF Check
  <2> QED
    BY <2>1, <2>2, FlowOn
<1>7. ASSUME NEW r \in Request, Bind(r) PROVE Flow'
  <2>1. PICK to \in {"bound", "failed"} : pc' = [pc EXCEPT ![r] = to] /\ UNCHANGED job
    BY <1>7 DEF Bind
  <2> QED
    BY <1>7, <2>1, FlowOn, Steps DEF Bind
<1>8. ASSUME NEW r \in Request, Count(r) PROVE Flow'
  <2>1. PICK to \in {"not found", "delete"} : pc' = [pc EXCEPT ![r] = to] /\ UNCHANGED job
    BY <1>8 DEF Count
  <2>2. pc[r] # "idle" /\ to \in StepsOf(job[r].op)
    BY <1>8, <2>1, StepTells, Steps DEF Count
  <2> QED
    BY <2>1, <2>2, FlowOn
<1>9. ASSUME NEW r \in Request, Detach(r) PROVE Flow'
  <2>1. pc[r] # "idle" /\ "detached" \in StepsOf(job[r].op) /\ UNCHANGED job
        /\ pc' = [pc EXCEPT ![r] = "detached"]
    BY <1>9, StepTells, Steps DEF Detach
  <2> QED
    BY <2>1, FlowOn
<1>10. ASSUME NEW r \in Request, Write(r) PROVE Flow'
  BY <1>10, FlowOn, Steps DEF Write
<1>11. CASE UNCHANGED vars
  BY <1>11 DEF vars, Flow, FlowOf
<1> QED
  BY <1>1, <1>2, <1>3, <1>4, <1>5, <1>6, <1>7, <1>8, <1>9, <1>10, <1>11 DEF Next

(* Answers are final.                                                         *)
LEMMA NextOrdered == Base /\ [Next]_vars => Ordered'
<1> SUFFICES ASSUME TypeOK, Ordered, Moves, [Next]_vars, NEW x \in Request, NEW q \in after'[x]
             PROVE  pc'[q] \in Answers
  BY NextMoves DEF Base, Ordered
<1>1. CASE after'[x] = after[x]
  BY <1>1 DEF Ordered, Moves, TypeOK
<1>2. ASSUME NEW r \in Request, NEW j \in Job, Arrive(r, j) PROVE pc'[q] \in Answers
  <2>1. CASE x = r
    <3>1. q \in Request /\ pc[q] \in Answers
      BY <1>2, <2>1 DEF Arrive, TypeOK
    <3> QED
      BY <3>1 DEF Moves
  <2>2. CASE x # r
    BY <1>1, <1>2, <2>2, Others DEF Acts
  <2> QED
    BY <2>1, <2>2
<1>3. (\E r \in Request, j \in Job : Arrive(r, j)) \/ UNCHANGED after
  BY DEF Next, vars, At, Look, LookToMint, LookToPublish, LookToBind, LookToWrite, Mint, Publish,
         Resolve, Check, Bind, Count, Detach, Write
<1> QED
  BY <1>1, <1>2, <1>3

(* What a request found when it looked.                                       *)
LEMMA NextSeen == Base /\ [Next]_vars => Seen'
<1> SUFFICES ASSUME Base, [Next]_vars, NEW x \in Request PROVE SeenOf(x)'
  BY DEF Seen
<1>0. TypeOK /\ Flow /\ SeenOf(x)
  BY DEF Base, Seen
<1>1. CASE pc'[x] = pc[x] /\ job'[x] = job[x] /\ seen'[x] = seen[x]
  <2>1. entities \subseteq entities' /\ props \subseteq props'
    BY NodesStay
  <2>2. pc[x] = "create" => seen[x].carriers \subseteq Carriers(job[x].cg)'
    BY <1>0, <1>1, <2>1 DEF SeenOf, Carriers
  <2>3. Carriers(job[x].cg) # {} => Carriers(job[x].cg)' # {}
    BY <1>1, <2>1 DEF Carriers
  <2> QED
    BY <1>0, <1>1, <2>1, <2>2, <2>3 DEF SeenOf
<1>2. CASE pc'[x] \notin {"merge", "create"} \/ (pc'[x] = "merge" /\ job'[x].op \notin {"bind", "write"})
  BY <1>2 DEF SeenOf
<1>3. ASSUME NEW r \in Request, Acts(r), x # r PROVE SeenOf(x)'
  BY <1>0, <1>1, <1>3, Others
<1>4. ASSUME NEW j \in Job, Arrive(x, j) PROVE SeenOf(x)'
  <2>1. j.op \in {"mint", "publish", "bind", "detach", "write"}
    BY JobShape DEF Ops
  <2>2. job'[x] = j /\ (pc'[x] = "merge" => j.op \in {"mint", "publish"}) /\ pc'[x] # "create"
    BY <1>0, <1>4, <2>1 DEF Arrive, Goes, TypeOK
  <2> QED
    BY <1>2, <2>2
<1>5. ASSUME Check(x) PROVE SeenOf(x)'
  <2>1. pc'[x] = "merge" => Carriers(job[x].cg) # {}
    BY <1>0, <1>5 DEF Check, Goes, TypeOK
  <2>2. pc'[x] # "create" /\ UNCHANGED <<job, entities, props>>
    BY <1>0, <1>5 DEF Check, Goes, TypeOK, graph
  <2> QED
    BY <2>1, <2>2 DEF SeenOf, Carriers
<1>6. ASSUME NEW found, pc[x] = "merge", Look(x, found),
             job[x].op \in {"mint", "publish"} => found \subseteq {e \in entities : e.cg = job[x].cg},
             job[x].op = "bind" => found \subseteq {p \in RepNodes : p.native = job[x].native},
             job[x].op = "write" => found \subseteq {p \in props : p.cg = job[x].cg /\ p.name = job[x].name}
      PROVE  SeenOf(x)'
  <2>1. seen'[x].found = found /\ seen'[x].carriers = Carriers(job[x].cg) /\ pc'[x] = "create"
    BY <1>0, <1>6 DEF Look, Goes, TypeOK
  <2>2. UNCHANGED <<job, entities, props>>
    BY <1>6 DEF Look, graph
  <2>3. Carriers(job[x].cg)' = Carriers(job[x].cg)
    BY <2>2 DEF Carriers
  <2>4. job[x].op = "bind" => Carriers(job[x].cg) # {}
    BY <1>0, <1>6 DEF SeenOf
  <2> QED
    BY <1>6, <2>1, <2>2, <2>3, <2>4 DEF SeenOf
<1>7. LookToMint(x) \/ LookToPublish(x) => SeenOf(x)'
  BY <1>6 DEF LookToMint, LookToPublish, At
<1>8. LookToBind(x) => SeenOf(x)'
  BY <1>0, <1>6 DEF LookToBind, At, TypeOK
<1>9. LookToWrite(x) => SeenOf(x)'
  BY <1>6 DEF LookToWrite, At
<1>10. Mint(x) \/ Publish(x) \/ Resolve(x) \/ Bind(x) \/ Count(x) \/ Detach(x) \/ Write(x) => SeenOf(x)'
  BY <1>0, <1>2 DEF Mint, Publish, Resolve, Bind, Count, Detach, Write, Goes, TypeOK
<1>11. (\E r \in Request : Acts(r)) \/ UNCHANGED vars
  BY DEF Next, Acts
<1>12. CASE UNCHANGED vars
  BY <1>1, <1>12 DEF vars
<1> QED
  BY <1>3, <1>4, <1>5, <1>7, <1>8, <1>9, <1>10, <1>11, <1>12 DEF Acts

(* The base of the inductive invariants.                                      *)
LEMMA NextBase == Base /\ [Next]_vars => Base'
BY NextTypes, NextFlow, NextOrdered, NextSeen DEF Base

------------------------------------------------------------------------------
(* A node comes from the request it names, which saw none.                    *)
LEMMA EntityNew ==
    ASSUME Base, NEW r \in Request, Acts(r), NEW e \in entities', e \notin entities
    PROVE  /\ e.by = r /\ e.cg = job[r].cg /\ pc[r] = "create" /\ seen[r].found = {}
           /\ pc'[r] \in {"minted", "published"}
           /\ ~e.labelled => pc'[r] = "minted" /\ job[r].op = "mint"
<1>1. TypeOK
  BY DEF Base
<1>2. Mint(r) \/ Publish(r)
  BY DEF Acts, Arrive, At, Look, LookToMint, LookToPublish, LookToBind, LookToWrite, graph,
         Resolve, Check, Bind, Count, Detach, Write
<1>3. CASE Mint(r)
  BY <1>1, <1>3 DEF Mint, At, Goes, TypeOK
<1>4. CASE Publish(r)
  BY <1>1, <1>4 DEF Publish, At, Goes, TypeOK
<1> QED
  BY <1>2, <1>3, <1>4

(* An answered request has entered what it had entered.                       *)
LEMMA EnteredStays ==
    ASSUME Moves, NEW q \in Request, pc[q] \in Answers, NEW cg
    PROVE  Entered(q, cg)' <=> Entered(q, cg)
BY DEF Moves, Entered, Answers

(* Minting, step by step.                                                     *)
LEMMA NextMint == Base /\ MintInv /\ [Next]_vars => MintInv'
<1> SUFFICES ASSUME Base, MintInv, Moves, NEW r \in Request, Acts(r) PROVE MintInv'
  <2>1. CASE UNCHANGED vars
    BY <2>1 DEF vars, graph, MintInv, Entered
  <2> QED
    BY <2>1, NextMoves DEF Next, Acts
<1>0. TypeOK /\ Flow /\ Ordered /\ Seen /\ entities \subseteq entities'
  <2>1. [Next]_vars
    BY DEF Next, Acts
  <2> QED
    BY <2>1, NodesStay DEF Base
<1>1. ASSUME NEW e \in entities'
      PROVE  Entered(e.by, e.cg)' /\ (~e.labelled => pc'[e.by] = "minted")
  <2>1. CASE e \in entities
    <3>1. e.by \in Request /\ Entered(e.by, e.cg) /\ (~e.labelled => pc[e.by] = "minted")
      BY <1>0, <2>1 DEF TypeOK, Nodes, MintInv
    <3> QED
      BY <3>1 DEF Entered, Moves, Answers
  <2>2. CASE e \notin entities
    <3>1. e.by = r /\ e.cg = job[r].cg /\ pc[r] = "create" /\ pc'[r] \in {"minted", "published"}
          /\ (~e.labelled => pc'[r] = "minted")
      BY <2>2, EntityNew
    <3> QED
      BY <3>1 DEF Entered, Moves
  <2> QED
    BY <2>1, <2>2
<1>2. ASSUME NEW q \in Request, pc'[q] \in {"minted", "published"}
      PROVE  \E e \in entities' : e.cg = job'[q].cg
  <2>1. CASE pc[q] = pc'[q]
    <3>1. job'[q] = job[q]
      BY <1>2, <2>1 DEF Moves
    <3> QED
      BY <1>0, <1>2, <2>1, <3>1 DEF MintInv
  <2>2. CASE pc[q] # pc'[q]
    <3>1. q = r
      BY <1>0, <2>2, Others
    <3>2. Mint(r) \/ Publish(r)
      <4> USE DEF Goes
      <4>1. \A j \in Job : ~Arrive(r, j)
        <5> SUFFICES ASSUME NEW j \in Job, Arrive(r, j) PROVE FALSE
          OBVIOUS
        <5>1. j.op \in {"mint", "publish", "bind", "detach", "write"}
          BY JobShape DEF Ops
        <5> QED
          BY <1>0, <1>2, <3>1, <5>1 DEF Arrive, TypeOK
      <4>2. ~LookToMint(r) /\ ~LookToPublish(r) /\ ~LookToBind(r) /\ ~LookToWrite(r)
        BY <1>0, <1>2, <3>1 DEF LookToMint, LookToPublish, LookToBind, LookToWrite, Look, TypeOK
      <4>3. ~Resolve(r) /\ ~Check(r) /\ ~Bind(r) /\ ~Count(r) /\ ~Detach(r) /\ ~Write(r)
        BY <1>0, <1>2, <3>1 DEF Resolve, Check, Bind, Count, Detach, Write, TypeOK
      <4> QED
        BY <4>1, <4>2, <4>3 DEF Acts
    <3>3. pc[r] = "create" /\ job' = job /\ job[r].op \in {"mint", "publish"}
      BY <3>2 DEF Mint, Publish, At
    <3>4. CASE seen[r].found = {}
      <4>1. PICK l \in BOOLEAN : entities' = entities \cup {[cg |-> job[r].cg, labelled |-> l, by |-> r]}
        BY <3>2, <3>4 DEF Mint, Publish
      <4>2. PICK e \in entities' : e = [cg |-> job[r].cg, labelled |-> l, by |-> r]
        BY <4>1
      <4>3. e.cg = job'[q].cg
        BY <3>1, <3>3, <4>2
      <4> QED
        BY <4>3
    <3>5. CASE seen[r].found # {}
      <4>1. \E e \in entities : e.cg = job[r].cg
        BY <1>0, <3>3, <3>5 DEF Seen, SeenOf
      <4> QED
        BY <1>0, <3>1, <3>3, <4>1
    <3> QED
      BY <3>4, <3>5
  <2> QED
    BY <2>1, <2>2
<1>3. ASSUME NEW x \in Request, pc'[x] = "create", job'[x].op = "mint", NEW q \in after'[x],
             Entered(q, job[x].cg)'
      PROVE  seen'[x].found # {}
  <2>1. pc[x] # "idle"
    <3> SUFFICES ASSUME pc[x] = "idle" PROVE FALSE
      OBVIOUS
    <3>1. x = r
      BY <1>0, <1>3, Others
    <3>2. PICK j \in Job : Arrive(r, j)
      BY <3>1 DEF Acts, At, LookToMint, LookToPublish, LookToBind, LookToWrite, Mint, Publish,
             Resolve, Check, Bind, Count, Detach, Write
    <3>3. j.op \in {"mint", "publish", "bind", "detach", "write"}
      BY JobShape DEF Ops
    <3> QED
      BY <1>0, <1>3, <3>1, <3>2, <3>3 DEF Arrive, Goes, TypeOK
  <2>2. job'[x] = job[x] /\ q \in after[x] /\ q \in Request /\ pc[q] \in Answers
    BY <1>0, <1>3, <2>1 DEF Moves, Ordered, TypeOK
  <2>3. Entered(q, job[x].cg)
    BY <1>3, <2>2 DEF Entered, Moves, Answers
  <2>4. CASE pc[x] = "create"
    BY <1>3, <2>2, <2>3, <2>4 DEF MintInv, Moves
  <2>5. CASE pc[x] # "create"
    <3>1. x = r
      BY <1>0, <1>3, <2>5, Others
    <3>2. LookToMint(r)
      <4> USE DEF Goes
      <4>1. \A j \in Job : ~Arrive(r, j)
        BY <2>1, <3>1 DEF Arrive
      <4>2. ~LookToPublish(r) /\ ~LookToBind(r) /\ ~LookToWrite(r)
        BY <1>3, <2>2, <3>1 DEF LookToPublish, LookToBind, LookToWrite, At
      <4>3. ~Mint(r) /\ ~Publish(r) /\ ~Resolve(r) /\ ~Check(r) /\ ~Bind(r) /\ ~Count(r) /\ ~Detach(r)
            /\ ~Write(r)
        BY <1>0, <1>3, <3>1 DEF Mint, Publish, Resolve, Check, Bind, Count, Detach, Write, TypeOK
      <4> QED
        BY <4>1, <4>2, <4>3 DEF Acts
    <3>3. seen'[r].found = {e \in entities : e.cg = job[r].cg}
      BY <1>0, <3>2 DEF LookToMint, Look, TypeOK
    <3>4. \E e \in entities : e.cg = job[x].cg
      BY <2>2, <2>3 DEF Entered, MintInv
    <3> QED
      BY <3>1, <3>3, <3>4
  <2> QED
    BY <2>4, <2>5
<1>4. ASSUME NEW e \in entities', ~e.labelled, NEW q \in after'[e.by], Entered(q, e.cg)' PROVE FALSE
  <2>1. CASE e \in entities
    <3>1. e.by \in Request /\ Entered(e.by, e.cg)
      BY <1>0, <2>1 DEF TypeOK, Nodes, MintInv
    <3>2. q \in after[e.by] /\ q \in Request /\ pc[q] \in Answers
      BY <1>0, <1>4, <3>1 DEF Entered, Moves, Ordered, TypeOK
    <3> QED
      BY <1>4, <2>1, <3>2, EnteredStays DEF MintInv
  <2>2. CASE e \notin entities
    <3>1. e.by = r /\ e.cg = job[r].cg /\ pc[r] = "create" /\ seen[r].found = {} /\ job[r].op = "mint"
      BY <1>4, <2>2, EntityNew
    <3>2. q \in after[r] /\ q \in Request /\ pc[q] \in Answers
      BY <1>0, <1>4, <3>1 DEF Moves, Ordered, TypeOK
    <3>3. Entered(q, job[r].cg)
      BY <1>4, <3>1, <3>2, EnteredStays
    <3> QED
      BY <3>1, <3>2, <3>3 DEF MintInv
  <2> QED
    BY <2>1, <2>2
<1> QED
  BY <1>1, <1>2, <1>3, <1>4 DEF MintInv, Entered

(* Who asked for something goes on having asked for it.                       *)
LEMMA AskingGrows ==
    ASSUME Base, Moves, NEW op, NEW field, NEW x, NEW q \in Asking(op, field, x)
    PROVE  q \in Asking(op, field, x)' /\ job'[q] = job[q] /\ after'[q] = after[q]
BY StepTells DEF Base, Asking, Moves

(* Binds of a native id that were one after another until now were so before. *)
LEMMA SequentialBefore ==
    ASSUME Base, Moves, NEW n, BindsSequential(n)' PROVE BindsSequential(n)
<1> SUFFICES ASSUME NEW q \in Asking("bind", "native", n), NEW x \in Asking("bind", "native", n), q # x
             PROVE  q \in after[x] \/ x \in after[q]
  BY DEF BindsSequential, Sequential
<1>1. q \in Asking("bind", "native", n)' /\ x \in Asking("bind", "native", n)'
      /\ after'[q] = after[q] /\ after'[x] = after[x]
  BY AskingGrows
<1> QED
  BY <1>1 DEF BindsSequential, Sequential

(* Two binds under way are not one after the other.                           *)
LEMMA NotBoth ==
    ASSUME Base, NEW n, BindsSequential(n), NEW q \in Request, NEW x \in Request, q # x,
           job[q] # None, job[q].op = "bind", job[q].native = n, pc[q] \notin Answers,
           job[x] # None, job[x].op = "bind", job[x].native = n, pc[x] \notin Answers
    PROVE  FALSE
<1>1. q \in Asking("bind", "native", n) /\ x \in Asking("bind", "native", n)
  BY DEF Asking
<1>2. q \in after[x] \/ x \in after[q]
  BY <1>1 DEF BindsSequential, Sequential
<1> QED
  BY <1>2 DEF Base, Ordered

(* What a bind does.                                                          *)
LEMMA Binding ==
    ASSUME Base, NEW r \in Request, Bind(r)
    PROVE  /\ bound \subseteq bound'
           /\ \A x \in bound' \ bound : x[1].cg = job[r].cg /\ x[2].native = job[r].native
           /\ pc'[r] = "bound" => \E x \in bound' : x[1].cg = job[r].cg /\ x[2].native = job[r].native
           /\ job[r] \in Job /\ job[r].op = "bind" /\ pc[r] = "create"
<1>1. TypeOK /\ Flow /\ SeenOf(r)
  BY DEF Base, Seen
<1>2. pc[r] = "create" /\ job[r].op = "bind" /\ job[r] \in Job
  BY <1>1, StepTells DEF Bind, At
<1>3. seen[r].carriers # {} /\ \A c \in seen[r].carriers : c.cg = job[r].cg
  BY <1>1, <1>2 DEF SeenOf, Carriers
<1> DEFINE merged == IF seen[r].found # {} THEN seen[r].found
                     ELSE {[native |-> job[r].native, by |-> r]}
<1>4. merged # {} /\ \A p \in merged : p.native = job[r].native
  <2>1. seen[r].found # {} => \A p \in seen[r].found : p.native = job[r].native
    BY <1>1, <1>2 DEF SeenOf
  <2>2. [native |-> job[r].native, by |-> r].native = job[r].native
    OBVIOUS
  <2> QED
    BY <2>1, <2>2
<1>5. CASE seen[r].found \subseteq reps
  <2>1. bound' = bound \cup (seen[r].carriers \X merged)
    BY <1>5 DEF Bind
  <2> HIDE DEF merged
  <2>2. \A x \in seen[r].carriers \X merged : x[1].cg = job[r].cg /\ x[2].native = job[r].native
    BY <1>3, <1>4
  <2>3. PICK c \in seen[r].carriers, p \in merged : TRUE
    BY <1>3, <1>4
  <2>4. <<c, p>> \in seen[r].carriers \X merged
    BY <2>3
  <2> QED
    BY <1>2, <2>1, <2>2, <2>4
<1>6. CASE ~(seen[r].found \subseteq reps)
  BY <1>1, <1>2, <1>6 DEF Bind, Goes, TypeOK
<1> QED
  BY <1>5, <1>6

(* Only binds and detaches change what is bound.                              *)
LEMMA BoundChanges ==
    ASSUME NEW r \in Request, Acts(r)
    PROVE  bound' = bound \/ Bind(r) \/ Detach(r)
BY DEF Acts, Arrive, At, Look, LookToMint, LookToPublish, LookToBind, LookToWrite, graph, Mint, Publish,
       Resolve, Check, Count, Write

(* Binding, step by step.                                                     *)
LEMMA NextBind == Base /\ BindInv /\ [Next]_vars => BindInv'
<1> SUFFICES ASSUME Base, BindInv, Moves, NEW r \in Request, Acts(r) PROVE BindInv'
  <2>1. CASE UNCHANGED vars
    BY <2>1 DEF vars, graph, BindInv, BindsSequential, Sequential, Asking, OneCg, AllOf, BindOf, DetachedBefore
  <2> QED
    BY <2>1, NextMoves DEF Next, Acts
<1>0. TypeOK /\ Flow /\ Ordered
  BY DEF Base
<1>1. ASSUME NEW n \in Native, BindsSequential(n)' PROVE OneCg(n)'
  <2>1. BindsSequential(n) /\ OneCg(n)
    BY <1>1, SequentialBefore DEF BindInv
  <2>2. CASE bound' \subseteq bound
    BY <2>1, <2>2 DEF OneCg
  <2>3. CASE Bind(r)
    <3>1. \A x \in bound' \ bound : x[1].cg = job[r].cg /\ x[2].native = job[r].native
      BY <2>3, Binding
    <3>2. job[r].native = n => \A x \in bound : x[2].native = n => x[1].cg = job[r].cg
      BY <2>1, <2>3, Binding DEF BindInv, BindOf, AllOf
    <3>3. \A x \in bound' : x \in bound \/ x \in bound' \ bound
      OBVIOUS
    <3> QED
      BY <2>1, <3>1, <3>2, <3>3 DEF OneCg
  <2>4. CASE Detach(r)
    BY <2>2, <2>4 DEF Detach
  <2> QED
    BY <2>2, <2>3, <2>4, BoundChanges
<1>2. ASSUME NEW q \in Request, pc'[q] \in {"check", "merge", "create"}, job'[q].op = "bind",
             BindsSequential(job[q].native)'
      PROVE  AllOf(job[q].native, job[q].cg)'
  <2>1. pc[q] # "idle"
    <3> SUFFICES ASSUME pc[q] = "idle" PROVE FALSE
      OBVIOUS
    <3>1. q = r
      BY <1>0, <1>2, Others
    <3>2. PICK j \in Job : Arrive(r, j)
      BY <3>1 DEF Acts, At, LookToMint, LookToPublish, LookToBind, LookToWrite, Mint, Publish,
             Resolve, Check, Bind, Count, Detach, Write
    <3>3. j.op \in {"mint", "publish", "bind", "detach", "write"}
      BY JobShape DEF Ops
    <3> QED
      BY <1>0, <1>2, <3>1, <3>2, <3>3 DEF Arrive, Goes, TypeOK
  <2>2. job'[q] = job[q] /\ job[q] \in Job /\ job[q].native \in Native /\ job[q].op = "bind"
        /\ job[q].cg \in CgId
    BY <1>0, <1>2, <2>1, StepTells, JobShape DEF Moves
  <2>3. PICK n \in Native, c \in CgId : n = job[q].native /\ c = job[q].cg
    BY <2>2
  <2>4. BindsSequential(n)
    <3>1. BindsSequential(n)'
      BY <1>2, <2>2, <2>3
    <3> QED
      BY <3>1, SequentialBefore
  <2>5. CASE pc[q] \in {"check", "merge", "create"}
    <3>1. AllOf(n, c)
      BY <2>2, <2>3, <2>4, <2>5 DEF BindInv, BindOf
    <3>2. AllOf(n, c)'
      <4>1. CASE bound' \subseteq bound
        BY <3>1, <4>1 DEF AllOf
      <4>2. CASE Bind(r)
        <5>1. q = r => pc'[q] \in {"bound", "failed"}
          BY <1>0, <4>2 DEF Bind, Goes, TypeOK
        <5>2. job[r].native # n
          <6> SUFFICES ASSUME job[r].native = n PROVE FALSE
            OBVIOUS
          <6>1. q # r
            BY <1>2, <5>1
          <6>2. job[r] \in Job /\ job[r].op = "bind" /\ pc[r] = "create"
            BY <4>2, Binding
          <6>3. job[r] # None /\ job[q] # None /\ pc[r] \notin Answers /\ pc[q] \notin Answers
            BY <2>2, <2>5, <6>2, JobShape DEF Answers
          <6> QED
            BY <2>2, <2>3, <2>4, <6>1, <6>2, <6>3, NotBoth
        <5>3. \A x \in bound' \ bound : x[2].native = job[r].native
          BY <4>2, Binding
        <5> QED
          BY <3>1, <5>2, <5>3 DEF AllOf
      <4>3. CASE Detach(r)
        BY <4>1, <4>3 DEF Detach
      <4> QED
        BY <4>1, <4>2, <4>3, BoundChanges
    <3> QED
      BY <2>2, <2>3, <3>2
  <2>6. CASE pc[q] \notin {"check", "merge", "create"}
    <3>1. q = r
      BY <1>0, <1>2, <2>6, Others
    <3>2. Resolve(r)
      <4> USE DEF Goes
      <4>1. \A j \in Job : ~Arrive(r, j)
        BY <2>1, <3>1 DEF Arrive
      <4>2. ~LookToMint(r) /\ ~LookToPublish(r) /\ ~LookToBind(r) /\ ~LookToWrite(r)
        BY <2>6, <3>1 DEF LookToMint, LookToPublish, LookToBind, LookToWrite, At
      <4>3. ~Mint(r) /\ ~Publish(r) /\ ~Check(r) /\ ~Bind(r) /\ ~Write(r)
        BY <2>6, <3>1 DEF Mint, Publish, Check, Bind, Write, At
      <4>4. ~Count(r) /\ ~Detach(r)
        BY <1>0, <1>2, <3>1 DEF Count, Detach, TypeOK
      <4> QED
        BY <4>1, <4>2, <4>3, <4>4 DEF Acts
    <3>3. UNCHANGED bound /\ pc'[r] = "check"
      BY <1>0, <1>2, <3>1, <3>2 DEF Resolve, Goes, graph, TypeOK
    <3>4. OwnersOf(n) = {} \/ c \in OwnersOf(n)
      BY <1>0, <2>3, <3>1, <3>2, <3>3 DEF Resolve, Goes, TypeOK
    <3>5. OneCg(n)
      BY <2>4 DEF BindInv
    <3>6. AllOf(n, c)
      BY <3>4, <3>5 DEF OwnersOf, OneCg, AllOf
    <3>7. AllOf(n, c)'
      BY <3>3, <3>6 DEF AllOf
    <3> QED
      BY <2>2, <2>3, <3>7
  <2> QED
    BY <2>5, <2>6
<1>3. ASSUME NEW q \in Request, pc'[q] = "bound", BindsSequential(job[q].native)', DetachedBefore(q)'
      PROVE  \E x \in bound' : x[2].native = job'[q].native /\ x[1].cg = job'[q].cg
  <2>1. CASE pc[q] = "bound"
    <3>1. job'[q] = job[q] /\ after'[q] = after[q] /\ job[q] \in Job /\ job[q].op = "bind"
      BY <1>0, <2>1, StepTells DEF Moves
    <3>2. PICK n \in Native : n = job[q].native
      BY <3>1, JobShape
    <3>3. BindsSequential(n)
      <4>1. BindsSequential(n)'
        BY <1>3, <3>1, <3>2
      <4> QED
        BY <4>1, SequentialBefore
    <3>4. ASSUME NEW x \in Asking("detach", "native", n), job[x].cg = job[q].cg PROVE x \in after[q]
      <4>1. x \in Asking("detach", "native", n)' /\ job'[x] = job[x]
        BY AskingGrows
      <4> QED
        BY <1>3, <3>1, <3>2, <3>4, <4>1 DEF DetachedBefore
    <3>5. DetachedBefore(q)
      BY <3>2, <3>4 DEF DetachedBefore
    <3>6. PICK x \in bound : x[2].native = n /\ x[1].cg = job[q].cg
      BY <2>1, <3>2, <3>3, <3>5 DEF BindInv, BindOf
    <3>7. x \in bound'
      <4>1. CASE Bind(r)
        BY <4>1, Binding
      <4>2. CASE Detach(r)
        <5> SUFFICES ASSUME x \notin bound' PROVE FALSE
          OBVIOUS
        <5>1. x[2] \in RepsOf(job[r].cg, job[r].native)
          BY <4>2 DEF Detach
        <5>2. PICK y \in bound : y[1].cg = job[r].cg /\ y[2].native = job[r].native /\ x[2] = y[2]
          BY <5>1 DEF RepsOf
        <5>3. OneCg(n)
          BY <3>3 DEF BindInv
        <5>4. job[r].cg = job[q].cg /\ job[r].native = n
          BY <3>6, <5>2, <5>3 DEF OneCg
        <5>5. job[r] # None /\ job[r].op = "detach" /\ pc[r] = "delete"
          BY <1>0, <4>2, StepTells DEF Detach
        <5>6. r \in after[q]
          BY <3>4, <5>4, <5>5 DEF Asking
        <5> QED
          BY <1>0, <5>5, <5>6 DEF Ordered, Answers
      <4> QED
        BY <4>1, <4>2, BoundChanges
    <3> QED
      BY <3>1, <3>2, <3>6, <3>7
  <2>2. CASE pc[q] # "bound"
    <3>1. q = r
      BY <1>0, <1>3, <2>2, Others
    <3>2. Bind(r)
      <4> USE DEF Goes
      <4>1. \A j \in Job : ~Arrive(r, j)
        <5> SUFFICES ASSUME NEW j \in Job, Arrive(r, j) PROVE FALSE
          OBVIOUS
        <5>1. j.op \in {"mint", "publish", "bind", "detach", "write"}
          BY JobShape DEF Ops
        <5> QED
          BY <1>0, <1>3, <3>1, <5>1 DEF Arrive, TypeOK
      <4>2. ~LookToMint(r) /\ ~LookToPublish(r) /\ ~LookToBind(r) /\ ~LookToWrite(r)
        BY <1>0, <1>3, <3>1 DEF LookToMint, LookToPublish, LookToBind, LookToWrite, Look, TypeOK
      <4>3. ~Mint(r) /\ ~Publish(r) /\ ~Resolve(r) /\ ~Check(r) /\ ~Count(r) /\ ~Detach(r) /\ ~Write(r)
        BY <1>0, <1>3, <3>1 DEF Mint, Publish, Resolve, Check, Count, Detach, Write, TypeOK
      <4> QED
        BY <4>1, <4>2, <4>3 DEF Acts
    <3>3. \E x \in bound' : x[1].cg = job[r].cg /\ x[2].native = job[r].native
      BY <1>3, <3>1, <3>2, Binding
    <3>4. job' = job
      BY <3>2 DEF Bind
    <3> QED
      BY <3>1, <3>3, <3>4
  <2> QED
    BY <2>1, <2>2
<1> QED
  BY <1>1, <1>2, <1>3 DEF BindInv, BindOf

(* What a write does.                                                         *)
LEMMA Writing ==
    ASSUME Base, NEW r \in Request, Write(r)
    PROVE  /\ \A x \in held' \ held : x[1].cg = job[r].cg /\ x[2].cg = job[r].cg
           /\ \A p \in props' \ props : p.by = r /\ p.cg = job[r].cg /\ p.name = job[r].name
           /\ \A p \in props' \ props : value'[p] = job[r].value
           /\ \A p \in seen[r].found : value'[p] = job[r].value
           /\ \A p \in props : p.cg # job[r].cg \/ p.name # job[r].name => value'[p] = value[p]
           /\ seen[r].found # {} => props' = props
           /\ props \subseteq props' /\ pc'[r] = "written" /\ UNCHANGED job
           /\ job[r] # None /\ job[r].op = "write" /\ pc[r] = "create"
<1>1. TypeOK /\ Flow /\ SeenOf(r)
  BY DEF Base, Seen
<1>2. pc[r] = "create" /\ job[r].op = "write" /\ job[r] # None
  BY <1>1, StepTells DEF Write, At
<1>3. /\ \A c \in seen[r].carriers : c.cg = job[r].cg
      /\ seen[r].found \subseteq {p \in props : p.cg = job[r].cg /\ p.name = job[r].name}
  BY <1>1, <1>2 DEF SeenOf, Carriers
<1> DEFINE new == [cg |-> job[r].cg, name |-> job[r].name, by |-> r]
           merged == IF seen[r].found # {} THEN seen[r].found ELSE {new}
<1>4. new.cg = job[r].cg /\ new.name = job[r].name /\ new.by = r
  OBVIOUS
<1>5. /\ props' = props \cup merged /\ held' = held \cup (seen[r].carriers \X merged)
      /\ value' = [p \in props' |-> IF p \in merged THEN job[r].value ELSE value[p]]
      /\ pc'[r] = "written" /\ UNCHANGED job
  BY <1>1 DEF Write, Goes, TypeOK
<1> HIDE DEF new
<1>6. \A p \in merged : p.cg = job[r].cg /\ p.name = job[r].name
  BY <1>3, <1>4
<1>7. seen[r].found # {} => merged = seen[r].found /\ merged \subseteq props
  BY <1>3
<1>8. seen[r].found = {} => merged = {new}
  OBVIOUS
<1> HIDE DEF merged
<1>9. \A x \in held' \ held : x[1].cg = job[r].cg /\ x[2].cg = job[r].cg
  BY <1>3, <1>5, <1>6
<1>10. \A p \in props' \ props : p \in merged /\ p.by = r
  BY <1>4, <1>5, <1>7, <1>8
<1>11. \A p \in merged : value'[p] = job[r].value
  BY <1>5
<1>12. \A p \in props : p.cg # job[r].cg \/ p.name # job[r].name => value'[p] = value[p]
  BY <1>5, <1>6
<1> QED
  BY <1>2, <1>5, <1>6, <1>7, <1>9, <1>10, <1>11, <1>12

(* Only writes change what is shared.                                         *)
LEMMA PropsChange ==
    ASSUME NEW r \in Request, Acts(r)
    PROVE  Write(r) \/ UNCHANGED <<props, value, held>>
BY DEF Acts, Arrive, At, Look, LookToMint, LookToPublish, LookToBind, LookToWrite, graph, Mint, Publish,
       Resolve, Check, Bind, Count, Detach

(* Requests that came before go on having come before.                        *)
LEMMA WritesBeforeStays ==
    ASSUME Base, Moves, NEW r \in Request, pc[r] # "idle", WritesBefore(r)'
    PROVE  WritesBefore(r)
<1>1. job'[r] = job[r] /\ after'[r] = after[r]
  BY DEF Moves
<1>2. PICK c : c = job[r].cg
  OBVIOUS
<1>3. ASSUME NEW q \in Asking("write", "cg", c) \ {r}, job[q].name = job[r].name PROVE q \in after[r]
  <2>1. q \in Asking("write", "cg", c)' /\ job'[q] = job[q]
    BY AskingGrows
  <2> QED
    BY <1>1, <1>2, <1>3, <2>1 DEF WritesBefore
<1> QED
  BY <1>2, <1>3 DEF WritesBefore

(* Writing, step by step.                                                     *)
LEMMA NextWrite == Base /\ WriteInv /\ [Next]_vars => WriteInv'
<1> SUFFICES ASSUME Base, WriteInv, Moves, NEW r \in Request, Acts(r) PROVE WriteInv'
  <2>1. CASE UNCHANGED vars
    BY <2>1 DEF vars, graph, WriteInv, WriteOf, WritesBefore, Asking
  <2> QED
    BY <2>1, NextMoves DEF Next, Acts
<1>0. TypeOK /\ Flow /\ Ordered
  BY DEF Base
<1>1. ASSUME NEW x \in held' PROVE x[1].cg = x[2].cg
  BY <1>1, PropsChange, Writing DEF WriteInv
<1>2. ASSUME NEW p \in props'
      PROVE  pc'[p.by] = "written" /\ job'[p.by].cg = p.cg /\ job'[p.by].name = p.name
  <2>1. CASE p \in props
    <3>1. p.by \in Request /\ pc[p.by] = "written" /\ job[p.by].cg = p.cg /\ job[p.by].name = p.name
      BY <1>0, <2>1 DEF TypeOK, PropNodes, WriteInv
    <3> QED
      BY <3>1 DEF Moves, Answers
  <2>2. CASE p \notin props
    BY <1>2, <2>2, PropsChange, Writing
  <2> QED
    BY <2>1, <2>2
<1>3. ASSUME NEW q \in Request, pc'[q] = "create", job'[q].op = "write",
             NEW p \in props', p.cg = job'[q].cg, p.name = job'[q].name, p.by \in after'[q]
      PROVE  p \in seen'[q].found
  <2>1. pc[q] # "idle"
    <3> SUFFICES ASSUME pc[q] = "idle" PROVE FALSE
      OBVIOUS
    <3>1. q = r
      BY <1>0, <1>3, Others
    <3>2. PICK j \in Job : Arrive(r, j)
      BY <3>1 DEF Acts, At, LookToMint, LookToPublish, LookToBind, LookToWrite, Mint, Publish,
             Resolve, Check, Bind, Count, Detach, Write
    <3>3. j.op \in {"mint", "publish", "bind", "detach", "write"}
      BY JobShape DEF Ops
    <3> QED
      BY <1>0, <1>3, <3>1, <3>2, <3>3 DEF Arrive, Goes, TypeOK
  <2>2. job'[q] = job[q] /\ after'[q] = after[q]
    BY <2>1 DEF Moves
  <2>3. p \in props
    <3> SUFFICES ASSUME p \notin props PROVE FALSE
      OBVIOUS
    <3>1. p.by = r /\ pc[r] = "create"
      BY PropsChange, Writing
    <3> QED
      BY <1>0, <1>3, <2>2, <3>1 DEF Ordered, Answers
  <2>4. CASE pc[q] = "create"
    BY <1>3, <2>2, <2>3, <2>4 DEF WriteInv, WriteOf, Moves
  <2>5. CASE pc[q] # "create"
    <3>1. q = r
      BY <1>0, <1>3, <2>5, Others
    <3>2. LookToWrite(r)
      <4> USE DEF Goes
      <4>1. \A j \in Job : ~Arrive(r, j)
        BY <2>1, <3>1 DEF Arrive
      <4>2. ~LookToMint(r) /\ ~LookToPublish(r) /\ ~LookToBind(r)
        BY <1>3, <2>2, <3>1 DEF LookToMint, LookToPublish, LookToBind, At
      <4>3. ~Mint(r) /\ ~Publish(r) /\ ~Resolve(r) /\ ~Check(r) /\ ~Bind(r) /\ ~Count(r) /\ ~Detach(r)
            /\ ~Write(r)
        BY <1>0, <1>3, <3>1 DEF Mint, Publish, Resolve, Check, Bind, Count, Detach, Write, TypeOK
      <4> QED
        BY <4>1, <4>2, <4>3 DEF Acts
    <3>3. seen'[r].found = {x \in props : x.cg = job[r].cg /\ x.name = job[r].name}
      BY <1>0, <3>2 DEF LookToWrite, Look, TypeOK
    <3> QED
      BY <1>3, <2>2, <2>3, <3>1, <3>3
  <2> QED
    BY <2>4, <2>5
<1>4. ASSUME NEW q \in Request, pc'[q] = "written", WritesBefore(q)',
             NEW p \in props', p.cg = job'[q].cg, p.name = job'[q].name
      PROVE  value'[p] = job'[q].value
  <2>1. CASE pc[q] = "written"
    <3>1. job'[q] = job[q] /\ WritesBefore(q)
      BY <1>4, <2>1, WritesBeforeStays DEF Moves
    <3>2. CASE UNCHANGED <<props, value, held>>
      BY <1>4, <2>1, <3>1, <3>2 DEF WriteInv, WriteOf
    <3>3. CASE Write(r)
      <4>1. job[r].cg # job[q].cg \/ job[r].name # job[q].name
        <5> SUFFICES ASSUME job[r].cg = job[q].cg, job[r].name = job[q].name PROVE FALSE
          OBVIOUS
        <5>1. job[r] # None /\ job[r].op = "write" /\ pc[r] = "create"
          BY <3>3, Writing
        <5>2. r \in after[q]
          BY <2>1, <3>1, <5>1 DEF WritesBefore, Asking
        <5> QED
          BY <1>0, <5>1, <5>2 DEF Ordered, Answers
      <4>2. p \in props /\ value'[p] = value[p]
        BY <1>4, <3>1, <3>3, <4>1, Writing
      <4> QED
        BY <1>4, <2>1, <3>1, <4>2 DEF WriteInv, WriteOf
    <3> QED
      BY <3>2, <3>3, PropsChange
  <2>2. CASE pc[q] # "written"
    <3>1. q = r
      BY <1>0, <1>4, <2>2, Others
    <3>2. Write(r)
      <4> USE DEF Goes
      <4>1. \A j \in Job : ~Arrive(r, j)
        <5> SUFFICES ASSUME NEW j \in Job, Arrive(r, j) PROVE FALSE
          OBVIOUS
        <5>1. j.op \in {"mint", "publish", "bind", "detach", "write"}
          BY JobShape DEF Ops
        <5> QED
          BY <1>0, <1>4, <3>1, <5>1 DEF Arrive, TypeOK
      <4>2. ~LookToMint(r) /\ ~LookToPublish(r) /\ ~LookToBind(r) /\ ~LookToWrite(r)
        BY <1>0, <1>4, <3>1 DEF LookToMint, LookToPublish, LookToBind, LookToWrite, Look, TypeOK
      <4>3. ~Mint(r) /\ ~Publish(r) /\ ~Resolve(r) /\ ~Check(r) /\ ~Bind(r) /\ ~Count(r) /\ ~Detach(r)
        BY <1>0, <1>4, <3>1 DEF Mint, Publish, Resolve, Check, Bind, Count, Detach, TypeOK
      <4> QED
        BY <4>1, <4>2, <4>3 DEF Acts
    <3>3. job' = job /\ pc[r] = "create" /\ job[r].op = "write" /\ WritesBefore(r)
      BY <1>4, <3>1, <3>2, Writing, WritesBeforeStays
    <3>4. CASE p \notin props
      BY <3>1, <3>2, <3>3, <3>4, Writing
    <3>5. CASE p \in props
      <4>1. /\ p.by \in Request /\ pc[p.by] = "written"
            /\ job[p.by].cg = job[r].cg /\ job[p.by].name = job[r].name
        BY <1>0, <1>4, <3>1, <3>3, <3>5 DEF TypeOK, PropNodes, WriteInv
      <4>2. p.by # r /\ job[p.by] # None /\ job[p.by].op = "write"
        BY <1>0, <3>3, <4>1, StepTells
      <4>3. p.by \in after[r]
        BY <3>3, <4>1, <4>2 DEF WritesBefore, Asking
      <4>4. p \in seen[r].found
        BY <1>4, <3>1, <3>3, <3>5, <4>3 DEF WriteInv, WriteOf
      <4> QED
        BY <3>1, <3>2, <3>3, <4>4, Writing
    <3> QED
      BY <3>4, <3>5
  <2> QED
    BY <2>1, <2>2
<1> QED
  BY <1>1, <1>2, <1>3, <1>4 DEF WriteInv, WriteOf

------------------------------------------------------------------------------
(* The invariants of every behaviour.                                         *)
LEMMA Invariance == Spec => [](Base /\ MintInv /\ BindInv /\ WriteInv)
BY InitBase, NextBase, NextMint, NextBind, NextWrite, PTL DEF Spec

(* At most one of what is all the same.                                       *)
LEMMA AtMostOne ==
    ASSUME NEW S, \A x, y \in S : x = y
    PROVE  Cardinality(S) <= 1
<1>1. CASE S = {}
  BY <1>1, FS_EmptySet
<1>2. CASE S # {}
  <2>1. PICK x \in S : S = {x}
    BY <1>2
  <2> QED
    BY <2>1, FS_Singleton
<1> QED
  BY <1>1, <1>2

(* Types; what is bound or shared is there (the Cypher of dg_identity.py).    *)
THEOREM TypeCorrect == Spec => []TypeOK
BY Invariance, PTL DEF Base

(* A native id belongs to at most one identity, unless two binds of it raced: *)
(* what bind found when it resolved holds until it merges.                    *)
THEOREM NativeHasOneOwner == Spec => []OneOwner
<1>1. BindInv => OneOwner
  <2> SUFFICES ASSUME BindInv, NEW n \in Native, BindsSequential(n)
               PROVE  Cardinality(OwnersOf(n)) <= 1
    BY DEF OneOwner, BindsSequential
  <2>1. \A c, d \in OwnersOf(n) : c = d
    BY DEF BindInv, OneCg, OwnersOf
  <2> QED
    BY <2>1, AtMostOne
<1> QED
  BY Invariance, <1>1, PTL

(* Who was told that a native id is bound to an identity keeps it, whatever   *)
(* is detached from others meanwhile.                                         *)
THEOREM BindingsAreKept == Spec => []BindingKept
<1>1. Base /\ BindInv => BindingKept
  <2> SUFFICES ASSUME Base, BindInv, NEW r \in Request, pc[r] = "bound",
                      BindsSequential(job[r].native), DetachedBefore(r)
               PROVE  job[r].cg \in OwnersOf(job[r].native)
    BY DEF BindingKept, BindsSequential, DetachedBefore
  <2>1. \E x \in bound : x[2].native = job[r].native /\ x[1].cg = job[r].cg
    BY DEF BindInv, BindOf
  <2> QED
    BY <2>1 DEF OwnersOf
<1> QED
  BY Invariance, <1>1, PTL

(* An entity has one minted node, unless two mints of it raced, and none that *)
(* was minted after it was published.                                         *)
THEOREM MintIsIdempotent == Spec => []MintedOnce
<1>1. Base /\ MintInv => MintedOnce
  <2> SUFFICES ASSUME Base, MintInv, NEW cg \in CgId
               PROVE  LET minted == {e \in entities : e.cg = cg /\ ~e.labelled}
                      IN  /\ Sequential(Asking("mint", "cg", cg)) => Cardinality(minted) <= 1
                          /\ \A e \in minted, q \in Asking("publish", "cg", cg) : q \notin after[e.by]
    BY DEF MintedOnce
  <2> DEFINE minted == {e \in entities : e.cg = cg /\ ~e.labelled}
  <2>0. TypeOK /\ Flow /\ Ordered
    BY DEF Base
  <2>1. \A e \in minted : /\ e \in Nodes /\ e.by \in Request /\ Entered(e.by, cg) /\ pc[e.by] = "minted"
                          /\ \A q \in after[e.by] : ~Entered(q, cg)
    BY <2>0 DEF MintInv, TypeOK, Nodes
  <2>2. ASSUME Sequential(Asking("mint", "cg", cg)) PROVE Cardinality(minted) <= 1
    <3>1. ASSUME NEW e \in minted, NEW f \in minted PROVE e = f
      <4>1. e.by \in Asking("mint", "cg", cg) /\ f.by \in Asking("mint", "cg", cg)
        BY <2>0, <2>1, StepTells DEF Entered, Asking
      <4>2. e.by = f.by
        BY <2>1, <2>2, <4>1 DEF Sequential
      <4> QED
        BY <2>1, <4>2 DEF Nodes
    <3> QED
      BY <3>1, AtMostOne
  <2>3. ASSUME NEW e \in minted, NEW q \in Asking("publish", "cg", cg), q \in after[e.by] PROVE FALSE
    <3>1. q \in Request /\ job[q] # None /\ job[q].op = "publish" /\ job[q].cg = cg
      BY <2>3 DEF Asking
    <3>2. pc[q] = "published"
      BY <2>0, <2>1, <2>3, <3>1, StepTells DEF Ordered
    <3> QED
      BY <2>1, <2>3, <3>1, <3>2 DEF Entered
  <2> QED
    BY <2>2, <2>3
<1> QED
  BY Invariance, <1>1, PTL

(* Whoever reads a shared property reads what was written last, of whichever  *)
(* nodes writes that raced left.                                              *)
THEOREM LastWriteIsRead == Spec => []LastWriteRead
<1>1. Base /\ WriteInv => LastWriteRead
  <2> SUFFICES ASSUME Base, WriteInv, NEW r \in Request, pc[r] = "written", WritesBefore(r),
                      NEW x \in held, x[1].cg = job[r].cg, x[2].name = job[r].name
               PROVE  value[x[2]] = job[r].value
    BY DEF LastWriteRead, WritesBefore
  <2>1. x[2] \in props /\ x[2].cg = job[r].cg
    BY DEF Base, TypeOK, WriteInv
  <2> QED
    BY <2>1 DEF WriteInv, WriteOf
<1> QED
  BY Invariance, <1>1, PTL
===============================================================================
