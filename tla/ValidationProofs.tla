--------------------------- MODULE ValidationProofs ---------------------------
(***************************************************************************)
(* Theorems of what a validation rests on. First ValidationPublish, for    *)
(* any number of runs, delete requests, Speckle projects and models; then  *)
(* ReasonerSidecar, whose SHACL route a publish and a consistency check    *)
(* wait for, for every timeout, margin and bound.                          *)
(***************************************************************************)
EXTENDS ValidationPublish, ReasonerSidecar, TLAPS

(* What a handler relies on having read, and a row on having been given.       *)
Known ==
    /\ \A r \in Run :
          /\ at[r] = "configure" => EnvTarget # None
          /\ at[r] \in {"reconfigure", "reread"} => config # None
          /\ at[r] \in {"model", "create", "overlay", "upsert", "row"} => seen[r] # None
          /\ row[r] = "stored" => rowTarget[r] # None

Typed == TypeOK /\ Known

------------------------------------------------------------------------------
(* No publish has begun.                                                      *)
LEMMA InitTyped == Init => Typed
<1> SUFFICES ASSUME Init PROVE Typed
  OBVIOUS
<1>1. row \in [Run -> RowStates] /\ \A r \in Run : row[r] # "stored"
  BY DEF Init, RowStates
<1>2. at \in [Run -> Steps] /\ \A r \in Run : at[r] = "waiting"
  BY DEF Init, Steps
<1>3. TypeOK
  BY <1>1, <1>2 DEF Init, TypeOK
<1>4. QED
  BY <1>1, <1>2, <1>3 DEF Typed, Known

(* Every step preserves the types and what its handler relies on.              *)
LEMMA NextTyped == Typed /\ [Next]_vars => Typed'
<1> SUFFICES ASSUME Typed, [Next]_vars PROVE Typed'
  OBVIOUS
<1> USE PublishAssumption DEF Typed, TypeOK, Known, Steps, Config,
        storeVars, speckleVars, publishVars, deleteVars
<1>1. ASSUME NEW c \in Saves, SaveConfig(c) PROVE Typed'
  <2>1. config' = c
    BY <1>1 DEF SaveConfig
  <2>2. config' \in Config /\ config' # None
    BY <2>1
  <2>3. UNCHANGED <<row, rowTarget, entities, modelOf, version, at, seen, model,
                    delAt, delRun, delTarget, deleted>>
    BY <1>1 DEF SaveConfig
  <2>4. QED
    BY <2>2, <2>3
<1>2. ASSUME NEW r \in Run, Publish(r) PROVE Typed'
  <2>1. CASE ReadConfig(r)
    BY <2>1 DEF ReadConfig, Step
  <2>2. CASE AutoConfigure(r)
    BY <2>2 DEF AutoConfigure, Step
  <2>3. CASE ReadAutoConfig(r)
    BY <2>3 DEF ReadAutoConfig, Step
  <2>4. CASE FindModel(r)
    BY <2>4 DEF FindModel, Step
  <2>5. CASE CreateModel(r)
    <3>1. PICK m \in Model : /\ modelOf' = [modelOf EXCEPT ![m] = seen[r].target]
                             /\ model' = [model EXCEPT ![r] = m]
      BY <2>5 DEF CreateModel
    <3>2. at' = [at EXCEPT ![r] = "overlay"] /\ at[r] = "create"
      BY <2>5 DEF CreateModel, Step
    <3>3. UNCHANGED <<config, storeVars, version, seen, deleteVars>>
      BY <2>5 DEF CreateModel
    <3>4. QED
      BY <3>1, <3>2, <3>3
  <2>6. CASE PublishOverlay(r)
    BY <2>6 DEF PublishOverlay, Step, Created
  <2>7. CASE UpsertConfig(r)
    BY <2>7 DEF UpsertConfig, Step, Snapshot
  <2>8. CASE RereadConfig(r)
    BY <2>8 DEF RereadConfig, Step
  <2>9. CASE StoreRow(r)
    BY <2>9 DEF StoreRow, Step, RowStates
  <2>10. CASE StoreEntities(r)
    BY <2>10 DEF StoreEntities, Step, RowMatched
  <2>11. CASE PersistReport(r)
    BY <2>11 DEF PersistReport, Step, RowStates
  <2>12. CASE AbortPublish(r)
    BY <2>12 DEF AbortPublish
  <2>13. QED
    BY <1>2, <2>1, <2>2, <2>3, <2>4, <2>5, <2>6, <2>7, <2>8, <2>9, <2>10, <2>11, <2>12
       DEF Publish
<1>3. ASSUME NEW d \in Deletion, Delete(d) PROVE Typed'
  <2>1. ASSUME NEW r \in Run, LookUp(d, r) PROVE Typed'
    BY <2>1 DEF LookUp, HasSpeckleIds
  <2>2. CASE DeleteOverlay(d)
    BY <2>2 DEF DeleteOverlay
  <2>3. CASE DeleteMetadata(d)
    BY <2>3 DEF DeleteMetadata, RowStates
  <2>4. CASE AbortDelete(d)
    BY <2>4 DEF AbortDelete
  <2>5. QED
    BY <1>3, <2>1, <2>2, <2>3, <2>4 DEF Delete
<1>4. CASE UNCHANGED vars
  BY <1>4 DEF vars
<1>5. QED
  BY <1>1, <1>2, <1>3, <1>4 DEF Next

(* The types hold in every state.                                             *)
LEMMA TypedAlways == Spec => []Typed
  BY InitTyped, NextTyped, PTL DEF Spec

(* The state keeps its types; no handler works from a configuration it has not *)
(* read, and a row that names Speckle identifiers names its Speckle project.   *)
THEOREM TypeCorrect == Spec => [](TypeOK /\ Known)
  BY TypedAlways DEF Typed

------------------------------------------------------------------------------
(* The steps of a publish before it has stored its row. The watcher stores the *)
(* row before the configuration, the manual route after it.                    *)
Unstored(r) ==
    \/ at[r] \in {"waiting", "configure", "reconfigure", "model", "create", "overlay",
                  "reread", "row"}
    \/ at[r] = "upsert" /\ r \notin AutoRun

(* Until then nobody else touches the run's row, its entities or its version:  *)
(* a delete request cannot have found it. Afterwards a version is missing only *)
(* where a delete request has removed it.                                      *)
StoresAgree ==
    /\ \A r \in Run :
          /\ Unstored(r) => row[r] # "stored" /\ r \notin deleted
          /\ at[r] = "row" \/ at[r] = "reread" \/ (at[r] = "upsert" /\ r \notin AutoRun)
                => version[r] # None
          /\ at[r] = "entities" => row[r] \in {"absent", "stored"}
    /\ \A d \in Deletion :
          /\ delAt[d] # "waiting" => ~Unstored(delRun[d])
          /\ delAt[d] = "metadata" => version[delRun[d]] = None

StoreInv ==
    /\ StoresAgree
    /\ EntitiesHaveRow
    /\ DeletedLeavesNoVersion
    /\ RowHasOverlay

(* The model a handler has found and has yet to write to the configuration.    *)
Holding(r) ==
    \/ at[r] \in {"overlay", "upsert"}
    \/ at[r] = "row" /\ r \in AutoRun

(* A configuration that no operator saves has its model in its project; so has *)
(* the one a handler is about to write.                                        *)
Belongs(c) == c # None /\ c.model # None /\ c \notin Saves => modelOf[c.model] = c.target

ModelInv ==
    /\ Belongs(config)
    /\ \A r \in Run :
          /\ Belongs(seen[r])
          /\ Holding(r) => model[r] \in Model /\ Belongs(Snapshot(r))
          /\ at[r] = "reread" => r \notin AutoRun

------------------------------------------------------------------------------
(* No store holds anything of a run.                                          *)
LEMMA InitStores == Init => StoreInv
  BY DEF Init, StoreInv, StoresAgree, EntitiesHaveRow, DeletedLeavesNoVersion, RowHasOverlay

(* Every step preserves the agreement of the two stores.                       *)
LEMMA NextStores == Typed /\ StoreInv /\ [Next]_vars => StoreInv'
<1> SUFFICES ASSUME Typed, StoreInv, [Next]_vars PROVE StoreInv'
  OBVIOUS
<1> USE PublishAssumption
        DEF Typed, TypeOK, StoreInv, StoresAgree, EntitiesHaveRow, DeletedLeavesNoVersion,
            RowHasOverlay, Unstored, Steps, storeVars, speckleVars, publishVars, deleteVars
<1>1. ASSUME NEW c \in Saves, SaveConfig(c) PROVE StoreInv'
  BY <1>1 DEF SaveConfig
<1>2. ASSUME NEW r \in Run, Publish(r) PROVE StoreInv'
  <2>1. CASE ReadConfig(r)
    BY <2>1 DEF ReadConfig, Step
  <2>2. CASE AutoConfigure(r)
    BY <2>2 DEF AutoConfigure, Step
  <2>3. CASE ReadAutoConfig(r)
    BY <2>3 DEF ReadAutoConfig, Step
  <2>4. CASE FindModel(r)
    BY <2>4 DEF FindModel, Step
  <2>5. CASE CreateModel(r)
    BY <2>5 DEF CreateModel, Step
  <2>6. CASE PublishOverlay(r)
    <3>1. seen[r].target \in Target
      BY <2>6 DEF PublishOverlay, Step, Known, Config
    <3>2. QED
      BY <2>6, <3>1 DEF PublishOverlay, Step, Created
  <2>7. CASE UpsertConfig(r)
    BY <2>7 DEF UpsertConfig, Step
  <2>8. CASE RereadConfig(r)
    BY <2>8 DEF RereadConfig, Step
  <2>9. CASE StoreRow(r)
    BY <2>9 DEF StoreRow, Step, RowStates
  <2>10. CASE StoreEntities(r)
    BY <2>10 DEF StoreEntities, Step, RowMatched
  <2>11. CASE PersistReport(r)
    BY <2>11 DEF PersistReport, Step, RowStates
  <2>12. CASE AbortPublish(r)
    BY <2>12 DEF AbortPublish
  <2>13. QED
    BY <1>2, <2>1, <2>2, <2>3, <2>4, <2>5, <2>6, <2>7, <2>8, <2>9, <2>10, <2>11, <2>12
       DEF Publish
<1>3. ASSUME NEW d \in Deletion, Delete(d) PROVE StoreInv'
  <2>1. ASSUME NEW r \in Run, LookUp(d, r) PROVE StoreInv'
    BY <2>1 DEF LookUp, HasSpeckleIds
  <2>2. CASE DeleteOverlay(d)
    BY <2>2 DEF DeleteOverlay, Confirmed
  <2>3. CASE DeleteMetadata(d)
    BY <2>3 DEF DeleteMetadata, RowStates
  <2>4. CASE AbortDelete(d)
    BY <2>4 DEF AbortDelete
  <2>5. QED
    BY <1>3, <2>1, <2>2, <2>3, <2>4 DEF Delete
<1>4. CASE UNCHANGED vars
  BY <1>4 DEF vars
<1>5. QED
  BY <1>1, <1>2, <1>3, <1>4 DEF Next

(* Entities never outlive their run, a run reported deleted has left no version *)
(* in Speckle, and a listed run lacks its version only where a delete request   *)
(* has removed it: however publishes and deletes interleave and wherever they   *)
(* break off.                                                                   *)
THEOREM StoresStayTogether ==
    Spec => [](EntitiesHaveRow /\ DeletedLeavesNoVersion /\ RowHasOverlay)
<1>1. StoreInv => EntitiesHaveRow /\ DeletedLeavesNoVersion /\ RowHasOverlay
  BY DEF StoreInv
<1>2. QED
  BY <1>1, TypedAlways, InitStores, NextStores, PTL DEF Spec

(* A run that delete_validation_run reported deleted has left no version in    *)
(* Speckle.                                                                    *)
THEOREM DeletedRunsLeaveNoVersion == Spec => []DeletedLeavesNoVersion
BY StoresStayTogether, PTL

(* A listed run lacks its overlay only where a delete has got to Speckle.      *)
THEOREM ListedRunsHaveTheirOverlay == Spec => []RowHasOverlay
BY StoresStayTogether, PTL

------------------------------------------------------------------------------
(* No handler has a model.                                                    *)
LEMMA InitModels == Init => ModelInv
  BY DEF Init, ModelInv, Belongs, Holding

(* Every step keeps each model in the project that a configuration, on record  *)
(* or in a handler's hands, says it is in, unless an operator said so.         *)
LEMMA NextModels == Typed /\ ModelInv /\ [Next]_vars => ModelInv'
<1> SUFFICES ASSUME Typed, ModelInv, [Next]_vars PROVE ModelInv'
  OBVIOUS
<1> USE PublishAssumption
        DEF Typed, TypeOK, Known, ModelInv, Belongs, Holding, Snapshot, Config, Steps,
            storeVars, speckleVars, publishVars, deleteVars
<1>1. ASSUME NEW c \in Saves, SaveConfig(c) PROVE ModelInv'
  BY <1>1 DEF SaveConfig
<1>2. ASSUME NEW r \in Run, Publish(r) PROVE ModelInv'
  <2>1. CASE ReadConfig(r)
    BY <2>1 DEF ReadConfig, Step
  <2>2. CASE AutoConfigure(r)
    BY <2>2 DEF AutoConfigure, Step
  <2>3. CASE ReadAutoConfig(r)
    BY <2>3 DEF ReadAutoConfig, Step
  <2>4. CASE FindModel(r)
    <3> DEFINE found == IF seen[r].model # None THEN {seen[r].model}
                        ELSE {m \in Model : modelOf[m] = seen[r].target}
    <3>1. seen[r] \in [target : Target, model : Model \cup {None}]
      BY <2>4 DEF FindModel, Step
    <3>2. UNCHANGED <<config, seen, modelOf>>
      BY <2>4 DEF FindModel
    <3>3. /\ at' = [at EXCEPT ![r] = IF found = {} THEN "create" ELSE "overlay"]
          /\ \/ \E m \in found : model' = [model EXCEPT ![r] = m]
             \/ found = {} /\ model' = model
      BY <2>4 DEF FindModel, Step
    <3>4. CASE found = {}
      <4>1. at' = [at EXCEPT ![r] = "create"] /\ model' = model
        BY <3>3, <3>4
      <4>2. QED
        BY <3>2, <4>1
    <3>5. ASSUME NEW m \in found, model' = [model EXCEPT ![r] = m] PROVE ModelInv'
      <4>1. at' = [at EXCEPT ![r] = "overlay"] /\ m \in Model
        BY <3>1, <3>3, <3>5
      <4>2. [target |-> seen[r].target, model |-> m] \in Saves \/ modelOf[m] = seen[r].target
        <5>1. CASE seen[r].model # None
          <6>1. m = seen[r].model /\ [target |-> seen[r].target, model |-> m] = seen[r]
            BY <3>1, <5>1
          <6>2. QED
            BY <3>1, <5>1, <6>1
        <5>2. QED
          BY <5>1
      <4>3. QED
        BY <3>2, <3>5, <4>1, <4>2
    <3>6. QED
      BY <3>3, <3>4, <3>5
  <2>5. CASE CreateModel(r)
    <3>1. PICK m \in Model : /\ modelOf[m] = None
                            /\ modelOf' = [modelOf EXCEPT ![m] = seen[r].target]
                            /\ model' = [model EXCEPT ![r] = m]
      BY <2>5 DEF CreateModel
    <3>2. /\ at' = [at EXCEPT ![r] = "overlay"] /\ UNCHANGED <<config, seen>>
          /\ seen[r].target \in Target
      BY <2>5 DEF CreateModel, Step
    <3>3. Belongs(config)'
      BY <3>1, <3>2
    <3>4. ASSUME NEW q \in Run PROVE Belongs(seen[q])'
      <4>1. PICK c : c = seen[q]
        OBVIOUS
      <4>2. Belongs(c) /\ c \in Config \cup {None} /\ seen'[q] = c
        BY <3>2, <4>1
      <4>3. QED
        BY <3>1, <4>2
    <3>5. ASSUME NEW q \in Run, Holding(q)'
          PROVE  model'[q] \in Model /\ Belongs(Snapshot(q))'
      <4>1. CASE q = r
        <5>1. model'[q] = m /\ modelOf'[m] = seen'[q].target
          BY <3>1, <3>2, <4>1
        <5>2. QED
          BY <5>1
      <4>2. CASE q # r
        <5>1. Holding(q) /\ model'[q] = model[q] /\ seen'[q] = seen[q]
          BY <3>1, <3>2, <3>5, <4>2
        <5>2. model[q] \in Model /\ Belongs(Snapshot(q))
          BY <5>1
        <5>3. model[q] # m \/ modelOf[model[q]] # seen[q].target
          BY <3>1, <3>2, <5>1
        <5>4. QED
          BY <3>1, <3>2, <5>1, <5>2, <5>3
      <4>3. QED
        BY <4>1, <4>2
    <3>6. at'[r] = "overlay" /\ \A q \in Run : at'[q] = "reread" => at[q] = "reread"
      BY <3>2
    <3>7. QED
      BY <3>3, <3>4, <3>5, <3>6
  <2>6. CASE PublishOverlay(r)
    BY <2>6 DEF PublishOverlay, Step
  <2>7. CASE UpsertConfig(r)
    BY <2>7 DEF UpsertConfig, Step
  <2>8. CASE RereadConfig(r)
    BY <2>8 DEF RereadConfig, Step
  <2>9. CASE StoreRow(r)
    BY <2>9 DEF StoreRow, Step
  <2>10. CASE StoreEntities(r)
    BY <2>10 DEF StoreEntities, Step
  <2>11. CASE PersistReport(r)
    BY <2>11 DEF PersistReport, Step
  <2>12. CASE AbortPublish(r)
    BY <2>12 DEF AbortPublish
  <2>13. QED
    BY <1>2, <2>1, <2>2, <2>3, <2>4, <2>5, <2>6, <2>7, <2>8, <2>9, <2>10, <2>11, <2>12
       DEF Publish
<1>3. ASSUME NEW d \in Deletion, Delete(d) PROVE ModelInv'
  BY <1>3 DEF Delete, LookUp, DeleteOverlay, DeleteMetadata, AbortDelete
<1>4. CASE UNCHANGED vars
  BY <1>4 DEF vars
<1>5. QED
  BY <1>1, <1>2, <1>3, <1>4 DEF Next

(* Whatever operators save, a pair on record that none of them saves as it       *)
(* stands has its model in its Speckle project, although every publish writes   *)
(* back the whole of a configuration it read before: what it writes names the   *)
(* project that it found its model in.                                          *)
THEOREM ConfigurationUnmixed == Spec => []ConfigUnmixed
<1>1. ModelInv => ConfigUnmixed
  BY DEF ModelInv, Belongs, ConfigUnmixed
<1>2. QED
  BY <1>1, TypedAlways, InitModels, NextModels, PTL DEF Spec

------------------------------------------------------------------------------
(* The reasoner sidecar.                                                      *)

(* Before a request is posted nothing of it exists.                           *)
Fresh ==
    /\ caller = "idle" => thread = "idle" /\ truth = {}
    /\ thread \in {"idle", "building"} =>
          worker = "none" /\ ~java /\ pipe = Absent /\ files = {} /\ result = Absent
    /\ thread # "idle" => kind \in Kinds
    /\ thread \in {"idle", "building", "joining", "collecting"} => result = Absent
    /\ thread \in {"cleaning", "answered"} => result # Absent

(* A whole report says what is true, and so does what is made of it.          *)
Truthful ==
    /\ pipe # Absent /\ pipe.says = "found" => pipe.found = truth
    /\ result \in Claims => (result = "refuted") = (\E f \in truth : Refutes(f))

(* Java runs in a reasoning worker, or outlives one that was killed alone.    *)
Accounted ==
    /\ java => worker = "reasoning" \/ (worker = "exited" /\ hurt)
    /\ thread = "collecting" => worker = "exited"
    /\ thread = "answered" /\ ~hurt => files = {}
    /\ thread \in {"cleaning", "answered"} /\ ~hurt =>
          (Alive \/ java => result = "error" /\ waited >= Limit)

(* The inductive invariant.                                                   *)
SidecarInv == SidecarTypeOK /\ Fresh /\ Truthful /\ ClaimsHold /\ Accounted /\ ProxyOutwaits

(* It holds before the request.                                               *)
LEMMA InitSidecar == SidecarInit => SidecarInv
<1> SUFFICES ASSUME SidecarInit PROVE SidecarInv
  OBVIOUS
<1>1. java \in BOOLEAN /\ large \in BOOLEAN /\ hurt \in BOOLEAN
  BY DEF SidecarInit
<1>2. age \in Nat /\ waited \in 0..Limit
  BY LimitAssumption DEF SidecarInit
<1>3. SidecarTypeOK
  BY <1>1, <1>2 DEF SidecarInit, SidecarTypeOK
<1>4. Fresh /\ Truthful /\ ClaimsHold
  BY AbsentAssumption DEF SidecarInit, Fresh, Truthful, ClaimsHold, Claims, Answers
<1>5. Accounted /\ ProxyOutwaits
  BY DEF SidecarInit, Accounted, ProxyOutwaits
<1> QED
  BY <1>3, <1>4, <1>5 DEF SidecarInv

(* The types survive every step of the five parties.                          *)
LEMMA NextSidecarTypes == SidecarInv /\ [SidecarNext]_sidecarVars => SidecarTypeOK'
<1> SUFFICES ASSUME SidecarTypeOK, Fresh, [SidecarNext]_sidecarVars PROVE SidecarTypeOK'
  BY DEF SidecarInv
<1>1. ASSUME NEW k \in Kinds, Post(k) PROVE SidecarTypeOK'
  BY <1>1, AbsentAssumption DEF Post, SidecarTypeOK
<1>2. ASSUME NEW k \in Kinds, Turned(k) PROVE SidecarTypeOK'
  <2>1. caller' \in Answers
    BY <1>2 DEF Turned, Answers
  <2>2. truth = {}
    BY <1>2 DEF Turned, Fresh
  <2> QED
    BY <1>2, <2>1, <2>2 DEF Turned, SidecarTypeOK
<1>3. CASE GiveUp
  BY <1>3 DEF GiveUp, SidecarTypeOK, Answers
<1>4. CASE Build
  BY <1>4 DEF Build, TempFiles, SidecarTypeOK
<1>5. CASE BuildFails
  <2>1. caller' \in {"idle", "waiting"} \cup Answers
    BY <1>5 DEF BuildFails, SidecarTypeOK, Answers
  <2>2. files' \subseteq {"data", "shapes"} /\ hurt' \in BOOLEAN
    BY <1>5 DEF BuildFails, SidecarTypeOK, TempFiles
  <2> QED
    BY <1>5, <2>1, <2>2 DEF BuildFails, SidecarTypeOK
<1>6. CASE Setsid
  BY <1>6 DEF Setsid, SidecarTypeOK
<1>7. CASE Reason
  <2>1. (kind = "consistency") \in BOOLEAN
    OBVIOUS
  <2> QED
    BY <1>7, <2>1 DEF Reason, SidecarTypeOK
<1>8. CASE Report \/ ReportError
  <2>1. kind \in Kinds
    BY <1>8 DEF Report, ReportError, Fresh
  <2>2. truth \subseteq Finding(kind)
    BY <2>1, AbsentAssumption DEF SidecarTypeOK
  <2>3. [says |-> "found", found |-> truth] \in Reports /\ [says |-> "error", found |-> {}] \in Reports
        /\ [says |-> "part", found |-> {}] \in Reports
    BY <2>1, <2>2 DEF Reports
  <2>4. pipe' \in Reports
    BY <1>8, <2>3 DEF Report, ReportError, Put
  <2> QED
    BY <1>8, <2>4 DEF Report, ReportError, Put, SidecarTypeOK
<1>9. CASE Exit
  BY <1>9 DEF Exit, SidecarTypeOK
<1>10. CASE Killed
  BY <1>10 DEF Killed, SidecarTypeOK
<1>11. CASE JavaEnds
  BY <1>11 DEF JavaEnds, SidecarTypeOK
<1>12. CASE Joined
  BY <1>12 DEF Joined, SidecarTypeOK
<1>13. CASE Expired
  BY <1>13 DEF Expired, SidecarTypeOK
<1>14. CASE Collect
  BY <1>14 DEF Collect, Verdict, SidecarTypeOK, Claims
<1>15. CASE Clean
  <2>1. caller' \in {"idle", "waiting"} \cup Answers
    BY <1>15 DEF Clean, SidecarTypeOK, Fresh, Answers, Claims
  <2> QED
    BY <1>15, <2>1 DEF Clean, SidecarTypeOK
<1>16. CASE Tick
  BY <1>16, LimitAssumption DEF Tick, SidecarTypeOK
<1>17. CASE UNCHANGED sidecarVars
  BY <1>17 DEF sidecarVars, SidecarTypeOK
<1> QED
  BY <1>1, <1>2, <1>3, <1>4, <1>5, <1>6, <1>7, <1>8, <1>9, <1>10, <1>11, <1>12, <1>13, <1>14,
     <1>15, <1>16, <1>17 DEF SidecarNext

(* What holds before the answer of the worker is kept.                        *)
LEMMA NextFresh == SidecarInv /\ [SidecarNext]_sidecarVars => Fresh'
<1> SUFFICES ASSUME SidecarInv, [SidecarNext]_sidecarVars PROVE Fresh'
  OBVIOUS
<1> USE AbsentAssumption DEF SidecarInv, SidecarTypeOK, Fresh, Claims, Answers, Kinds, Alive
<1>1. ASSUME NEW k \in Kinds, Post(k) \/ Turned(k) PROVE Fresh'
  <2>1. CASE Post(k)
    BY <2>1 DEF Post
  <2>2. CASE Turned(k)
    <3>1. caller' # "idle" /\ thread' = "idle"
      BY <2>2 DEF Turned
    <3> QED
      BY <2>2, <3>1 DEF Turned
  <2> QED
    BY <1>1, <2>1, <2>2
<1>2. CASE GiveUp
  BY <1>2 DEF GiveUp
<1>3. CASE Build
  BY <1>3 DEF Build
<1>4. CASE Tick
  BY <1>4 DEF Tick
<1>5. CASE BuildFails
  BY <1>5 DEF BuildFails
<1>6. CASE Clean
  BY <1>6 DEF Clean
<1>7. CASE Setsid \/ Reason \/ Exit \/ Killed \/ JavaEnds \/ Joined
  BY <1>7 DEF Setsid, Reason, Exit, Killed, JavaEnds, Joined
<1>8. CASE Report \/ ReportError
  BY <1>8 DEF Report, ReportError, Put
<1>9. CASE Expired
  BY <1>9 DEF Expired
<1>10. CASE Collect
  BY <1>10 DEF Collect, Verdict
<1>11. CASE UNCHANGED sidecarVars
  BY <1>11 DEF sidecarVars
<1> QED
  BY <1>1, <1>2, <1>3, <1>4, <1>5, <1>6, <1>7, <1>8, <1>9, <1>10, <1>11 DEF SidecarNext

(* Reports and verdicts stay true: the findings are fixed once posted.        *)
LEMMA NextTruthful == SidecarInv /\ [SidecarNext]_sidecarVars => Truthful' /\ ClaimsHold'
<1> SUFFICES ASSUME SidecarInv, [SidecarNext]_sidecarVars PROVE Truthful' /\ ClaimsHold'
  OBVIOUS
<1> USE AbsentAssumption DEF SidecarInv, SidecarTypeOK, Fresh, Truthful, ClaimsHold, Claims, Answers, Kinds
<1>1. ASSUME NEW k \in Kinds, Post(k) \/ Turned(k) PROVE Truthful' /\ ClaimsHold'
  BY <1>1 DEF Post, Turned
<1>2. CASE GiveUp \/ Build \/ BuildFails \/ Tick
  BY <1>2 DEF GiveUp, Build, BuildFails, Tick
<1>3. CASE Setsid \/ Reason \/ Exit \/ Killed \/ JavaEnds \/ Joined
  BY <1>3 DEF Setsid, Reason, Exit, Killed, JavaEnds, Joined
<1>4. CASE Report
  BY <1>4 DEF Put, Report
<1>5. CASE ReportError
  BY <1>5 DEF Put, ReportError
<1>6. CASE Expired
  BY <1>6 DEF Expired
<1>7. CASE Collect
  <2>1. pipe # Absent => pipe.says \in {"error", "found"}
    BY <1>7 DEF Collect, Torn, Reports
  <2> QED
    BY <1>7, <2>1 DEF Collect, Verdict
<1>8. CASE Clean
  BY <1>8 DEF Clean
<1>9. CASE UNCHANGED sidecarVars
  BY <1>9 DEF sidecarVars
<1> QED
  BY <1>1, <1>2, <1>3, <1>4, <1>5, <1>6, <1>7, <1>8, <1>9 DEF SidecarNext

(* Processes and files are accounted for by every step.                       *)
LEMMA NextAccounted == SidecarInv /\ [SidecarNext]_sidecarVars => Accounted'
<1> SUFFICES ASSUME SidecarInv, [SidecarNext]_sidecarVars PROVE Accounted'
  OBVIOUS
<1> USE LimitAssumption, AbsentAssumption DEF SidecarInv, SidecarTypeOK, Fresh, Accounted, Alive
<1>1. ASSUME NEW k \in Kinds, Post(k) \/ Turned(k) PROVE Accounted'
  BY <1>1 DEF Post, Turned
<1>2. CASE GiveUp
  BY <1>2 DEF GiveUp
<1>3. CASE Build
  BY <1>3 DEF Build
<1>4. CASE Tick
  BY <1>4 DEF Tick
<1>5. CASE BuildFails
  BY <1>5 DEF BuildFails
<1>6. CASE Setsid
  BY <1>6 DEF Setsid
<1>7. CASE Exit
  BY <1>7 DEF Exit
<1>8. CASE Killed
  BY <1>8 DEF Killed
<1>9. CASE JavaEnds
  BY <1>9 DEF JavaEnds
<1>10. CASE Joined
  BY <1>10 DEF Joined
<1>11. CASE Reason
  BY <1>11 DEF Reason
<1>12. CASE Report \/ ReportError
  BY <1>12 DEF Report, ReportError, Put
<1>13. CASE Expired
  BY <1>13 DEF Expired
<1>14. CASE Collect \/ Clean
  BY <1>14 DEF Collect, Clean
<1>15. CASE UNCHANGED sidecarVars
  BY <1>15 DEF sidecarVars
<1> QED
  BY <1>1, <1>2, <1>3, <1>4, <1>5, <1>6, <1>7, <1>8, <1>9, <1>10, <1>11, <1>12, <1>13, <1>14,
     <1>15 DEF SidecarNext

(* Time outside the bound never shrinks, and the bound is never overrun.      *)
LEMMA NextOutwaits == SidecarInv /\ [SidecarNext]_sidecarVars => ProxyOutwaits'
<1> SUFFICES ASSUME SidecarInv, [SidecarNext]_sidecarVars PROVE ProxyOutwaits'
  OBVIOUS
<1> USE LimitAssumption DEF SidecarInv, SidecarTypeOK, Fresh, ProxyOutwaits, Untimed, Claims, Answers, Kinds
<1>1. ASSUME NEW k \in Kinds, Post(k) \/ Turned(k) PROVE ProxyOutwaits'
  BY <1>1 DEF Post, Turned
<1>2. CASE GiveUp
  BY <1>2 DEF GiveUp, Wait
<1>3. CASE Build \/ BuildFails \/ Clean
  BY <1>3 DEF Build, BuildFails, Clean
<1>4. CASE Setsid \/ Reason \/ Exit \/ Killed \/ JavaEnds \/ Joined
  BY <1>4 DEF Setsid, Reason, Exit, Killed, JavaEnds, Joined
<1>5. CASE Report \/ ReportError \/ Expired \/ Collect
  BY <1>5 DEF Report, ReportError, Put, Expired, Collect
<1>6. CASE Tick
  BY <1>6 DEF Tick
<1>7. CASE UNCHANGED sidecarVars
  BY <1>7 DEF sidecarVars
<1> QED
  BY <1>1, <1>2, <1>3, <1>4, <1>5, <1>6, <1>7 DEF SidecarNext

(* The invariant of every behaviour.                                          *)
LEMMA SidecarInvariance == SidecarSpec => []SidecarInv
<1>1. SidecarInv /\ [SidecarNext]_sidecarVars => SidecarInv'
  BY NextSidecarTypes, NextFresh, NextTruthful, NextAccounted, NextOutwaits DEF SidecarInv
<1> QED
  BY InitSidecar, <1>1, PTL DEF SidecarSpec

------------------------------------------------------------------------------
(* Types, with the worker never waited for beyond its limit.                  *)
THEOREM SidecarTypeCorrect == SidecarSpec => []SidecarTypeOK
BY SidecarInvariance, PTL DEF SidecarInv

(* No verdict without a reasoner, whoever dies or is late.                    *)
THEOREM VerdictsAreReasoned == SidecarSpec => []ClaimsHold
BY SidecarInvariance, PTL DEF SidecarInv

(* An answered request leaves no process and no file, but for the exceptions  *)
(* the property names.                                                        *)
THEOREM AnsweredIsClean == SidecarSpec => []NothingLeftBehind
<1>1. SidecarInv => NothingLeftBehind
  BY DEF SidecarInv, Accounted, NothingLeftBehind
<1> QED
  BY SidecarInvariance, <1>1, PTL

(* The proxy's wait covers the worker's whole limit: what is left of its      *)
(* patience when it gives up was spent outside it.                            *)
THEOREM MarginIsForTheRest == SidecarSpec => []ProxyOutwaits
BY SidecarInvariance, PTL DEF SidecarInv
===============================================================================
