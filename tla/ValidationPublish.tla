-------------------------- MODULE ValidationPublish --------------------------
(***************************************************************************)
(* Publishing a validation run to Speckle and deleting it again: the       *)
(* routes publish_validation, delete_validation_run and                    *)
(* put_speckle_project_config of app.py, and _auto_publish_run, which the  *)
(* watcher calls for a row it has completed.                               *)
(*                                                                         *)
(* One project. Neo4j and Speckle share no transaction and the handlers    *)
(* run in a thread pool without a lock, so every query and every Speckle   *)
(* call is one step, any two handlers interleave, and a handler may end by *)
(* an exception (or with the process) between any two of its steps.        *)
(***************************************************************************)
EXTENDS FiniteSets

CONSTANTS
    Run,         \* the run ids; a manual publish mints its own
    AutoRun,     \* those whose row the watcher has captured and completed
    Deletion,    \* delete requests
    Target,      \* the Speckle projects an operator may configure
    EnvTarget,   \* the one of SPECKLE_PROJECT_ID, or None
    Model,       \* identities of Speckle models
    Saves,       \* the configurations operators save
    None

(* The Speckle project on record and, once one is known, the model in it that *)
(* takes the overlays.                                                        *)
Config == [target : Target, model : Model \cup {None}]

ASSUME PublishAssumption ==
    /\ AutoRun \subseteq Run
    /\ EnvTarget \in Target \cup {None}
    /\ Saves \subseteq Config
    /\ None \notin Run \cup Target \cup Model \cup Config

VARIABLES
    (* Neo4j                                                                  *)
    config,     \* IntegrationConfig{provider:'Speckle'}
    row,        \* the ValidationRun row of a run
    rowTarget,  \* its speckleProjectId
    entities,   \* has it ValidationEntity rows?
    (* Speckle                                                                *)
    modelOf,    \* the project a dg-validation model was created in
    version,    \* where the overlay version of a run is
    (* the handlers                                                           *)
    at,         \* the next step of the publish of a run
    seen,       \* its copy of the configuration
    model,      \* its validation model
    delAt,      \* the next step of a delete request
    delRun,     \* the run it looked up
    delTarget,  \* that run's speckleProjectId, as it was then
    deleted     \* the runs a delete request has reported deleted

storeVars   == <<row, rowTarget, entities>>
speckleVars == <<modelOf, version>>
publishVars == <<at, seen, model>>
deleteVars  == <<delAt, delRun, delTarget, deleted>>
vars == <<config, storeVars, speckleVars, publishVars, deleteVars>>

Steps == {"waiting", "configure", "reconfigure", "model", "create", "overlay",
          "upsert", "reread", "row", "entities", "report", "done"}

(* A row has Speckle identifiers once a publish has stored them; a ghost is a *)
(* row that MERGE created with nothing but the fields of one SET.             *)
RowStates == {"absent", "verdict", "stored", "ghost"}

TypeOK ==
    /\ config \in Config \cup {None}
    /\ row \in [Run -> RowStates]
    /\ rowTarget \in [Run -> Target \cup {None}]
    /\ entities \in [Run -> BOOLEAN]
    /\ modelOf \in [Model -> Target \cup {None}]
    /\ version \in [Run -> Target \cup {None}]
    /\ at \in [Run -> Steps]
    /\ seen \in [Run -> Config \cup {None}]
    /\ model \in [Run -> Model \cup {None}]
    /\ delAt \in [Deletion -> {"waiting", "overlay", "metadata", "done"}]
    /\ delRun \in [Deletion -> Run \cup {None}]
    /\ delTarget \in [Deletion -> Target \cup {None}]
    /\ \A d \in Deletion : delAt[d] # "waiting" => None \notin {delRun[d], delTarget[d]}
    /\ deleted \subseteq Run

Init ==
    /\ config = None
    /\ row = [r \in Run |-> IF r \in AutoRun THEN "verdict" ELSE "absent"]
    /\ rowTarget = [r \in Run |-> None]
    /\ entities = [r \in Run |-> FALSE]
    /\ modelOf = [m \in Model |-> None]
    /\ version = [r \in Run |-> None]
    /\ at = [r \in Run |-> "waiting"]
    /\ seen = [r \in Run |-> None]
    /\ model = [r \in Run |-> None]
    /\ delAt = [d \in Deletion |-> "waiting"]
    /\ delRun = [d \in Deletion |-> None]
    /\ delTarget = [d \in Deletion |-> None]
    /\ deleted = {}

------------------------------------------------------------------------------
(* put_speckle_project_config: whatever pair the operator names replaces the   *)
(* one on record. Nobody asks whether that Speckle project has that model.     *)
SaveConfig(c) ==
    /\ config' = c
    /\ UNCHANGED <<storeVars, speckleVars, publishVars, deleteVars>>

------------------------------------------------------------------------------
(* publish_validation, and _auto_publish_run for the runs of AutoRun.         *)

Step(r, here, next) == at[r] = here /\ at' = [at EXCEPT ![r] = next]

(* The watcher publishes its rows one after the other.                        *)
WatcherIdle == \A a \in AutoRun : at[a] \in {"waiting", "done"}

(* get_integration_config. Without a row the manual route falls back on the   *)
(* environment or refuses with 404; the watcher's skips.                      *)
ReadConfig(r) ==
    /\ r \in AutoRun => WatcherIdle
    /\ Step(r, "waiting", IF config # None THEN "model"
                          ELSE IF r \in AutoRun \/ EnvTarget = None THEN "done"
                          ELSE "configure")
    /\ seen' = [seen EXCEPT ![r] = config]
    /\ UNCHANGED <<config, storeVars, speckleVars, model, deleteVars>>

(* _auto_configure_integration: an upsert, and a second query that reads it.  *)
AutoConfigure(r) ==
    /\ Step(r, "configure", "reconfigure")
    /\ config' = [target |-> EnvTarget, model |-> None]
    /\ UNCHANGED <<storeVars, speckleVars, seen, model, deleteVars>>

ReadAutoConfig(r) ==
    /\ Step(r, "reconfigure", "model")
    /\ seen' = [seen EXCEPT ![r] = config]
    /\ UNCHANGED <<config, storeVars, speckleVars, model, deleteVars>>

(* get_or_create_validation_model_id: the configured model, one that the      *)
(* Speckle project lists under its name, or else a new one, created after the *)
(* list was read.                                                             *)
FindModel(r) ==
    LET listed == {m \in Model : modelOf[m] = seen[r].target}
        found  == IF seen[r].model # None THEN {seen[r].model} ELSE listed IN
    /\ Step(r, "model", IF found = {} THEN "create" ELSE "overlay")
    /\ \/ \E m \in found : model' = [model EXCEPT ![r] = m]
       \/ found = {} /\ UNCHANGED model
    /\ UNCHANGED <<config, storeVars, speckleVars, seen, deleteVars>>

CreateModel(r) ==
    /\ Step(r, "create", "overlay")
    /\ \E m \in Model :
          /\ modelOf[m] = None
          /\ modelOf' = [modelOf EXCEPT ![m] = seen[r].target]
          /\ model' = [model EXCEPT ![r] = m]
    /\ UNCHANGED <<config, storeVars, version, seen, deleteVars>>

(* Defect: an overlay that Speckle refused is taken for published.            *)
Swallowed(r) == [version EXCEPT ![r] = None]

(* The version Speckle creates, in the project of the handler's configuration. *)
Created(r) == [version EXCEPT ![r] = seen[r].target]

(* publish_validation_version. The manual route has no row yet; the watcher's *)
(* verdict is already on its own, which comes next. Speckle may refuse a model *)
(* that is not in the project: AbortPublish.                                  *)
PublishOverlay(r) ==
    /\ Step(r, "overlay", IF r \in AutoRun THEN "row" ELSE "upsert")
    /\ version' = Created(r)
    /\ UNCHANGED <<config, storeVars, modelOf, seen, model, deleteVars>>

(* Defect: the model alone is set on the configuration as it is by now.       *)
ModelAlone(r) == [target |-> config.target, model |-> model[r]]

(* What upsert_integration_config writes: every field of the handler's copy,  *)
(* with the model it has found.                                               *)
Snapshot(r) == [target |-> seen[r].target, model |-> model[r]]

UpsertConfig(r) ==
    /\ Step(r, "upsert", IF r \in AutoRun THEN "done" ELSE "reread")
    /\ config' = Snapshot(r)
    /\ UNCHANGED <<storeVars, speckleVars, seen, model, deleteVars>>

(* upsert_integration_config returns what a second query reads.               *)
RereadConfig(r) ==
    /\ Step(r, "reread", "row")
    /\ seen' = [seen EXCEPT ![r] = config]
    /\ UNCHANGED <<config, storeVars, speckleVars, model, deleteVars>>

(* store_validation_run's MERGE of the row, under the configuration the       *)
(* upsert returned; for the watcher AUTO_COMPLETE_PUBLISH_QUERY's, under the  *)
(* configuration it published with.                                           *)
StoreRow(r) ==
    /\ Step(r, "row", IF r \in AutoRun THEN "upsert" ELSE "entities")
    /\ row' = [row EXCEPT ![r] = "stored"]
    /\ rowTarget' = [rowTarget EXCEPT ![r] = seen[r].target]
    /\ UNCHANGED <<config, entities, speckleVars, seen, model, deleteVars>>

(* Defect: MERGE of the entities without the MATCH of their run.              *)
Unmatched(r) == TRUE

RowMatched(r) == row[r] # "absent"

(* Its second query, for a payload with entities: they hang off the row it    *)
(* matches. A payload without entities skips it.                              *)
StoreEntities(r) ==
    /\ Step(r, "entities", "report")
    /\ \/ entities' = [entities EXCEPT ![r] = RowMatched(r)]
       \/ UNCHANGED entities
    /\ UNCHANGED <<config, row, rowTarget, speckleVars, seen, model, deleteVars>>

(* _call_shacl_validate, which may take as long as its timeout, and then the  *)
(* MERGE of _persist_shacl_report.                                            *)
PersistReport(r) ==
    /\ Step(r, "report", "done")
    /\ row' = [row EXCEPT ![r] = IF @ = "absent" THEN "ghost" ELSE @]
    /\ UNCHANGED <<config, rowTarget, entities, speckleVars, seen, model, deleteVars>>

(* A query or a call fails, or the process ends: nothing is undone.           *)
AbortPublish(r) ==
    /\ at[r] \notin {"waiting", "done"}
    /\ at' = [at EXCEPT ![r] = "done"]
    /\ UNCHANGED <<config, storeVars, speckleVars, seen, model, deleteVars>>

------------------------------------------------------------------------------
(* delete_validation_run.                                                     *)

HasSpeckleIds(r) == row[r] = "stored"

(* get_validation_run: a row without Speckle identifiers is refused, as is a  *)
(* run that has no row.                                                       *)
LookUp(d, r) ==
    /\ delAt[d] = "waiting"
    /\ HasSpeckleIds(r)
    /\ delAt' = [delAt EXCEPT ![d] = "overlay"]
    /\ delRun' = [delRun EXCEPT ![d] = r]
    /\ delTarget' = [delTarget EXCEPT ![d] = rowTarget[r]]
    /\ UNCHANGED <<config, storeVars, speckleVars, publishVars, deleted>>

(* Defect: delete_validation_version ignores what Speckle answers.            *)
Answered(d) == TRUE

(* Speckle confirms the deletion of a version which that project has.         *)
Confirmed(d) == version[delRun[d]] = delTarget[d]

(* delete_validation_version: without a confirmation the request fails.       *)
DeleteOverlay(d) ==
    /\ delAt[d] = "overlay"
    /\ delAt' = [delAt EXCEPT ![d] = IF Confirmed(d) THEN "metadata" ELSE "done"]
    /\ version' = [version EXCEPT ![delRun[d]] = IF @ = delTarget[d] THEN None ELSE @]
    /\ UNCHANGED <<config, storeVars, modelOf, publishVars, delRun, delTarget, deleted>>

(* delete_validation_run_metadata: the entities and the row in one query.     *)
DeleteMetadata(d) ==
    LET r == delRun[d] IN
    /\ delAt[d] = "metadata"
    /\ delAt' = [delAt EXCEPT ![d] = "done"]
    /\ row' = [row EXCEPT ![r] = "absent"]
    /\ rowTarget' = [rowTarget EXCEPT ![r] = None]
    /\ entities' = [entities EXCEPT ![r] = FALSE]
    /\ deleted' = deleted \cup {r}
    /\ UNCHANGED <<config, speckleVars, publishVars, delRun, delTarget>>

AbortDelete(d) ==
    /\ delAt[d] \in {"overlay", "metadata"}
    /\ delAt' = [delAt EXCEPT ![d] = "done"]
    /\ UNCHANGED <<config, storeVars, speckleVars, publishVars, delRun, delTarget, deleted>>

------------------------------------------------------------------------------
Publish(r) ==
    \/ ReadConfig(r) \/ AutoConfigure(r) \/ ReadAutoConfig(r)
    \/ FindModel(r) \/ CreateModel(r) \/ PublishOverlay(r)
    \/ UpsertConfig(r) \/ RereadConfig(r)
    \/ StoreRow(r) \/ StoreEntities(r) \/ PersistReport(r)
    \/ AbortPublish(r)

Delete(d) ==
    \/ \E r \in Run : LookUp(d, r)
    \/ DeleteOverlay(d) \/ DeleteMetadata(d) \/ AbortDelete(d)

Next ==
    \/ \E c \in Saves : SaveConfig(c)
    \/ \E r \in Run : Publish(r)
    \/ \E d \in Deletion : Delete(d)

Spec == Init /\ [][Next]_vars

------------------------------------------------------------------------------
(* What publishing and deleting promise across the two stores.                *)

(* ValidationEntity rows never outlive their run: not even when the run is     *)
(* deleted between the two queries of store_validation_run.                    *)
EntitiesHaveRow == \A r \in Run : entities[r] => row[r] = "stored"

(* The model that a publish finds or creates for one configuration is never    *)
(* recorded beside the Speckle project of another, however operators' saves    *)
(* interleave with publishes that write back what they read before: a pair on  *)
(* record that no operator saves as it stands has its model in its project.    *)
ConfigUnmixed ==
    config # None /\ config.model # None /\ config \notin Saves
        => modelOf[config.model] = config.target

(* A run that was reported deleted has left no overlay version in Speckle.     *)
DeletedLeavesNoVersion == \A r \in deleted : version[r] = None

(* A listed run lacks its overlay version only where a delete request has got  *)
(* through to Speckle and not (yet) to Neo4j.                                  *)
RowHasOverlay ==
    \A r \in Run : row[r] = "stored" /\ version[r] = None =>
        \E d \in Deletion : delRun[d] = r /\ delAt[d] \in {"metadata", "done"}

(* A run that was reported deleted is not listed again.                        *)
DeletedStaysDeleted == \A r \in deleted : row[r] = "absent"
==============================================================================
