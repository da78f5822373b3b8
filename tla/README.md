# Verification of the Design Grammar services

TLA+ models of the runtime in `src/services`, the TLC runs that check them on small instances, and
the theorems about them that TLAPS checks for every value of their constants.

Contents: [the system](#the-system), [hard behaviours](#what-is-hard), [modules](#the-modules),
[runs and bounds](#the-runs), [fairness](#fairness), [proofs](#the-proofs),
[disagreements found](#disagreements-between-the-code-and-what-it-says),
[assumptions and what is left out](#assumptions-and-what-is-left-out), [plan](#plan).

## The system

The repository is an ontology (`ontology/`, data) with a runtime around it. A *design grammar* of
rules and the *design states* of a parametric Grasshopper definition live in one Neo4j database;
overlays of validated geometry live in Speckle.

```
 Grasshopper (C#, DG plugin)              data-service (one uvicorn process)            external
 +--------------------------+   HTTP      +-------------------------------------+  bolt
 | DG components, canvas    | ----------> | routes (thread pool)                | ------> Neo4j
 | DG CANVAS LISTENER :8720 | <---------- | gh_bridge        dsav_watcher thread| ------> Speckle
 | DG STRUCTURE CONFIRM     |  TCP, JSON  | llm_gateway                         | ------> LLM providers
 +--------------------------+   lines     +-------------------------------------+
                                                   | HTTP, with a timeout
                                          +--------v---------+
                                          | dg-reasoner      |  SHACL/OWL in a subprocess
                                          +------------------+
```

Nothing but the Neo4j query is a transaction: there is no lock between handlers, and no transaction
over two stores. FastAPI runs the synchronous routes in a thread pool, the watcher is a daemon
thread of the same process, and the canvas listener answers on a thread that posts work to
Grasshopper's UI thread.

| Component | State it keeps | Operations | Talks to | Correct when |
|---|---|---|---|---|
| Auto-validation watcher, `dsav_watcher.py` | `ValidationRun` rows, in-memory completion window, thread and stop event | start, stop, tick: newest, coalesce, complete, fail, publish | Neo4j, reasoner, publish | a captured row gets one final verdict, superseded rows none, a newest snapshot is never lost, retries and rate are bounded |
| Capture route and lifespan, `app.py` | the row it inserts | `capture_design_state`, lifespan enter and leave | watcher (through rows) | as above |
| Validation publish, delete, configuration, `app.py`, `speckle_validation.py` | `ValidationRun`, `ValidationEntity`, `IntegrationConfig` rows; Speckle models and versions | publish, auto-publish, delete, save configuration | Neo4j, Speckle, reasoner | rows, entities, configuration and overlays stay together |
| Canvas listener, `CanvasListenerComponent.cs`, `PreviewRegistry.cs` | static registry of preview groups, canvas, undo history | `preview_structure`, `clear_preview`, reads | UI thread, bridge | preview leaves nothing behind, undo is complete |
| Confirmation gate, `StructureConfirmComponent.cs` | the same, `ValueTable` markers | select, apply | registry, canvas | a confirmed group is marked and no bridge command removes it |
| Bridge protocol, `gh_bridge.py`, `DG.Core/Bridge` | none | send command, parse, dispatch | listener | a command runs at most once; a timed-out one may still run |
| Identity registry, `dg_identity.py` | entity nodes by dgId, `Representation` and `SharedProperty` nodes | mint, bind, detach, share | Neo4j, publish (through nodes) | one identity per native id, a binding is kept, a reader sees the last value |
| Computgraph publish, `computgraph_publish.py`, `cg_paramstate_store.py` | definition graph, `:DesignState` nodes of accepted candidates | publish, stale diff, accept candidate | Neo4j | published graph equals the payload; a stored candidate fits the domains it was checked against and is the one that was offered |
| Connectors, `connectors.py`, plugin heartbeat | one JSON file of connectors and token hashes | create, heartbeat, revoke, resolve | file system | a revoked connector stays revoked, no update is lost |
| Knowledge notes, `app.py`, `dg_knowledge.py` | `SpecNote` and `SpecSession` nodes | ingest, edit, delete, propose, confirm | Neo4j, LLM (through n8n) | a confirmation never overwrites what it did not see |
| Structure recognition, `cg_recognition.py`, `cg_topology.py` | none beyond a request | classify, ask, validate, retry, merge | LLM, bridge | a returned proposal passed every guardrail |
| Input generation, `cg_input_generation.py`, `_bindings.py`, `_sampler.py` | none beyond a request | classify, select, sample, ask, retry | LLM, Neo4j | an offer is what was asked for, in domain, and the floor its last resort |
| Context and Cypher generation, `dg_context.py` | none | assemble, generate, validate, retry | LLM, Neo4j | only read-only statements are executed |
| Structure checks, `cg_structure_checks.py` | none | resolve, stamp, seven checks, mapped rules | Neo4j, publish (through the graph) | the report is what the published envelopes call for, and not stamped newer |
| LLM gateway, `llm_gateway.py` | settings file | resolve provider, call | providers | - |
| Reasoner sidecar, `dg-reasoner` | a thread, a worker process, a queue and files per request | validate, consistency check | Neo4j export, HermiT, pySHACL | an answer within the bound, never a made-up one, nothing left behind |
| Ontology export | none | graph to RDF | - | translation |
| Design state binding and reinstatement (C#) | live parameters | match, plan, write back | canvas | all matched parameters or none are written |
| Rule parsing and evaluation (C#) | none | parse SWRL, evaluate | - | evaluation agrees with the rule's meaning |
| Canvas annotation grammar (C#) | names of groups | parse, name, tag | canvas | parse of a made name gives its parts back |
| Neo4j repositories, serializers (C#) | none | one query or conversion each | Neo4j | - |
| Ontology, migrations, catalogs | data | - | - | - |

## What is hard

`PROJECT.json` lists each hazard at its line. They fall in these groups.

* **Two queries where the code reads as one.** The watcher checks the age of one row and coalesces
  by another query; publish writes a configuration and returns what it reads back; a confirm route
  checks a time stamp and writes later; acceptance of a candidate checks domains and writes later.
* **Two stores without a transaction.** A publish creates the Speckle version before its row and a
  delete removes it before its row; either may stop in between.
* **A late answer.** The SHACL call may take its whole timeout while the row is listed, deleted or
  reconfigured; a canvas command whose client gave up still runs on the UI thread.
* **Crash and restart.** The watcher must pick up what a dead process left, without counting an
  attempt twice or judging a row twice. A reasoner's worker may die before, while or after it
  reports.
* **MERGE without a constraint.** It looks and then creates, so two may create; what is one node by
  intent may be two.
* **Many queries that read as one report.** A structure report asks a dozen queries, a folder or a
  confirmation writes note by note; anything may commit or fail in between.
* **State shared by parts that do not know of each other.** The preview registry is static and
  serves every open document; undo and redo bring objects back that the registry has forgotten.
* **Bounds.** Retry budget, rate limit, debounce window, retry loops of the LLM callers.

## The modules

| Module | Models | Lines |
|---|---|---|
| `RunLifecycle` | abstract: what a captured run promises its reader | specification |
| `DsavWatcher` | the watcher, the capture route, the lifespan; refines `RunLifecycle` | `dsav_watcher.py`, `app.py` |
| `MCDsavWatcher` | its instances, and the sliding clock of the liveness run | - |
| `DsavWatcherProofs` | its theorems | - |
| `ValidationPublish` | publish, auto-publish, delete, configuration, the Speckle adapter | `app.py`, `speckle_validation.py` |
| `MCValidationPublish` | its instances | - |
| `ValidationProofs` | theorems of `ValidationPublish` and `ReasonerSidecar` | - |
| `StructurePreview` | canvas listener, registry, confirmation gate, Grasshopper's undo history | `CanvasListenerComponent.cs`, `StructureConfirmComponent.cs`, `PreviewRegistry.cs`, bridge |
| `MCStructurePreview`, `StructurePreviewProofs` | instances, theorems | - |
| `Recognition` | structure recognition in the loop of parsing, proposing and confirming | `cg_recognition.py`, `cg_topology.py`, `CanvasAnnotationParser.cs`, `llm_gateway.py`, the route in `app.py` |
| `MCRecognition`, `RecognitionProofs` | instances, theorems | - |
| `InputSampler` | the arithmetic of Tier 0: validation, sampling, near duplicates | `cg_input_sampler.py` |
| `InputGeneration` | generation and acceptance of candidates while the definition is published again; extends `InputSampler` | `cg_input_generation.py`, `cg_input_bindings.py`, `cg_paramstate_store.py`, `computgraph_publish.py` |
| `MCInputGeneration`, `InputGenerationProofs` | instances, theorems | - |
| `PublishedDefinitions` | abstract: what publishing promises the sessions that share a definition | specification |
| `ComputgraphPublish` | the publish transaction, statement by statement, its retry and its stale list; refines `PublishedDefinitions` | `computgraph_publish.py`, the route in `app.py` |
| `StructureChecks` | the structure report beside publishing; extends `ComputgraphPublish` | `cg_structure_checks.py`, the route in `app.py` |
| `MCStructureChecks`, `StructureChecksProofs` | instances; theorems of `ComputgraphPublish` and `StructureChecks` | - |
| `IdentityRegistry` | mint, bind, detach, share, beside the merge of a publish | `dg_identity.py`, the routes in `app.py` |
| `MCIdentityRegistry`, `IdentityRegistryProofs` | instance, theorems | - |
| `KnowledgeNotes` | ingest, edit, delete, propose, confirm, query by query | the `/knowledge` routes of `app.py` |
| `MCKnowledgeNotes`, `KnowledgeNotesProofs` | instance, theorems | - |
| `ReasonerSidecar` | one reasoning request with its proxy, thread, worker and Java process | `dg-reasoner/reasoning.py`, `app.py` of both services |

A few operators whose comment begins with "Defect:" or "A defect" stand before the definition they
distort. No
action uses them: they are plausible slips (a dropped filter, an off-by-one, a swapped order) that
show each property can fail, as `PROJECT.json` "mutants" pairs them.

### DsavWatcher

One `Run` is one id that `capture_design_state` mints. Its row is the functions `status`,
`capturedAt`, `attempts`, `judged` (the verdict fields), `completedAt` and `sent` (`SendStatus`).
Each Cypher query of `poll_once` is an action of a thread, with the thread's locals (`tickNow`,
`todo`, `proj`, `conf`, `kept`) between them:

| Code | Action |
|---|---|
| `capture_design_state`: mint and stamp, then insert | `StampCapture`, `PersistCapture` |
| `start_watcher`, `stop_watcher`, end of the process | `StartProcess`/`ReenterLifespan`, `StopWatcher`, `EndProcess` |
| `_poll_loop`: stop check, one clock reading per tick, exceptions logged | `LeaveLoop`, `BeginTick`, `EndTick`, `AbortTick` |
| per project: configuration; newest captured row, debounce and rate guards | `ReadConfig`, `CheckGuards` |
| `COALESCE_QUERY`, the verdict call, `COMPLETE_QUERY`, `FAIL_QUERY`, auto-publish | `Coalesce`, `ShaclAnswers`, `Complete`, `Fail`, `Publish` |

A query can fail before it takes effect (`AbortTick`) or take effect and lose its acknowledgement
(`Unacknowledged`). `LifespanReentry` says whether one process may enter the lifespan twice, which
a deployed service does not and the test client does. With one thread the old poller has ended by
then; only with two threads can two pollers run.

Properties: the row a thread works on stays captured though no lock protects it
(`KeptStillCaptured`); a superseded row is never the last of its project (`NewestSurvives`); the
limiter keeps its own limit (`RecordedWithinLimit`); every row is settled (`EventuallySettled`); the
whole refines `RunLifecycle` (`LifecycleSpec`), with "requested" read as "absent". That verdicts are
final (`VerdictFinal`), superseded rows unjudged (`SupersededUnjudged`), retries within the budget
(`AttemptsWithinBudget`) and nothing sent without a verdict (`SentHasVerdict`) is proved; no run
repeats it, since `LifecycleSpec` fails wherever the first two would.

### ValidationPublish

One project. `at[r]` is the next step of the publish of run `r`; manual publishes and those of the
watcher (`AutoRun`) take the steps in their different orders (`PublishOverlay`, `UpsertConfig`,
`StoreRow`). `seen` is the handler's copy of the configuration. `config` is the
`IntegrationConfig` row, `row`/`rowTarget`/`entities` the run's rows, `modelOf`/`version` what
Speckle holds. `AbortPublish` and `AbortDelete` end a handler after any step.

An operator may save any pair of `Saves` (`SaveConfig`): `put_speckle_project_config` checks
nothing, so a pair may name a model of another project. Speckle may then refuse the version, which
is an `AbortPublish`.

Properties: entities never outlive their run (`EntitiesHaveRow`); a publish never records the model
it found under one configuration beside the project of another, whatever is saved meanwhile: a pair
on record that nobody saves as it stands has its model in its project (`ConfigUnmixed`); a deleted
run leaves no version (`DeletedLeavesNoVersion`); a listed run lacks its version only where a delete
got halfway (`RowHasOverlay`). Not promised, and all in the model: that an operator's save is kept,
that a project has one validation model, that a row names the project its version is in.

### StructurePreview

Objects are GUIDs. `canvas` is what a document shows, `past` and `future` its undo history as
records of what a step added, removed and restyled, `confirmed` the groups with a permanent name,
`marked` those with the `dg.recognized` entry in the `ValueTable`, `registry` the shared map from
proposal to group, `legend` the listener's scribble per document. A command is `posted` to the UI
thread with the document that was active when it was dispatched; it runs later, perhaps after the
user switched tabs and after the client gave up. The confirmation gate first selects, then applies
in a scheduled solution. Grasshopper's undo semantics are external and modelled from how the code
records events.

Properties: undoing everything wipes every trace (`UndoWipesEveryTrace`); redo finds its objects
(`RedoFinds`: every change a command makes outside a record of its own would break it, a clear that
finds no group but a legend included); a confirmed group carries its marker (`ConfirmedMarked`) and
no bridge command takes it off the canvas (`BridgeKeepsConfirmed`); a command clears its own canvas
of what it makes the registry forget (`OwnCanvasCleared`).

### Recognition

`canvas` is the open document: nodes, wires, what the parser would call each component, and groups
with their place in the document, what their name parses to, and who drew them. `Claimed`, `Tagged`
and `MembersOf` are the parser: a pending preview has no tag, a later procedure group of an index
claims its members without being the procedure. A request copies the canvas to `ctx`:

| Code | Definition |
|---|---|
| `scope_untagged`, `extract_features`, `classify` | `Candidates`, `EmptyProcedure`, `Adjacent`, `InDegree`, `Crowded`, `Rules`, `Decided` |
| `recognize_structure` up to the loop, `resolve_active_provider` | `Request`, `Resolve` |
| one turn of the loop, by how it ends | `ProviderFails`, `Stopped`, `Garbled`, `Filtered`, `Incomplete`, `Judged` |
| G6, G7, G10, `validate_proposed_structure` | `Unaddressed`, `GrammarAsFilter`, `Demote`, `Valid` |
| settings route; preview; confirmation with its G12 gate | `SaveSettings`; `Preview`; `Confirm`, `Reject` |

Tier-0 rows (`rows`) and the model's proposals (`answer.model`, by position) are kept apart; the
code's merged list is one after the other. `Preview` and `Confirm` are the net effect of
`StructurePreview`'s actions on one document. Between the turns the canvas and the settings change
freely.

Properties: no candidate is dropped on any path to an offer (`NeverDropped`); an offer names known,
untagged nodes, each once, Tier 0 included, which is never validated alone (`SafeToPreview`);
a Tier-0 row belongs to the only procedure its node touches and to the request's
(`RowsOwnTheirProcedure`); one provider makes all calls, within the budget (`OneProvider`); every
request is answered (`EventuallyAnswered`).

### InputSampler and InputGeneration

Numbers are counted in a unit that divides every bound, step and limit, every decimal place that
`round()` may keep (`Grains`) and a twentieth of the extent of a row without a step, so a float is
an integer and `One` is the number 1; `step = 0` is "no step", where the nearest unit stands for a
number that is not aligned. A value is a number, a truth value or null; an assignment has one for
each id and `Absent` for the ids it does not name. `Aim` gives where a strategy aims as a fraction
above the lower bound. `Aligned` is `step_align`: the index of the step is rounded, then the value
to the decimals that the step is written with (`Grain`, `_decimals_for_step`), which may take it off
the grid where a bound has more of them. Where `round()` meets a tie, the binary digits decide: the
constants `IndexUp` and `PlacesUp` list the ties that go up, and the theorems hold for all of them.
`Shift` and `Perturbed` are `_perturb`, `Whole` is `int(round(...))`. `OnGrid` says of a row that
its bounds are whole steps apart without more decimals than the step; it is no assumption but the
condition under which the properties promise validity, and `Assured` says what holds elsewhere.
Where two parameters have one `reinstateParameterId`, dictionaries keep the last of the order of
`select_parameters` (`RowOf`).

`editions` holds the published `:Parameter` rows after each publication (`publishedAt` is the number
of one), `gen` and `acc` one record for each request, `stored` the `:DesignState` nodes.

| Code | Definition |
|---|---|
| `publish_structure`, its `MERGE` of parameters in one transaction | `Publish`, `Merged` |
| `classify_rule` with its rule query; `select_parameters` | `Classify`, `RuleMissing`, `Scope`; `Select` |
| the parameters read and refused, or sampled; `fetch_published_at` | `Refuse`, `SampleFloor`; `Stamp` |
| the guardrails: domains, count and strategies, diversity | `InDomain`, `Usable`, `Distinct`, `Diverse` |
| one turn of the retry loop, by how it ends | `OfferModel`, `OfferFloor`, `Retry`, `ProviderFails` |
| `accept_candidate`: rows read, validated or refused, written | `Receive`, `Admit`, `Reject`, `Store` |

Between any two of these steps the definition may be published again and another request may run.
`Receive` takes back any candidate that was offered, with any list of names: the browser sends both.
`Store` merges by the values alone (the content hash) and overwrites the rest.

Properties: an offer is what was asked for on every path, that of the model valid and that of the
floor as far as the domains are on their grids (`OfferFits`); the floor's first candidate satisfies
a one-sided limit if any value of the domain, on its grid, does (`ConservativeSatisfies`); a stored
state was valid for the parameters published when it was checked (`StoredFits`) and is one offered
candidate with its own strategy and stamp (`StoredAsOffered`); every request is answered
(`Answered`). That the floor fits for all steps, limits and domains on their grids (`FloorFits`),
that it is the last resort (`FloorIsLastResort`) and that the calls of the model are bounded
(`TypeOK`) is proved.

### ComputgraphPublish and StructureChecks

`nodes` and `edges` are what is committed, a node being its label, key, definition and the request
that created it, since two requests may each create what both merge; `writer` is who set a node
last. A request's `tx` holds what its transaction wrote: it sees the committed graph and its own
writes, and waits for a node another transaction has set. Where two rows name one member or one id,
the later row of the payload counts (`ByMember`, `LastRow`), as dictionaries keep it and `UNWIND`
sets it. The name, kind and type of a row (`as`) are not fixed by its id: a publish sets them anew,
and `As` is what a node holds.

| Code | Definition |
|---|---|
| `_build_publish_params`: refused, or rows | `Arrive`, `Malformed`, `Rows`, `ParamLinks` |
| `_publish_object` ... `_publish_param_links`, in `publish_structure`'s order | `Write`, `Links`, `Statements` |
| `execute_write`: commit, transient retry, failure | `Commit`, `Abort` |
| `_find_stale_entities` after the transaction, and its failure | `Answer`, `AnswerLost` |
| the route's definition: asked for, the only one, ambiguous | `Resolve` |
| `fetch_published_at`, then the checks and the rules, one query each | `FetchPublishedAt`, `RunCheck`, `EvaluateRule`, `Assemble` |
| the seven checks; the four rule templates and what they let through; rejection of a mapping | `Findings`; `Passes`, `Lets`; `Rejected` |

The report's findings are compared with `Faults`, which reads the envelopes and never the graph: a
reference definition independent of nodes and relationships. Properties: where publishes did not
overlap and none committed during the report, findings and rule verdicts are those the envelopes
call for (`FindingsAsPublished`), each entity judged for the rules by the name, kind and type of the
last publish to send it (`RulesAsPublished`); whatever races, a stale list is complete for all that
committed before (`StaleListComplete`), a report is not stamped newer than what it saw
(`StampSeen`), and the checks on orphans and data types guard against what publishing cannot produce
(`GuardsNeverNeeded`).

To the sessions that share a definition publishing promises more, and `PublishedDefinitions` says
what: publishes take effect one at a time, whole and at once, a definition's rows only grow, an
answer lists what the definition then held beyond the payload, and a 502 does not tell whether the
publish took effect. `ComputgraphPublish` maps its state to it with `SentRows`, `HeldRows`, `pc` and
`stale` (`Promise`, `PublishesAtOnce`): only `Commit` changes `HeldRows`, a statement or a retried
abort is a stutter. That the promise is about rows, not nodes, is deliberate: two first publishes
may create a node each for one row, and a link between rows that two overlapping publishes bring
may be missing.

### IdentityRegistry

Every `MERGE` is two steps, `Look...` and the step that creates or reuses, for no uniqueness
constraint makes it one. `MATCH (e {dgId})` has no label, so `Carriers` holds entity nodes and the
shared properties that carry the same dgId. `after` records which requests had been answered when
one arrived; `Sequential` says of some requests that each pair was one after the other.

| Code | Action |
|---|---|
| `mint_identity` | `LookToMint`, `Mint` |
| publish's `MERGE` under a label, with its dgId | `LookToPublish`, `Publish` |
| `bind_representation`: resolve, carrier, merge | `Resolve`, `Check`, `LookToBind`, `Bind` |
| `detach_representation`: count, delete | `Count`, `Detach` |
| `write_shared_property`: carrier, merge | `Check`, `LookToWrite`, `Write` |

Properties: a native id has one owner unless two binds of it raced (`OneOwner`); who was told
"bound" stays bound through everything but a detach of its own (`BindingKept`); an entity has one
minted node unless two mints raced, and none minted after its publish (`MintedOnce`); readers see
the last value of whichever nodes racing writes left (`LastWriteRead`).

### KnowledgeNotes

A note is its `updatedAt` (`stamp`), which is also what `knowledge_update_confirm` compares: a time
some request took, so what is compared is who wrote last. A proposal keeps one reading per note; the
code keeps one per entry of its list, and so refuses more where a list names a note twice. `landed`
is the history of a note's writers, `base` and `sent` what it was when a proposal read it and when
it was confirmed.

| Code | Action |
|---|---|
| `ingest_folder`: one time for all files; note, relationship, failures skipped | `Arrive`, `MergeNote`, `LinkNote`, `Skip` |
| edit and delete of a note | `Exists`, `Edit`, `Delete` |
| `knowledge_update_propose`; the review; the size check | `Propose`; `Confirm` |
| `knowledge_update_confirm`: check, write, session, its class, a failure | `Check`, `WriteNote`, `WriteSession`, `JoinSession`, `ConfirmFails` |

Properties: a change that landed between the reading and the confirmation is never overwritten, a
note deleted and ingested anew included (`EditsNotLost`); what a confirmation wrote is the head of
its list however it ended (`ConfirmIsPrefix`); a note counted as inserted is joined to its class
until its delete is asked for (`InsertedIsLinked`).

### ReasonerSidecar

`caller` is the proxy, `thread` the sidecar's handler, `worker` and `java` its processes, `pipe` what
got through the queue. A report larger than the pipe is written in parts, so its worker does not
exit before it is read, and it is not read before the worker exits: `truth` and `large` are chosen
freely. `age` and `waited` count time since the post and in `join`.

| Code | Action |
|---|---|
| the proxies of `app.py`, with their read timeouts | `Post`, `Turned`, `GiveUp` |
| export, serialize, spawn; a failure of these | `Build`, `BuildFails` |
| the worker: `setsid`, load, reason, `queue.put`, exit | `Setsid`, `Reason`, `Report`, `ReportError`, `Exit` |
| the system kills it; an orphaned Java ends | `Killed`, `JavaEnds` |
| `join`, `killpg`, `queue.get`, `finally` | `Joined`, `Expired`, `Collect`, `Clean` |

Properties: no verdict without a reasoner (`ClaimsHold`); an answered request leaves no process and
no file (`NothingLeftBehind`); the proxy's margin is spent on what is outside the worker's bound
(`ProxyOutwaits`); every request is answered and its thread freed, unless a worker is killed amid a
report (`Freed`).

## The runs

| Run | Instance | Shows |
|---|---|---|
| `watcher` | 1 project, 3 runs, window 2, clock 0-2, 1 restart or lifespan entered again, 1 fault, configurations that debounce and disable; runs symmetric; about 334,000 states | the safety properties and the refinement |
| `watcher_live` | 2 runs, sliding clock, 1 restart, 1 fault | every captured row is settled |
| `publish` | 1 manual and 1 automatic run, 2 deletes, 2 Speckle projects, 3 models, 5 pairs to save; about 349,000 states | all safety properties |
| `publish_ghost` | 1 manual run, 1 delete | violation: a deleted run is listed again |
| `preview` | 2 documents with histories of 3 and 1, 1 proposal, 3 GUIDs; about 1,398,000 states | undo with a shared registry; each command clears its own canvas |
| `recognition` | 2 canvases of 6 and 4 nodes, 2 procedures, about 45 model answers, 2 retries, limit of 3 proposals, 1 group drawn; about 86,000 states | all properties, liveness included |
| `inputs` | 1 request, 1 acceptance, 4 envelopes, 2 publications, 3 limits, counts 0, 2 and 5, 9 model answers, 2 retries; about 173,000 states | all properties, liveness included |
| `structure` | 2 publishes of 6 envelopes, 1 report, 6 mapped rules, 1 failure; about 1,345,000 states | the report and the stale list |
| `republish` | 2 publishes of a definition and its correction, 1 report | violation: a corrected fault is reported for ever |
| `identity` | 4 requests of 9 kinds on 2 entities, 1 native id, 1 property; about 485,000 states | all properties |
| `notes` | 3 requests, 2 notes of which 1 is there; about 211,000 states | all properties |
| `reasoner` | limit 4, margin 2, SHACL wait 2, 3 units outside the limit; about 15,000 states | all properties, liveness included |

Why the bounds suffice for what is asked. Three runs give a kept row, a superseded one and one that
arrives in between; a clock of two covers younger than, at and older than a debounce of one and a
window of two; one restart or one fault at every point covers each crash of a tick, and the proofs
remove the bound. Two deletes and two publishes give every pair of handlers; two Speckle projects a
right and a wrong one, three models one per project and one created twice; an operator may save
either project without a model, or the second with any model, wherever that is. Three history
records give undo and redo across a preview, a clear and a confirmation, and one record in the other
document a preview there that the registry forgets; one command suffices since the accept loop
serves one client at a time, and more only add atomic steps of the UI thread. `MaxTime`,
`MaxRestarts`, `MaxFaults`, `MaxHistory`, `MaxEditions` and `MaxUntimed` are the only bounds in
guards that the code does not have (`MaxRetries` it has); the proofs hold for all their values. The
configurations of `MCDsavWatcher` name what each run needs.

For recognition the two canvases hold a node for each outcome of the rules (a slider, a sink, a
source no rule takes, a relay between two procedures), a procedure without members and one that Tier
0 decides completely. The answers hold one of each kind the loop tells apart (truncated, garbled,
low, citing the grammar, unsound, overlapping a row, a tagged node or another proposal, unknown,
incomplete). The limits of 200 proposals and 5 candidates become 3 and 2, so that both are met and
passed. One group is drawn between two requests.

For generated inputs two publications put one publish between any two steps of a request or an
acceptance. The four envelopes hold a slider with a step, the same slider narrowed and refined, an
integer without a step under the same id beside a parameter that is not eligible, and a slider from
0.05 to 1.05 by 0.1, whose floor the rounding takes off its grid; so a candidate may be off the new
grid, outside the new domain, incomplete, or have a value too many when it comes back. The limits
lie inside and outside those domains and on both sides; a count of 5 reaches the shifted candidates,
a count of 0 the refusal. The answers hold one for each guardrail. One request and one acceptance
suffice for the run, since they share nothing but `editions` and `stored`; the theorems have any
number of both.

For the structure report two publishes give each pair of transactions in every interleaving, with
the report anywhere between their statements; the envelopes hold an interface missing, an algorithm
without procedures, a link across procedures, a host, a warning, a second definition, the two
refusals, and rows sent again under other names and types or twice in one envelope. One failure is
an abort, a retry, a lost answer or a failed report.

For identities four requests let two race while a third comes after both and a fourth detaches or
publishes; two entities contend for the one native id. Three requests on notes give a proposal, its
confirmation and two others between any two of their queries (a delete and an ingest of the same
note among them). For the reasoner a limit above both waits and a margin below what is untimed let
either side give up first.

Deadlock is checked where the operator, the user or the clock can always take a step: in the runs of
the watcher, publish, preview, recognition and generated inputs. The runs `structure`, `republish`,
`identity`, `notes` and `reasoner` have finitely many requests and stop when all are answered, so
they do not check it.

## Fairness

`DsavWatcher!Fairness` has weak fairness for: each thread's steps (a thread of its own whose every
call, to Neo4j and to the sidecar, has a timeout); the insert of a stamped capture (the handler runs
to its end); the start of a process that is down (the container restarts it); the end of one that is
past `stop_watcher`. `LiveSpec` adds the clock. Not assumed: that a verdict succeeds, that a
configuration is stable beyond what the run's `Configs` says, that no query fails (`MaxFaults`
bounds them). `LiveSpec`'s `SlideClock` lets time go on for ever in a finite state space by moving
every recorded time one unit into the past, held at the edge where no comparison can tell them
apart. `Recognition!FairSpec` has weak fairness for `Attempt`: every adapter call has a timeout and
the handler runs to its end. `InputGeneration!FairSpec` has weak fairness for `Generate` on the same
grounds; nobody has to publish or to accept. `ReasonerSidecar!FairSidecarSpec` has weak fairness for the
thread's steps, the proxy's timeout and time, and none for the worker, the reasoners or Java: they
may hang for ever. The other modules state safety only: a publish may fail
for good at any step, and a user never has to press a button.

## The proofs

All theorems hold for every set of runs, projects, threads, documents, proposals, requests, notes
and identities, and for every bound.

**DsavWatcherProofs.** `TypeCorrect`: the types, and that a thread's `proj`, `conf`, `kept` are set
where its program counter says so (`Typed`). `RetryBudget` and `NewestSnapshotStands` need no more
and hold with any number of pollers. The others assume `~LifespanReentry`: otherwise a thread that
outlives `join(timeout)` may miss the stop, since `start_watcher` clears the event for its
successor, and two pollers then write by run id alone. Their inductive invariant is `OnePoller` (no
thread is alive while the process is down, and at most one is at any other time),
`KeptStillCaptured`, and `RowFacts` (a judged row is completed, a sent row is judged):
`KeptStillCaptured` alone is not inductive, since a second thread could coalesce the row away. From
it follow `KeptRowCaptured`, `VerdictsAgree`, `SentIsJudged`, `VerdictsFinal` and, by mapping each
action to a step of `RunLifecycle` or a stutter, `ImplementsLifecycle`. `RecordedRate` adds
`RateInv`: recorded stamps are never later than the current tick, and between the limiter's check
and the completion the trailing window has room for one more.

**ValidationProofs**, publishing. `TypeCorrect` includes `Known`: a handler past its first step has
its configuration and its model. `StoresStayTogether` proves `EntitiesHaveRow`, and
`DeletedRunsLeaveNoVersion` and `ListedRunsHaveTheirOverlay` the two properties they are named
after, from `StoreInv`, which says for each step of a publish what its row and version already are.
`ConfigurationUnmixed` uses `ModelInv`: a handler that has found a model has one of the project of
its copy or a pair that an operator saved, and models never move; it holds for every set `Saves`.

**StructurePreviewProofs.** `HistoryNeverBreaks` is proved from the existence of a chain of canvases
through `past` and `future`: each record leads from one to the next, and the present is one of them.
`UndoWipes` is about the recursive function `Before`, which undoes a history: it equals the chain
(`ChainIsBefore`: were they to differ, take the largest place where they do; the defining equation
refutes it), and the chain begins with the empty canvas. `ConfirmedStaysMarked` needs that a record
in either history restyles only marked groups. `BridgeSparesConfirmed` and
`CommandsClearTheirCanvas` are action properties: a group is never confirmed and registered at once,
and what a command takes off the registry it looked for on its own canvas.

**RecognitionProofs.** `NothingDropped`, `OffersAreSafe` and `ProviderStays` are one induction with
`RunInv` (the rows are Tier 0's decision about the submitted canvas, and the residual what they
leave) and `BudgetInv` (while the loop asks, a call is left). That Tier 0 alone is safe rests on two
lemmas: at most one rule fits a node (`RulesExclude`), and a row has one procedure (`DecidedRow`).

**InputGenerationProofs.** `FloorIsAssured` is about the sampler alone. What rounding the step's
index gives is a whole number of steps above the lower bound; where a row is `OnGrid`, that is also
a multiple of the grain, so the final rounding leaves it (`AlignedExact`), whichever way ties go;
and clipping returns it or an end of the domain, which is on the grid as well. So the sample passes,
and so does its shift. Without `OnGrid` clipping keeps a number within its bounds, and rounding an
integer whole. That `RowOf` is defined rests on the least-number principle applied to the count of
later rows. `Inv` is the inductive invariant: a request that still asks has a call in hand and a
whole floor (`GoodRequest`), an acceptance looks at rows that were published and holds a candidate
that was offered (`GoodAcceptance`), a stored state was both (`GoodState`). It holds since
publications are only added and an offer, once made, is final. `TypeCorrect`, `FloorAlwaysFits`,
`OffersFit`, `FloorLastResort`, `StoredStatesFit` and `StoredStatesAttributed` follow from it.
`ConservativeIsSafe` adds `FloorsMade`: a request's floor is what the sampler makes of its bound and
its limit. If any value of a domain satisfies a one-sided limit then the end of the domain on that
side does, and where the row is `OnGrid` aligning and rounding leave that end where it is
(`EndsAligned`).

**IdentityRegistryProofs.** The requests run concurrently, so every theorem rests on `Base`: the
types, what each program counter implies (`Flow`), that `after` lists answered requests (`Ordered`),
and what a request that looked a node up has `seen` (`Seen`). Three invariants are added to it.
`MintInv`: whoever had entered an entity before a mint of it arrived was found by that mint, so a
second minted node needs two that raced. `BindInv`: between the look at a native id and the merge of a
bind that does not race another, every binding of that id is of the bind's own entity (`AllOf`),
whatever publishes, mints and detaches do meanwhile. `WriteInv`: once a write began after all others
of its property, the nodes they left all take its value. Each speaks of requests that did not race
(`Sequential`); since a request that arrives can only make that false, it may be assumed of the
state before a step when it is known of the state after. `TypeCorrect`, `NativeHasOneOwner`,
`BindingsAreKept`, `MintIsIdempotent` and `LastWriteIsRead` follow.

**KnowledgeNotesProofs.** A confirmed update checks `updatedAt`, a time, but is to detect writers.
The argument is that a time identifies its writer: a request takes its time once (`Clocked`) and
writes a note at most once (`Once`), and a time found on a note or read from it is that of a request
that wrote it (`StampWritten`, `ReadWritten`). So a note with the time it was read with has not been
written since (`Unchanged`), and neither had it when the confirmation was sent (`Sent`): this is
`ConfirmedEditsKept`. `Prefix` (what a request has touched is a prefix of its list) gives
`ConfirmationsArePrefixes`, and `Linked` gives `InsertedNotesLinked`. `Once` is where the assumption
that an ingest lists each file once is needed.

**ValidationProofs**, the sidecar. `Fresh` (before a request nothing of it exists), `Truthful` (a report
that got through whole says what is true), and `Accounted` (Java runs in a worker or outlives one
the system killed; once the thread is past `join` a process is left only after the limit) are, with
the types and the properties, inductive together. `SidecarTypeCorrect`,
`VerdictsAreReasoned`, `AnsweredIsClean` and `MarginIsForTheRest` follow for every limit and margin.

**StructureChecksProofs**, publishing. `PublishInv` is inductive for any number of publishes that
interleave statement by statement. `Written`: a transaction has, for every statement it is past, the
nodes and relationships its envelope calls for among the nodes it wrote, and nothing else.
`Undisturbed`: while nothing of its definition has committed since it began, it creates no second
node for a row and misses no link. `GraphInv` says what the committed graph is: complete and sound
for the committed envelopes (`NodesComplete`, `NodesSound`, `EdgesSound`: theorem `AllOrNothing`),
without a node that lacks its owner (`Owned`), and, for a definition whose publishes did not overlap
(`InSeries`), with one node per row, set last by whoever sent it last, and every link whose ends
were known (`Exact`: theorem `SerialPublishesMerge`). `Owned` needs `Written`, since a race may join
duplicates but each transaction joins its own; `Exact` needs `Undisturbed`. `StaleListIsComplete`
follows from `NodesComplete`, `GuardsAreNeverNeeded` from `Owned`. `PublishesLinearize` maps every
step to a step of `PublishedDefinitions` or a stutter: `Written` makes what a commit adds exactly
the rows of its envelope.

**StructureChecksProofs**, the report. In a state whose definition was published in series, the
answer of each query is what the envelopes call for (`AsPublished`: one lemma per check and one for
the rules, from `PublishInv` alone). For the rules, a node's writer is the last commit to send its
key (`LastWriter`), so what a template reads of it is what that envelope says (`LetsAllowed`).
`FoundInv` carries it through the report: while nothing has committed since it began, what it
collected is what the graph answers now. `FindingsAreAsPublished` and `RulesAreAsPublished` follow,
since an answered report keeps its content and the commits before its end are never rewritten.
`StampInv` gives `StampIsSeen`: a node's writer has committed (`NodesSound`), so the stamp read
first is one of a commit that the first check sees.

Only model-checked: liveness (`EventuallySettled`, `EventuallyAnswered`, `Answered`, `Freed`), which
is out of this prover's reach. Every other property of a passing run is a theorem. The two
disagreements below are counterexamples and need no proof. What the recursive function `Before`
computes from an undo history is reasoned about without induction over data: see `UndoWipes`.

## Disagreements between the code and what it says

Two are violation runs with a short trace; `PROJECT.json` "findings" quotes the lines.

1. `publish_ghost`: the report's `MERGE` recreates a run that was deleted during the SHACL call.
2. `republish`: the message of a dangling parameter link tells the user to remove it and publish
   again; a publish only merges, so the link is reported for ever.

Met while modelling, without a run of their own:

* A capture inserted between the age check and `COALESCE_QUERY` is judged at once; the next one of
  its debounce window is judged again.
* Only tagged entities are protected from new proposals of recognition; a confirmed one, which the
  parser reports as recognized, is not, so its nodes can be offered and confirmed again.
* The preview registry is emptied for every document, the canvas of one is cleaned.
* The prompt for five or more candidates asks for a strategy twice, and the guardrail refuses a
  strategy used twice; every retry is spent for nothing.
* An entity minted first and published later has two nodes with one `dgId`, against
  `dg_identity.py:29-34` ("a shared identity") and `spec/DG-ID.md:64`; `computgraph_publish.py:13-19`
  admits it. `SharedProperty` nodes carry a `dgId` too, so the label-less `MATCH` of a bind attaches
  the representation to them as well.
* `bind_representation` answers with the connector it was given, though `ON CREATE` leaves an
  existing representation with its old one.
* `sample_tier0` says that its values pass `validate_candidate` by construction
  (`cg_input_sampler.py:36-38`); where a bound has more decimals than the step, `step_align` rounds
  them off the grid, and such a candidate is offered and refused when it is accepted.
* An operator's configuration saved while a publish runs is overwritten with what it read before, and
  nothing compares a saved model with its project.
* A confirmed update checks and writes a note in two queries: an edit in between is lost.
* A reasoner report larger than the pipe always times out, since `join` comes before `queue.get`; a
  worker killed amid a report blocks its thread for ever. A worker that has not called `setsid` when
  the limit passes makes `killpg` raise and goes on; Java outlives a worker that was killed alone.
* A request for consistency whose sidecar answers neither a timeout nor a refused connection is not
  caught by the proxy.

## Assumptions and what is left out

* Each Cypher query is atomic and isolated; Neo4j and Speckle lose nothing they confirmed.
* The wall clock does not go backwards.
* One canvas listener and one scheduled selection per document; GUIDs and uuid4 ids are fresh.
* The verdict's content, overlay geometry, rule texts, colours, names and URLs are abstracted; a
  proposal's publishability is a free choice.
* Read-only routes and refused requests change nothing and have no action.
* Prompts, names, rationales and logging of recognition are abstracted; a model answers freely.
* Generated inputs: a slider's minimum is not above its maximum (Grasshopper's); publications are
  stamped in the order they commit; floats are exact in the common unit, except where a tie is
  rounded; the queries of a request succeed, and one that fails ends it with an
  error and changes nothing; an adapter's error ends the request (502), floor or not.
* One query is one transaction, except where the code opens one for several (`execute_write`); in it
  a statement may wait for the rows another transaction has written, and a failed one is retried as
  a whole. The nine statements of a publish are nine steps.
* Notes: requests take different times (microseconds in the code); an ingest lists each file once.
  Two ingests that create one note at once are taken to be serialized: the `MERGE` of a note is one
  step, which no constraint of the repository enforces.
* Identities: a query that fails between two others leaves what an interleaving leaves.
* The reasoner's findings are given; the enrichment of findings and the wording of reports are left
  out, as are messages, severities and counts of the structure report.
* Of the publish module the derivation of reinstate ids, which nothing modelled here reads, and the
  listing of stored candidates are left out.
* Context assembly (`dg_context.py`) and the LLM gateway's adapters turn one read into text and a
  text into a request; model discovery and usage are read-only.
* Ontology export, serializers, the LLM adapters and the one-query repositories are conversions or
  plumbing: they keep no state of their own.

## Plan

Done: `DsavWatcher`, `ValidationPublish`, `StructurePreview`, `Recognition`, `InputSampler` with
`InputGeneration`, `KnowledgeNotes`, `IdentityRegistry`, `ComputgraphPublish` with
`StructureChecks`, `ReasonerSidecar`; a theorem for every safety and action property of their runs.
What remains, in the order of importance:

1. Abstract specifications of `IdentityRegistry` (a register per entity and property) and
   `KnowledgeNotes` (compare and set), with the refinements proved, as for `RunLifecycle` and
   `PublishedDefinitions`.
2. `DesignState`: binding and two-phase reinstatement.
3. Cypher generation: a retry loop like the others; only read-only statements are executed.
4. Operators: rule evaluation and the annotation grammar, against a reference definition over
   bounded inputs.
5. `Connectors`, if the file is ever locked: today each property breaks on any overlap of requests.

Runs are to stay few: a component gets one run for all its properties, and one more for each
disagreement with what the code says of itself.
