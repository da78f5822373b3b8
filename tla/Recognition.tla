------------------------------ MODULE Recognition ------------------------------
(***************************************************************************)
(* Structure recognition (cg_recognition.py, cg_topology.py) in the loop   *)
(* it is used in: the canvas parser (CanvasAnnotationParser.cs) says which *)
(* nodes entities own, Tier 0 decides rows from the wiring, a language     *)
(* model answers for the rest under guardrails and a retry budget, and the *)
(* architect previews and confirms the answer, which changes what the next *)
(* run is given.                                                           *)
(*                                                                         *)
(* A member list is a set: a list that repeats an id, a wrong kind, a      *)
(* missing field is a proposal that is not sound. Names are abstracted to  *)
(* the kind and the procedure they parse to. The model and the architect   *)
(* are external.                                                           *)
(***************************************************************************)
EXTENDS Integers, FiniteSets, Sequences

CONSTANTS
    Node,          \* ids a model may name
    Procedure,     \* NN tokens of procedures
    Provider,      \* LLM providers
    Fallback,      \* the provider used when the settings cannot be read ("ollama")
    Saved,         \* contents of the LLM settings file
    Canvas,        \* canvases a session may start from
    UserGroup,     \* groups an architect may tag during the session
    Response,      \* answers of the language model
    MaxRetries,    \* retries after the first call (2)
    MaxProposals,  \* MAX_PROPOSALS (200)
    MaxMembers,    \* MAX_MEMBERS_PER_PROPOSAL (1000)
    FewCandidates, \* candidates that must yield a proposal (5)
    MaxDrawn,      \* bound of the model: groups drawn in one session
    None

Kind == {"Proc", "Pat", "Var", "Const", "Emg", "IntF"}
ParameterKind == {"Var", "Const", "Emg"}
Widget == {"Slider", "ValueList", "Boolean", "Panel", "Value", "Relay", "None"}

(* A wire joins a port of one node to one of another.                         *)
Wires == [from : Node, to : Node, port : Nat]

(* A group on the canvas: at is its place in the document, kind and proc what *)
(* its name parses to ("Other": no tag), status who drew it.                  *)
Groups ==
    [at : Nat, kind : Kind \cup {"Other"}, proc : Procedure, members : SUBSET Node,
     status : {"tagged", "preview", "recognized"}]

Canvases == [nodes : SUBSET Node, wires : SUBSET Wires, widget : [Node -> Widget],
             groups : SUBSET Groups]

(* A proposal: low confidence, a rationale that cites the grammar, or fields  *)
(* the validator refuses on their own.                                        *)
Proposals == [kind : Kind, proc : Procedure, members : SUBSET Node, low : BOOLEAN,
              cites : BOOLEAN, sound : BOOLEAN]

Responses == [kind : {"truncated", "refusal", "garbled", "typed"},
              proposals : Seq(Proposals), unrecognized : SUBSET (SUBSET Node)]

Settings == [provider : Provider, readable : BOOLEAN]

ASSUME CanvasAssumption ==
    /\ Canvas \subseteq Canvases
    /\ \A c \in Canvas : \A g \in c.groups : g.members \subseteq c.nodes
    /\ UserGroup \subseteq [kind : Kind \cup {"Other"}, proc : Procedure, members : SUBSET Node]
ASSUME ResponseAssumption == Response \subseteq Responses
ASSUME BoundsAssumption ==
    /\ {MaxRetries, MaxProposals, MaxMembers, FewCandidates, MaxDrawn} \subseteq Nat
    /\ Fallback \in Provider /\ Saved \subseteq Settings
    /\ None \notin Procedure \cup Provider \cup Canvases

VARIABLES
    canvas,    \* the open Grasshopper document
    drawn,     \* groups drawn so far: the place of the next one
    settings,  \* the LLM settings file
    phase,     \* "idle", "asking", or how the last request was answered
    ctx,       \* the canvas as the request submitted it
    scope,     \* its procedure_index
    rows,      \* Tier-0 decisions
    residual,  \* candidates Tier 0 left to the model
    provider,  \* provider resolved for the run
    calls,     \* providers called by the run, in order
    corrected, \* g7_already_retried
    answer     \* the proposals and unrecognized entries of a valid answer

run == <<ctx, scope, rows, residual, provider>>
vars == <<canvas, drawn, settings, phase, ctx, scope, rows, residual, provider, calls, corrected,
          answer>>

------------------------------------------------------------------------------
(* The parser: which nodes the entities of a canvas own.                      *)

(* A preview group's name starts with a prefix no tag has.                    *)
Conforming(c) == {g \in c.groups : g.kind # "Other" /\ g.status # "preview"}

(* The first procedure group of an index is the procedure; the parser skips a *)
(* later one, whose members it still claims.                                  *)
Founding(c) ==
    {g \in Conforming(c) :
        g.kind = "Proc" => \A h \in Conforming(c) :
                              h.kind = "Proc" /\ h.proc = g.proc => g.at <= h.at}

MembersOf(c, p) == UNION {g.members : g \in {h \in Founding(c) : h.kind = "Proc" /\ h.proc = p}}

Claimed(c) == UNION {g.members : g \in Conforming(c)}

Untagged(c) == c.nodes \ Claimed(c)

Tagged(c) == UNION {g.members : g \in {h \in Founding(c) : h.status = "tagged"}}

(* The first group without a tag that lists a node crowds it when it lists    *)
(* another one too. A pending preview is such a group.                        *)
Crowded(c, n) ==
    \E g \in c.groups \ Conforming(c) :
        /\ n \in g.members
        /\ \A h \in c.groups \ Conforming(c) : n \in h.members => g.at <= h.at
        /\ g.members # {n}

------------------------------------------------------------------------------
(* Tier 0.                                                                    *)

InDegree(c, n) == Cardinality({w \in c.wires : w.to = n})
OutDegree(c, n) == Cardinality({w \in c.wires : w.from = n})

Adjacent(c, n) ==
    {p \in Procedure :
        LET members == MembersOf(c, p) IN
        \E w \in c.wires : \/ w.from \in members /\ w.to = n
                           \/ w.to \in members /\ w.from = n}

EmptyProcedure(c, p) == p # None /\ MembersOf(c, p) = {}

Candidates(c, p) == {n \in Untagged(c) : p = None \/ p \in Adjacent(c, n)}

(* R1 to R4: input widgets, sources, sinks and bare Param relays.             *)
Rules(c, n) ==
    [Var |-> InDegree(c, n) = 0 /\ c.widget[n] \in {"Slider", "ValueList", "Boolean"},
     Const |-> /\ InDegree(c, n) = 0 /\ OutDegree(c, n) > 0
               /\ c.widget[n] \in {"Panel", "Relay", "None"} /\ ~Crowded(c, n),
     Emg |-> OutDegree(c, n) = 0 /\ InDegree(c, n) > 0 /\ ~Crowded(c, n),
     IntF |-> InDegree(c, n) = 1 /\ OutDegree(c, n) = 1 /\ c.widget[n] = "Relay"]

Row(k, p, n) ==
    [kind |-> k, proc |-> p, members |-> {n}, low |-> FALSE, cites |-> FALSE, sound |-> TRUE]

(* A defect: the node is attributed to any procedure it is wired to.          *)
AnyAdjacent(c, n, p) == p \in Adjacent(c, n)

(* A node wired to no procedure, or to several, is left to the model.         *)
Attributed(c, n, p) == Adjacent(c, n) = {p}

Decided(c, S) ==
    UNION {{Row(k, p, n) : k \in {k \in DOMAIN Rules(c, n) : Rules(c, n)[k]},
                           p \in {p \in Procedure : Attributed(c, n, p)}} : n \in S}

MembersIn(props) == UNION {p.members : p \in props}
Listed(s) == {s[i] : i \in DOMAIN s}

------------------------------------------------------------------------------
(* Guardrails.                                                                *)

(* G7. The rows of Tier 0 count as proposals.                                 *)
GrammarAsFilter(r) ==
    \/ \E p \in Listed(r.proposals) : p.cites
    \/ rows = {} /\ r.proposals = <<>> /\ Cardinality(residual) >= FewCandidates

(* G6.                                                                        *)
Unaddressed(r) == residual \ (MembersIn(Listed(r.proposals)) \cup UNION r.unrecognized)

(* A defect: proposals are compared with each other, not with Tier 0.         *)
ApartFromEachOther(s) ==
    \A i, j \in DOMAIN s : i # j => s[i].members \cap s[j].members = {}

(* Every node is in one proposal at most, the rows of Tier 0 included.        *)
Disjoint(s) ==
    /\ \A i, j \in DOMAIN s : i # j => s[i].members \cap s[j].members = {}
    /\ \A i \in DOMAIN s : s[i].members \cap MembersIn(rows) = {}

Valid(s, entries) ==
    /\ Cardinality(rows) + Len(s) <= MaxProposals
    /\ \A i \in DOMAIN s :
          /\ s[i].sound /\ Cardinality(s[i].members) <= MaxMembers
          /\ s[i].members \subseteq ctx.nodes \ Tagged(ctx)
    /\ Disjoint(s)
    /\ Cardinality(entries) <= MaxProposals
    /\ \A e \in entries : Cardinality(e) <= MaxMembers /\ e \subseteq ctx.nodes

(* A defect: a proposal below the floor is dropped.                           *)
DropLow(s, entries) ==
    [model |-> [i \in {j \in DOMAIN s : ~s[j].low} |-> s[i]], unrecognized |-> entries]

(* G10: a proposal below the confidence floor becomes unrecognized.           *)
Demote(s, entries) ==
    [model |-> [i \in {j \in DOMAIN s : ~s[j].low} |-> s[i]],
     unrecognized |-> entries \cup {s[i].members : i \in {j \in DOMAIN s : s[j].low}}]

------------------------------------------------------------------------------
NoAnswer == [model |-> <<>>, unrecognized |-> {}]

Init ==
    /\ canvas \in Canvas
    /\ drawn = 1
    /\ settings \in Saved
    /\ phase = "idle"
    /\ ctx = None /\ scope = None /\ rows = {} /\ residual = {} /\ provider = None
    /\ calls = <<>> /\ corrected = FALSE
    /\ answer = NoAnswer

(* resolve_active_provider.                                                   *)
Resolve(s) == IF s.readable THEN s.provider ELSE Fallback

(* PUT /llm/settings; a changed master secret makes the key unreadable.       *)
SaveSettings ==
    /\ settings' \in Saved
    /\ UNCHANGED <<canvas, drawn, run, phase, calls, corrected, answer>>

(* The front half of recognize_structure: scope, features, Tier 0. The        *)
(* provider is resolved only when something is left for the model.            *)
Request(p) ==
    /\ phase # "asking"
    /\ ctx' = canvas /\ scope' = p
    /\ calls' = <<>> /\ corrected' = FALSE /\ answer' = NoAnswer
    /\ IF EmptyProcedure(canvas, p) THEN
          phase' = "empty_scope" /\ rows' = {} /\ residual' = {} /\ provider' = None
       ELSE
          /\ rows' = Decided(canvas, Candidates(canvas, p))
          /\ residual' = Candidates(canvas, p) \ MembersIn(rows')
          /\ \/ residual' = {} /\ phase' = "tier0" /\ provider' = None
             \/ residual' # {} /\ phase' = "asking" /\ provider' = Resolve(settings)
    /\ UNCHANGED <<canvas, drawn, settings>>

(* A defect: the provider is resolved again for every call.                   *)
ResolvedAgain == Resolve(settings)

(* The adapter of the run, created before the loop.                           *)
Called == provider

Final == Len(calls) = MaxRetries

(* A defect: a retry starts to count again.                                   *)
RecountedCall ==
    /\ calls' = IF calls = <<>> THEN <<Called>> ELSE <<>>
    /\ UNCHANGED <<canvas, drawn, settings, run>>

(* One turn of the loop; calls counts the attempts.                           *)
Call ==
    /\ calls' = Append(calls, Called)
    /\ UNCHANGED <<canvas, drawn, settings, run>>

Retry ==
    /\ phase' = IF Final THEN "invalid" ELSE "asking"
    /\ UNCHANGED <<corrected, answer>>

(* adapter.generate raises: the route answers 502.                            *)
ProviderFails == Call /\ phase' = "failed" /\ UNCHANGED <<corrected, answer>>

(* G8 and refusals: another call would end the same way.                      *)
Stopped(r) ==
    /\ r.kind \in {"truncated", "refusal"}
    /\ Call /\ phase' = "invalid" /\ UNCHANGED <<corrected, answer>>

(* Not JSON, or JSON of another schema.                                       *)
Garbled(r) == r.kind = "garbled" /\ Call /\ Retry

(* G7: corrected once, then blocked.                                          *)
Filtered(r) ==
    /\ r.kind = "typed" /\ GrammarAsFilter(r)
    /\ Call
    /\ corrected' = (corrected \/ ~Final)
    /\ phase' = IF corrected \/ Final THEN "invalid" ELSE "asking"
    /\ UNCHANGED answer

(* G6, with retries left.                                                     *)
Incomplete(r) ==
    /\ r.kind = "typed" /\ ~GrammarAsFilter(r)
    /\ Unaddressed(r) # {} /\ ~Final
    /\ Call /\ Retry

(* G6 fills in what the last answer left out; then the validator judges.      *)
Judged(r) ==
    /\ r.kind = "typed" /\ ~GrammarAsFilter(r)
    /\ Unaddressed(r) = {} \/ Final
    /\ Call
    /\ LET entries == r.unrecognized \cup {{n} : n \in Unaddressed(r)} IN
       \/ /\ Valid(r.proposals, entries)
          /\ phase' = "valid" /\ answer' = Demote(r.proposals, entries)
          /\ UNCHANGED corrected
       \/ ~Valid(r.proposals, entries) /\ Retry

Attempt ==
    /\ phase = "asking"
    /\ \/ ProviderFails
       \/ \E r \in Response :
             Stopped(r) \/ Garbled(r) \/ Filtered(r) \/ Incomplete(r) \/ Judged(r)

------------------------------------------------------------------------------
(* The architect, between and during requests.                                *)

Place(i) == drawn * (MaxProposals + 1) + i

GroupOf(p, i) ==
    [at |-> Place(i), kind |-> p.kind, proc |-> p.proc, members |-> p.members,
     status |-> "preview"]

Redraw(groups) == canvas' = [canvas EXCEPT !.groups = groups]

(* Tags a group by hand.                                                      *)
Tag(g) ==
    /\ drawn < MaxDrawn
    /\ g.members \subseteq canvas.nodes
    /\ Redraw(canvas.groups \cup {[at |-> Place(0), kind |-> g.kind, proc |-> g.proc,
                                   members |-> g.members, status |-> "tagged"]})
    /\ drawn' = drawn + 1
    /\ UNCHANGED <<settings, phase, run, calls, corrected, answer>>

(* gh_preview_structure draws the whole answer and wipes the last preview.    *)
Preview ==
    /\ phase \in {"tier0", "valid"} /\ drawn < MaxDrawn
    /\ Redraw({g \in canvas.groups : g.status # "preview"}
                \cup {GroupOf(p, 0) : p \in rows}
                \cup {GroupOf(answer.model[i], i) : i \in DOMAIN answer.model})
    /\ drawn' = drawn + 1
    /\ UNCHANGED <<settings, phase, run, calls, corrected, answer>>

(* G12: a parameter needs a member whose data type the parser can infer.      *)
Typeable(g) ==
    g.kind \in ParameterKind =>
        g.members = {} \/ \E n \in g.members : canvas.widget[n] \notin {"Relay", "None"}

Confirm(g) ==
    /\ g \in canvas.groups /\ g.status = "preview" /\ Typeable(g)
    /\ Redraw((canvas.groups \ {g}) \cup {[g EXCEPT !.status = "recognized"]})
    /\ UNCHANGED <<drawn, settings, phase, run, calls, corrected, answer>>

Reject(g) ==
    /\ g \in canvas.groups /\ g.status = "preview"
    /\ Redraw(canvas.groups \ {g})
    /\ UNCHANGED <<drawn, settings, phase, run, calls, corrected, answer>>

------------------------------------------------------------------------------
Architect ==
    \/ \E g \in UserGroup : Tag(g)
    \/ Preview
    \/ \E g \in canvas.groups : Confirm(g) \/ Reject(g)

Next ==
    \/ SaveSettings
    \/ \E p \in Procedure \cup {None} : Request(p)
    \/ Attempt
    \/ Architect

Spec == Init /\ [][Next]_vars

(* Every adapter call has a timeout and the loop goes on or answers.          *)
FairSpec == Spec /\ WF_vars(Attempt)

------------------------------------------------------------------------------
(* Properties.                                                                *)

(* Types; a run has a provider while it asks and after it asked.              *)
TypeOK ==
    /\ canvas \in Canvases /\ drawn \in 1 .. MaxDrawn + 1 /\ settings \in Saved
    /\ phase \in {"idle", "asking", "tier0", "valid", "invalid", "failed", "empty_scope"}
    /\ phase = "idle" \/ ctx \in Canvases
    /\ scope \in Procedure \cup {None}
    /\ rows \subseteq Proposals /\ residual \subseteq Node
    /\ phase \in {"asking", "valid", "invalid", "failed"} => provider \in Provider
    /\ calls \in Seq(Provider) /\ corrected \in BOOLEAN
    /\ DOMAIN answer.model \subseteq Nat \ {0} /\ Listed(answer.model) \subseteq Proposals
    /\ answer.unrecognized \subseteq SUBSET Node

Answered == phase \in {"tier0", "valid"}

(* Recognition drops no candidate silently: every one is in a proposal or an  *)
(* unrecognized entry, also after the confidence floor has moved proposals    *)
(* and after the last attempt was filled in.                                  *)
NeverDropped ==
    Answered => Candidates(ctx, scope) \subseteq
        MembersIn(rows) \cup MembersIn(Listed(answer.model)) \cup UNION answer.unrecognized

(* What is offered for preview names nodes of the submitted canvas, none that *)
(* a tagged entity owns, and no node twice, although Tier-0 rows alone are    *)
(* never validated.                                                           *)
SafeToPreview ==
    Answered =>
        /\ MembersIn(rows) \cup MembersIn(Listed(answer.model)) \subseteq ctx.nodes \ Tagged(ctx)
        /\ \A p, q \in rows : p # q => p.members \cap q.members = {}
        /\ \A i \in DOMAIN answer.model :
              /\ answer.model[i].members \cap MembersIn(rows) = {}
              /\ \A j \in DOMAIN answer.model :
                    i # j => answer.model[i].members \cap answer.model[j].members = {}

(* A Tier-0 row carries certainty, so its node is wired to its procedure and  *)
(* no other; a run scoped to a procedure decides rows for that one only.      *)
RowsOwnTheirProcedure ==
    \A p \in rows :
        /\ scope \in {None, p.proc}
        /\ \A n \in p.members : Adjacent(ctx, n) = {p.proc}

(* All calls of a run go to the provider its answer names, whatever becomes   *)
(* of the settings meanwhile; there are MaxRetries + 1 at most, none when     *)
(* Tier 0 decided everything, and a valid answer of the model took one.       *)
OneProvider ==
    /\ Len(calls) <= MaxRetries + 1
    /\ \A i \in DOMAIN calls : calls[i] = provider
    /\ phase \in {"idle", "tier0", "empty_scope"} => calls = <<>>
    /\ phase \in {"valid", "invalid", "failed"} => calls # <<>>

(* Every request is answered.                                                 *)
EventuallyAnswered == phase = "asking" ~> phase # "asking"

==============================================================================
