---------------------------- MODULE InputGeneration ----------------------------
(***************************************************************************)
(* Generated inputs of a Grasshopper definition (cg_input_generation.py,   *)
(* cg_input_bindings.py, cg_paramstate_store.py) while the definition is   *)
(* published again and again (computgraph_publish.py).                     *)
(*                                                                         *)
(* A generation reads the rule, the published parameters and the time of   *)
(* publication in three queries, keeps a deterministic floor of candidates *)
(* and lets a language model do better within a retry budget. The          *)
(* architect sends one candidate back; it is checked against the published *)
(* parameters of that moment and stored. One definition, one rule: every   *)
(* query is scoped to them. The model and the architect are external.      *)
(***************************************************************************)
EXTENDS InputSampler, Sequences

CONSTANTS
    Generation,  \* requests to generate
    Acceptance,  \* requests to accept a candidate
    Named,       \* parameter names of the rule's binding, {} if it has none
    Override,    \* lists of names an architect may ask for, {} included
    RuleLimit,   \* what reading the rule's limit may give
    Count,       \* numbers of candidates asked for
    Response,    \* answers of the language model
    Envelope,    \* parameters of the envelopes the plugin may publish
    MaxRetries,  \* retries after the first call (2)
    MaxEditions  \* bound of the model: publications

Candidates == [strategy : Strategy, values : Assignments]

Responses == [kind : {"failed", "truncated", "garbled", "typed"}, candidates : Seq(Candidates)]

ASSUME EnvelopeAssumption ==
    \A e \in Envelope :
        /\ e \subseteq Rows /\ IsFiniteSet(e)
        /\ \A r \in e : r.eligible => InOrder(r)
        /\ \A r, s \in e : r.cg = s.cg => r = s
ASSUME RequestAssumption ==
    /\ Named \subseteq Nat /\ Override \subseteq SUBSET Nat
    /\ RuleLimit \subseteq Limit /\ Count \subseteq Int
    /\ Response \subseteq Responses
ASSUME BoundsAssumption == MaxRetries \in Nat /\ MaxEditions \in Nat

VARIABLES
    editions, \* the published :Parameter rows, after each publication
    gen,      \* generate_inputs, one record for each request
    acc,      \* accept_candidate, one record for each request
    stored    \* the :DesignState nodes of accepted candidates

vars == <<editions, gen, acc, stored>>

Published == editions[Len(editions)]

Nobody == [strategy |-> "none", values |-> [id \in Id |-> Absent]]
NoAnswer == [kind |-> "garbled", candidates |-> <<>>]

IdleGeneration ==
    [pc |-> "idle", count |-> 0, names |-> {}, limit |-> NoLimit, bound |-> {}, floor |-> <<>>,
     at |-> 0, attempts |-> 0, answer |-> NoAnswer, offer |-> <<>>, tier |-> 0]

IdleAcceptance ==
    [pc |-> "idle", names |-> {}, at |-> 0, candidate |-> Nobody, rows |-> {}, since |-> 0]

Init ==
    /\ \E e \in Envelope : editions = <<e>>
    /\ gen = [g \in Generation |-> IdleGeneration]
    /\ acc = [a \in Acceptance |-> IdleAcceptance]
    /\ stored = {}

------------------------------------------------------------------------------
(* publish_structure, one transaction: a published parameter is set anew, one *)
(* the envelope no longer has stays as it was.                                *)

Merged(rows, e) == {r \in rows : \A s \in e : s.cg # r.cg} \cup e

Publish(e) ==
    /\ Len(editions) < MaxEditions
    /\ editions' = Append(editions, Merged(Published, e))
    /\ UNCHANGED <<gen, acc, stored>>

------------------------------------------------------------------------------
(* classify_rule and select_parameters                                        *)

Scope(override) == IF Named = {} THEN {} ELSE IF override = {} THEN Named ELSE override

Select(names, rows) == {r \in rows : r.eligible /\ (names = {} \/ r.name \in names)}

------------------------------------------------------------------------------
(* generate_inputs                                                            *)

Step(g, from, to, change) ==
    /\ gen[g].pc = from
    /\ gen' = [gen EXCEPT ![g] = [change EXCEPT !.pc = to]]
    /\ UNCHANGED <<editions, acc, stored>>

(* The rule is read; without a binding its limit is not used.                 *)
Classify(g) == \E n \in Count, o \in Override, l \in RuleLimit :
    Step(g, "idle", "classified",
         [gen[g] EXCEPT !.count = n, !.names = Scope(o),
                        !.limit = IF Named = {} THEN NoLimit ELSE l])

(* There is no such rule.                                                     *)
RuleMissing(g) == Step(g, "idle", "refused", gen[g])

Countable(g) == gen[g].count \in 1 .. MaxCandidates

(* The parameters are read: none is eligible, or the count is out of range.   *)
Refuse(g) ==
    /\ Select(gen[g].names, Published) = {} \/ ~Countable(g)
    /\ Step(g, "classified", "refused", gen[g])

SampleFloor(g) ==
    LET bound == Select(gen[g].names, Published)
    IN  /\ bound # {} /\ Countable(g)
        /\ Step(g, "classified", "sampled",
                [gen[g] EXCEPT !.bound = bound, !.floor = Floor(bound, gen[g].limit, gen[g].count)])

(* fetch_published_at, and the provider is resolved.                          *)
Stamp(g) == Step(g, "sampled", "asking", [gen[g] EXCEPT !.at = Len(editions)])

(* The guardrails on a typed answer.                                          *)
Distinct(cs) ==
    /\ \A i \in DOMAIN cs : cs[i].strategy \in Range(Strategies)
    /\ \A i, j \in DOMAIN cs : cs[i].strategy = cs[j].strategy => i = j

Diverse(cs, bound) ==
    \A i, j \in DOMAIN cs : i < j => ~NearDuplicate(cs[i].values, cs[j].values, bound)

(* A defect: only the first candidate's values are looked at.                 *)
LaxInDomain(cs, bound) == cs # <<>> => Valid(cs[1].values, bound)

InDomain(cs, bound) == \A i \in DOMAIN cs : Valid(cs[i].values, bound)

Usable(cs, g) ==
    /\ InDomain(cs, gen[g].bound)
    /\ Len(cs) = gen[g].count
    /\ Distinct(cs)
    /\ Diverse(cs, gen[g].bound)

(* A defect: the attempts are not counted.                                    *)
Uncounted(g, r) == [gen[g] EXCEPT !.answer = r]

(* One call of the model spends one attempt.                                  *)
Asked(g, r) == [gen[g] EXCEPT !.attempts = @ + 1, !.answer = r]

LastAttempt(g) == gen[g].attempts = MaxRetries

OfferModel(g, r) ==
    /\ r.kind = "typed" /\ Usable(r.candidates, g)
    /\ Step(g, "asking", "offered", [Asked(g, r) EXCEPT !.offer = r.candidates, !.tier = 1])

OfferFloor(g, r) ==
    /\ \/ r.kind = "truncated"
       \/ /\ r.kind = "garbled" \/ (r.kind = "typed" /\ ~Usable(r.candidates, g))
          /\ LastAttempt(g)
    /\ Step(g, "asking", "offered", [Asked(g, r) EXCEPT !.offer = gen[g].floor, !.tier = 0])

Retry(g, r) ==
    /\ r.kind = "garbled" \/ (r.kind = "typed" /\ ~Usable(r.candidates, g))
    /\ ~LastAttempt(g)
    /\ Step(g, "asking", "asking", Asked(g, r))

(* The adapter raises: nothing catches it before the route answers 502.       *)
ProviderFails(g, r) == r.kind = "failed" /\ Step(g, "asking", "failed", Asked(g, r))

Ask(g) == \E r \in Response :
    OfferModel(g, r) \/ OfferFloor(g, r) \/ Retry(g, r) \/ ProviderFails(g, r)

------------------------------------------------------------------------------
(* accept_candidate                                                           *)

AcceptStep(a, from, to, change) ==
    /\ acc[a].pc = from
    /\ acc' = [acc EXCEPT ![a] = [change EXCEPT !.pc = to]]
    /\ UNCHANGED <<editions, gen>>

(* A defect: the domains the candidate was made for are trusted.              *)
ReceiveTrusting(a) == \E g \in Generation, o \in Override :
    /\ gen[g].pc = "offered"
    /\ \E i \in DOMAIN gen[g].offer :
          AcceptStep(a, "idle", "read",
                     [acc[a] EXCEPT !.candidate = gen[g].offer[i], !.at = gen[g].at,
                                    !.names = Scope(o), !.rows = gen[g].bound,
                                    !.since = Len(editions)])
    /\ UNCHANGED stored

(* A defect: the time of publication is read anew.                            *)
ReceiveRestamped(a) == \E g \in Generation, o \in Override :
    /\ gen[g].pc = "offered"
    /\ \E i \in DOMAIN gen[g].offer :
          AcceptStep(a, "idle", "read",
                     [acc[a] EXCEPT !.candidate = gen[g].offer[i], !.at = Len(editions),
                                    !.names = Scope(o), !.rows = Published,
                                    !.since = Len(editions)])
    /\ UNCHANGED stored

(* A candidate comes back from the browser, with or without the names it was  *)
(* generated for; the published parameters are read.                          *)
Receive(a) == \E g \in Generation, o \in Override :
    /\ gen[g].pc = "offered"
    /\ \E i \in DOMAIN gen[g].offer :
          AcceptStep(a, "idle", "read",
                     [acc[a] EXCEPT !.candidate = gen[g].offer[i], !.at = gen[g].at,
                                    !.names = Scope(o), !.rows = Published,
                                    !.since = Len(editions)])
    /\ UNCHANGED stored

(* The rule is classified again and the values validated.                     *)
Admit(a) ==
    /\ Valid(acc[a].candidate.values, Select(acc[a].names, acc[a].rows))
    /\ AcceptStep(a, "read", "valid", acc[a])
    /\ UNCHANGED stored

(* A violation, or the rule is gone.                                          *)
Reject(a) == AcceptStep(a, "read", "rejected", acc[a]) /\ UNCHANGED stored

(* MERGE by the content, SET of everything else.                              *)
State(a) ==
    [values |-> acc[a].candidate.values, strategy |-> acc[a].candidate.strategy,
     at |-> acc[a].at, names |-> acc[a].names, since |-> acc[a].since]

Kept(s) == {t \in stored : t.values # s.values}

Store(a) ==
    /\ AcceptStep(a, "valid", "stored", acc[a])
    /\ stored' = Kept(State(a)) \cup {State(a)}

------------------------------------------------------------------------------
Generate(g) ==
    Classify(g) \/ RuleMissing(g) \/ Refuse(g) \/ SampleFloor(g) \/ Stamp(g) \/ Ask(g)

Accept(a) == Receive(a) \/ Admit(a) \/ Reject(a) \/ Store(a)

(* Every request has been answered.                                           *)
Finished ==
    /\ \A g \in Generation : gen[g].pc \in {"offered", "refused", "failed"}
    /\ UNCHANGED vars

Next ==
    \/ \E e \in Envelope : Publish(e)
    \/ \E g \in Generation : Generate(g)
    \/ \E a \in Acceptance : Accept(a)
    \/ Finished

Spec == Init /\ [][Next]_vars

(* A request runs on: its calls of database and model return or time out.     *)
FairSpec == Spec /\ \A g \in Generation : WF_vars(Generate(g))

------------------------------------------------------------------------------
(* Properties                                                                 *)

Editions == SUBSET Rows
Offers == Seq(Candidates)

Generations ==
    [pc : {"idle", "classified", "sampled", "asking", "offered", "refused", "failed"},
     count : Int, names : SUBSET Nat, limit : Limit, bound : Editions, floor : Offers,
     at : Nat, attempts : 0 .. MaxRetries + 1, answer : Responses,
     offer : Offers, tier : {0, 1}]

Acceptances ==
    [pc : {"idle", "read", "valid", "stored", "rejected"}, names : SUBSET Nat,
     candidate : Candidates, at : Nat, rows : Editions, since : Nat]

States ==
    [values : Assignments, strategy : Strategy, at : Nat, names : SUBSET Nat, since : Nat]

(* The variables hold values of their kinds; a request never makes more than  *)
(* MaxRetries + 1 calls of the model, however its answers alternate between   *)
(* unparsable and unusable (the retry loop of generate_inputs).               *)
TypeOK ==
    /\ editions \in Seq(Editions) /\ editions # <<>>
    /\ gen \in [Generation -> Generations]
    /\ acc \in [Acceptance -> Acceptances]
    /\ stored \subseteq States

(* The guaranteed floor: every Tier 0 candidate names exactly the parameters  *)
(* it was sampled for, and each value whose domain is on its grid passes      *)
(* validate_candidate, whatever the steps and types and however far the       *)
(* rule's limit lies outside, the shifted candidates past the fourth included *)
(* (sample_tier0, _perturb); off the grid a number stays within its bounds.   *)
FloorFits == \A g \in Generation :
    \A i \in DOMAIN gen[g].floor : AllAssured(gen[g].floor[i].values, gen[g].bound)

(* What is offered is what was asked for: the number of candidates of the     *)
(* request; if the model made them, each a valid assignment, no two of one    *)
(* strategy and no two nearly alike; if they are the floor's, each as valid   *)
(* as the domains allow (the guardrails of generate_inputs, on every path     *)
(* that ends in an offer).                                                    *)
OfferFits == \A g \in Generation :
    gen[g].pc = "offered" =>
        /\ Len(gen[g].offer) = gen[g].count
        /\ \A i \in DOMAIN gen[g].offer : AllAssured(gen[g].offer[i].values, gen[g].bound)
        /\ gen[g].tier = 1 => /\ InDomain(gen[g].offer, gen[g].bound)
                              /\ Distinct(gen[g].offer)
                              /\ Diverse(gen[g].offer, gen[g].bound)

(* The floor is the last resort: it is offered only once every retry was      *)
(* spent, or at once for a truncated answer, which a retry would truncate     *)
(* again (generate_inputs).                                                   *)
FloorIsLastResort == \A g \in Generation :
    gen[g].pc = "offered" /\ gen[g].tier = 0 =>
        gen[g].attempts = MaxRetries + 1 \/ gen[g].answer.kind = "truncated"

(* The conservative candidate is conservative: for each numeric parameter     *)
(* whose domain is on its grid, if any value of it satisfies the rule's       *)
(* one-sided limit, the value of the floor's first candidate does, aligned,   *)
(* rounded and clipped as it is (_conservative_value: "furthest inside the    *)
(* constraint").                                                              *)
ConservativeSatisfies == \A g \in Generation :
    LET limit == gen[g].limit
        bound == gen[g].bound
    IN  gen[g].floor # <<>> /\ limit.op \in {"<=", "<", ">=", ">"} =>
            \A id \in Ids(bound) :
                LET r == RowOf(id, bound)
                IN  /\ r.type # "Boolean" /\ OnGrid(r)
                    /\ \E n \in r.lo .. r.hi : Fits(Number(n), r) /\ Satisfies(n, limit)
                    => Satisfies(gen[g].floor[1].values[id].n, limit)

(* No state outside the live domains: what was stored was, when its request   *)
(* was checked, a complete and valid assignment of the parameters published   *)
(* then, although the definition was published again after the candidate was  *)
(* generated (accept_candidate: "never trusting what the client               *)
(* round-tripped").                                                           *)
StoredFits == \A s \in stored :
    /\ s.since \in DOMAIN editions
    /\ Valid(s.values, Select(s.names, editions[s.since]))

(* A stored state is attributed to the generation that made it: its values,   *)
(* its strategy and its time of publication are together those of one         *)
(* candidate that was offered (full_provenance).                              *)
StoredAsOffered == \A s \in stored : \E g \in Generation :
    /\ gen[g].pc = "offered" /\ gen[g].at = s.at
    /\ [strategy |-> s.strategy, values |-> s.values] \in Range(gen[g].offer)

(* A request that was taken up is answered: with candidates, a refusal or an  *)
(* error (the bounded retry loop of generate_inputs).                         *)
Answered == \A g \in Generation :
    gen[g].pc = "classified" ~> gen[g].pc \in {"offered", "refused", "failed"}

================================================================================
