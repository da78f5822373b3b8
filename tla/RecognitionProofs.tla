--------------------------- MODULE RecognitionProofs ---------------------------
(***************************************************************************)
(* Theorems about Recognition: for every canvas, every model answer and    *)
(* every bound, what is offered for preview is typed, complete, disjoint,  *)
(* attributed and made by the provider it names.                           *)
(***************************************************************************)
EXTENDS Recognition, TLAPS

RuleKind == {"Var", "Const", "Emg", "IntF"}

(* A Tier-0 row is a row for a candidate that one rule fits and that is wired *)
(* to one procedure.                                                          *)
LEMMA DecidedRow ==
    ASSUME NEW c, NEW S, NEW r \in Decided(c, S)
    PROVE  \E k \in RuleKind, p \in Procedure, n \in S :
               r = Row(k, p, n) /\ Rules(c, n)[k] /\ Adjacent(c, n) = {p}
<1>1. PICK n \in S : \E k \in {k \in DOMAIN Rules(c, n) : Rules(c, n)[k]},
                       p \in {p \in Procedure : Attributed(c, n, p)} : r = Row(k, p, n)
  BY DEF Decided
<1>2. DOMAIN Rules(c, n) = RuleKind
  BY DEF Rules, RuleKind
<1>. QED
  BY <1>1, <1>2 DEF Attributed

(* At most one rule fits a node.                                              *)
LEMMA RulesExclude ==
    ASSUME NEW c, NEW n, NEW j \in RuleKind, NEW k \in RuleKind,
           Rules(c, n)[j], Rules(c, n)[k]
    PROVE  j = k
<1>. DEFINE in == InDegree(c, n)
            out == OutDegree(c, n)
            widget == c.widget[n]
            crowded == Crowded(c, n)
<1>1. Rules(c, n).Var => in = 0 /\ widget \in {"Slider", "ValueList", "Boolean"}
  BY DEF Rules
<1>2. Rules(c, n).Const => in = 0 /\ out > 0 /\ widget \in {"Panel", "Relay", "None"}
  BY DEF Rules
<1>3. Rules(c, n).Emg => out = 0 /\ in > 0
  BY DEF Rules
<1>4. Rules(c, n).IntF => in = 1 /\ out = 1
  BY DEF Rules
<1>. HIDE DEF in, out, widget, crowded
<1>. QED
  BY <1>1, <1>2, <1>3, <1>4 DEF RuleKind

(* Two Tier-0 rows never share a node.                                        *)
LEMMA RowsApart ==
    ASSUME NEW c, NEW S, NEW q \in Decided(c, S), NEW r \in Decided(c, S), q # r
    PROVE  q.members \cap r.members = {}
<1>1. PICK j \in RuleKind, p \in Procedure, m \in S :
               q = Row(j, p, m) /\ Rules(c, m)[j] /\ Adjacent(c, m) = {p}
  BY DecidedRow
<1>2. PICK k \in RuleKind, o \in Procedure, n \in S :
               r = Row(k, o, n) /\ Rules(c, n)[k] /\ Adjacent(c, n) = {o}
  BY DecidedRow
<1>3. q.members = {m} /\ r.members = {n}
  BY <1>1, <1>2 DEF Row
<1>4. ASSUME m = n PROVE FALSE
  <2>1. j = k
    BY <1>1, <1>2, <1>4, RulesExclude
  <2>2. p = o
    BY <1>1, <1>2, <1>4
  <2>. QED
    BY <1>1, <1>2, <1>4, <2>1, <2>2
<1>. QED
  BY <1>3, <1>4

(* Tier-0 rows name candidates only.                                          *)
LEMMA RowsInScope ==
    ASSUME NEW c, NEW S
    PROVE  MembersIn(Decided(c, S)) \subseteq S
<1>1. ASSUME NEW r \in Decided(c, S) PROVE r.members \subseteq S
  BY DecidedRow DEF Row
<1>. QED
  BY <1>1 DEF MembersIn

(* Tier 0 decides proposals (classify).                                       *)
LEMMA RowsTyped ==
    ASSUME NEW c, NEW S \in SUBSET Node
    PROVE  Decided(c, S) \subseteq Proposals
<1>1. ASSUME NEW k \in RuleKind, NEW p \in Procedure, NEW n \in Node
      PROVE  Row(k, p, n) \in Proposals
  BY DEF Row, RuleKind, Proposals, Kind
<1>. QED
  BY <1>1, DecidedRow

(* Candidates are nodes of the canvas that no entity owns.                    *)
LEMMA CandidatesFree ==
    ASSUME NEW c, NEW p
    PROVE  /\ Candidates(c, p) \subseteq c.nodes \ Claimed(c)
           /\ Candidates(c, p) \subseteq c.nodes \ Tagged(c)
<1>1. Candidates(c, p) \subseteq c.nodes \ Claimed(c)
  BY DEF Candidates, Untagged
<1>2. Tagged(c) \subseteq Claimed(c)
  BY DEF Tagged, Claimed, Founding
<1>. QED
  BY <1>1, <1>2

------------------------------------------------------------------------------
(* A run's rows are Tier 0's decision about the submitted canvas, or none.    *)
RunInv ==
    /\ rows = {} \/ (rows = Decided(ctx, Candidates(ctx, scope)))
    /\ phase \in {"asking", "tier0", "valid"} =>
          /\ rows = Decided(ctx, Candidates(ctx, scope))
          /\ residual = Candidates(ctx, scope) \ MembersIn(rows)
    /\ phase # "valid" => answer = NoAnswer
    /\ phase = "tier0" => residual = {}

(* The budget: while the loop asks, there is a call left.                     *)
BudgetInv == phase = "asking" => Len(calls) <= MaxRetries

Parts == NeverDropped /\ SafeToPreview /\ OneProvider

Inv == TypeOK /\ RunInv /\ BudgetInv /\ Parts

(* No request was made.                                                       *)
LEMMA InitInv == Init => Inv
<1>. SUFFICES ASSUME Init PROVE Inv
  OBVIOUS
<1>. USE DEF Init
<1>1. TypeOK
  <2>1. canvas \in Canvases /\ drawn \in 1 .. MaxDrawn + 1 /\ settings \in Saved
    BY CanvasAssumption, BoundsAssumption
  <2>2. /\ DOMAIN answer.model \subseteq Nat \ {0} /\ Listed(answer.model) \subseteq Proposals
        /\ answer.unrecognized \subseteq SUBSET Node
    BY DEF NoAnswer, Listed
  <2>3. calls \in Seq(Provider)
    OBVIOUS
  <2>6. corrected \in BOOLEAN
    BY Zenon
  <2>4. rows \subseteq Proposals /\ residual \subseteq Node /\ scope \in Procedure \cup {None}
    OBVIOUS
  <2>5. phase = "idle"
    OBVIOUS
  <2>. HIDE DEF Init
  <2>. QED
    BY <2>1, <2>2, <2>3, <2>4, <2>5, <2>6 DEF TypeOK
<1>2. RunInv /\ BudgetInv
  BY DEF RunInv, BudgetInv
<1>3. NeverDropped /\ SafeToPreview
  BY DEF NeverDropped, SafeToPreview, Answered
<1>4. OneProvider
  BY BoundsAssumption DEF OneProvider, NoAnswer, Listed
<1>. QED
  BY <1>1, <1>2, <1>3, <1>4 DEF Inv, Parts
------------------------------------------------------------------------------
(* Types are kept.                                                            *)
LEMMA PlaceNatural == ASSUME drawn \in Nat, NEW i \in Nat PROVE Place(i) \in Nat
<1>1. MaxProposals + 1 \in Nat
  BY BoundsAssumption
<1>2. \A x, y \in Nat : x * y + i \in Nat
  OBVIOUS
<1>. QED
  BY <1>1, <1>2 DEF Place

(* A canvas with other groups is a canvas.                                    *)
LEMMA RedrawTyped ==
    ASSUME canvas \in Canvases, NEW groups, groups \subseteq Groups, Redraw(groups)
    PROVE  canvas' \in Canvases
  BY DEF Redraw, Canvases

(* A confirmed proposal becomes a group.                                      *)
LEMMA GroupTyped ==
    ASSUME drawn \in Nat, NEW p \in Proposals, NEW i \in Nat
    PROVE  GroupOf(p, i) \in Groups
  BY PlaceNatural DEF GroupOf, Groups, Proposals

(* The document changes, the run does not.                                    *)
RunUnchanged == UNCHANGED <<phase, run, calls, corrected, answer>>

(* What the architect does changes the document only.                         *)
LEMMA ArchitectTyped ==
    ASSUME TypeOK, Architect
    PROVE  /\ canvas' \in Canvases /\ drawn' \in 1 .. MaxDrawn + 1
           /\ settings' = settings /\ RunUnchanged
<1>0. canvas \in Canvases /\ canvas.groups \subseteq Groups /\ drawn \in Nat /\ drawn >= 1
      /\ drawn <= MaxDrawn + 1 /\ MaxDrawn \in Nat
  BY BoundsAssumption DEF TypeOK, Canvases
<1>1. ASSUME NEW g \in UserGroup, Tag(g)
      PROVE  canvas' \in Canvases /\ drawn' \in 1 .. MaxDrawn + 1
             /\ settings' = settings /\ RunUnchanged
  <2>1. [at |-> Place(0), kind |-> g.kind, proc |-> g.proc, members |-> g.members,
         status |-> "tagged"] \in Groups
    BY <1>0, PlaceNatural, CanvasAssumption DEF Groups
  <2>. QED
    BY <1>0, <1>1, <2>1, RedrawTyped DEF Tag, RunUnchanged
<1>2. ASSUME Preview
      PROVE  canvas' \in Canvases /\ drawn' \in 1 .. MaxDrawn + 1
             /\ settings' = settings /\ RunUnchanged
  <2>1. {GroupOf(p, 0) : p \in rows} \subseteq Groups
    BY <1>0, GroupTyped DEF TypeOK
  <2>2. ASSUME NEW i \in DOMAIN answer.model PROVE GroupOf(answer.model[i], i) \in Groups
    <3>1. i \in Nat /\ answer.model[i] \in Proposals
      BY DEF TypeOK, Listed
    <3>. QED
      BY <1>0, <3>1, GroupTyped
  <2>. QED
    BY <1>0, <1>2, <2>1, <2>2, RedrawTyped DEF Preview, RunUnchanged
<1>3. ASSUME NEW g \in canvas.groups, Confirm(g)
      PROVE  canvas' \in Canvases /\ drawn' \in 1 .. MaxDrawn + 1
             /\ settings' = settings /\ RunUnchanged
  <2>1. [g EXCEPT !.status = "recognized"] \in Groups
    BY <1>0 DEF Groups
  <2>. QED
    BY <1>0, <1>3, <2>1, RedrawTyped DEF Confirm, RunUnchanged
<1>4. ASSUME NEW g \in canvas.groups, Reject(g)
      PROVE  canvas' \in Canvases /\ drawn' \in 1 .. MaxDrawn + 1
             /\ settings' = settings /\ RunUnchanged
  BY <1>0, <1>4, RedrawTyped DEF Reject, RunUnchanged
<1>. QED
  BY <1>1, <1>2, <1>3, <1>4 DEF Architect

(* A step beside the run keeps the invariant.                                 *)
LEMMA RunKept ==
    ASSUME Inv, canvas' \in Canvases, drawn' \in 1 .. MaxDrawn + 1, settings' \in Saved,
           RunUnchanged
    PROVE  Inv'
<1>. USE DEF RunUnchanged, run
<1>1. TypeOK'
  BY DEF Inv, TypeOK
<1>2. RunInv' /\ BudgetInv'
  BY DEF Inv, RunInv, BudgetInv, NoAnswer
<1>3. NeverDropped' /\ SafeToPreview'
  BY DEF Inv, Parts, NeverDropped, SafeToPreview, Answered
<1>4. OneProvider'
  BY DEF Inv, Parts, OneProvider
<1>. QED
  BY <1>1, <1>2, <1>3, <1>4 DEF Inv, Parts

------------------------------------------------------------------------------
(* Tier 0 alone is complete and safe, though no validator looks at it.        *)
LEMMA TierZero ==
    ASSUME NEW c \in Canvases, NEW p
    PROVE  LET decided == Decided(c, Candidates(c, p)) IN
           /\ Candidates(c, p) \subseteq Node /\ decided \subseteq Proposals
           /\ MembersIn(decided) \subseteq c.nodes \ Tagged(c)
           /\ \A q, r \in decided : q # r => q.members \cap r.members = {}
<1>1. Candidates(c, p) \subseteq Node
  BY CandidatesFree DEF Canvases
<1>. QED
  BY <1>1, RowsTyped, RowsInScope, CandidatesFree, RowsApart

(* resolve_active_provider gives a provider.                                  *)
LEMMA ResolvedProvider == ASSUME settings \in Saved PROVE Resolve(settings) \in Provider
  BY BoundsAssumption DEF Resolve, Settings

(* A request starts with Tier 0's rows and all its calls                      *)
(* (recognize_structure).                                                     *)
LEMMA RequestInv == ASSUME Inv, NEW p \in Procedure \cup {None}, Request(p) PROVE Inv'
<1>. DEFINE decided == Decided(canvas, Candidates(canvas, p))
<1>0. /\ ctx' = canvas /\ scope' = p /\ calls' = <<>> /\ corrected' = FALSE /\ answer' = NoAnswer
      /\ canvas' = canvas /\ drawn' = drawn /\ settings' = settings
  BY DEF Request
<1>1. \/ /\ phase' = "empty_scope" /\ rows' = {} /\ residual' = {}
      \/ /\ phase' \in {"tier0", "asking"} /\ rows' = decided
         /\ residual' = Candidates(canvas, p) \ MembersIn(decided)
         /\ phase' = "tier0" => residual' = {}
         /\ phase' = "asking" => provider' = Resolve(settings)
  BY DEF Request
<1>2. /\ canvas \in Canvases /\ settings \in Saved /\ drawn \in 1 .. MaxDrawn + 1
      /\ MaxRetries \in Nat
  BY BoundsAssumption DEF Inv, TypeOK
<1>3. /\ Candidates(canvas, p) \subseteq Node /\ decided \subseteq Proposals
      /\ MembersIn(decided) \subseteq canvas.nodes \ Tagged(canvas)
      /\ \A q, r \in decided : q # r => q.members \cap r.members = {}
  BY <1>2, TierZero
<1>4. /\ answer'.model = <<>> /\ answer'.unrecognized = {}
      /\ DOMAIN answer'.model = {} /\ Listed(answer'.model) = {}
  BY <1>0 DEF NoAnswer, Listed
<1>. HIDE DEF decided
<1>5. TypeOK'
  <2>1. canvas' \in Canvases /\ drawn' \in 1 .. MaxDrawn + 1 /\ settings' \in Saved
    BY <1>0, <1>2
  <2>2. /\ phase' \in {"asking", "tier0", "empty_scope"} /\ ctx' \in Canvases
        /\ scope' \in Procedure \cup {None}
        /\ phase' = "asking" => provider' \in Provider
    BY <1>0, <1>1, <1>2, ResolvedProvider
  <2>3. rows' \subseteq Proposals /\ residual' \subseteq Node
    BY <1>1, <1>3
  <2>4. calls' \in Seq(Provider)
    BY <1>0
  <2>6. corrected' \in BOOLEAN
    BY <1>0, Zenon
  <2>5. /\ DOMAIN answer'.model \subseteq Nat \ {0} /\ Listed(answer'.model) \subseteq Proposals
        /\ answer'.unrecognized \subseteq SUBSET Node
    BY <1>4
  <2>. QED
    BY <2>1, <2>2, <2>3, <2>4, <2>5, <2>6 DEF TypeOK
<1>. USE DEF decided
<1>6. RunInv' /\ BudgetInv'
  <2>1. rows' = {} \/ rows' = Decided(ctx', Candidates(ctx', scope'))
    BY <1>0, <1>1
  <2>2. phase' \in {"asking", "tier0", "valid"} =>
           /\ rows' = Decided(ctx', Candidates(ctx', scope'))
           /\ residual' = Candidates(ctx', scope') \ MembersIn(rows')
    BY <1>0, <1>1
  <2>3. BudgetInv'
    BY <1>0, <1>2 DEF BudgetInv
  <2>4. (phase' # "valid" => answer' = NoAnswer) /\ (phase' = "tier0" => residual' = {})
    BY <1>0, <1>1
  <2>. QED
    BY <2>1, <2>2, <2>3, <2>4 DEF RunInv, NoAnswer
<1>7. NeverDropped'
  <2>1. phase' = "tier0" => Candidates(canvas, p) \subseteq MembersIn(decided)
    BY <1>1
  <2>2. phase' # "valid"
    BY <1>1
  <2>3. phase' = "tier0" => rows' = decided
    BY <1>1
  <2>. QED
    BY <1>0, <2>1, <2>2, <2>3 DEF NeverDropped, Answered
<1>8. SafeToPreview'
  <2>1. phase' \in {"tier0", "valid"} => rows' = decided
    BY <1>1
  <2>2. MembersIn(Listed(answer'.model)) = {}
    BY <1>4 DEF MembersIn
  <2>. QED
    BY <1>0, <1>3, <1>4, <2>1, <2>2 DEF SafeToPreview, Answered
<1>9. OneProvider'
  BY <1>0, <1>1, <1>2, <1>4 DEF OneProvider
<1>. QED
  BY <1>5, <1>6, <1>7, <1>8, <1>9 DEF Inv, Parts
------------------------------------------------------------------------------
(* The loop.                                                                  *)

(* What a turn keeps and counts.                                              *)
LEMMA CallCounts ==
    ASSUME Inv, phase = "asking", Call
    PROVE  /\ UNCHANGED <<canvas, drawn, settings, run>>
           /\ calls' \in Seq(Provider) /\ Len(calls') \in Nat
           /\ Len(calls') = Len(calls) + 1 /\ Len(calls') <= MaxRetries + 1
           /\ calls' # <<>> /\ \A i \in DOMAIN calls' : calls'[i] = provider
<1>1. provider \in Provider /\ calls \in Seq(Provider) /\ MaxRetries \in Nat
  BY BoundsAssumption DEF Inv, TypeOK
<1>2. calls' = Append(calls, provider) /\ UNCHANGED <<canvas, drawn, settings, run>>
  BY DEF Call, Called
<1>3. Len(calls) <= MaxRetries /\ \A i \in DOMAIN calls : calls[i] = provider
  BY DEF Inv, BudgetInv, Parts, OneProvider
<1>4. calls' \in Seq(Provider) /\ Len(calls') = Len(calls) + 1 /\ Len(calls) \in Nat
  BY <1>1, <1>2
<1>5. \A i \in DOMAIN calls' : calls'[i] = provider
  BY <1>1, <1>2, <1>3
<1>. QED
  BY <1>1, <1>2, <1>3, <1>4, <1>5

(* A turn that offers nothing: it asks again while the budget lasts.          *)
LEMMA NoOffer ==
    ASSUME Inv, phase = "asking", Call, UNCHANGED answer, corrected' \in BOOLEAN,
           phase' \in {"asking", "invalid", "failed"}, phase' = "asking" => ~Final
    PROVE  Inv'
<1>0. /\ UNCHANGED <<canvas, drawn, settings, run>>
      /\ calls' \in Seq(Provider) /\ Len(calls') \in Nat
      /\ Len(calls') = Len(calls) + 1 /\ Len(calls') <= MaxRetries + 1
      /\ calls' # <<>> /\ \A i \in DOMAIN calls' : calls'[i] = provider
  BY CallCounts
<1>1. TypeOK'
  BY <1>0 DEF Inv, TypeOK, run
<1>2. RunInv'
  BY <1>0 DEF Inv, RunInv, run, NoAnswer
<1>3. BudgetInv'
  <2>1. Len(calls) <= MaxRetries /\ Len(calls) \in Nat /\ MaxRetries \in Nat
    BY BoundsAssumption DEF Inv, BudgetInv, TypeOK
  <2>. QED
    BY <1>0, <2>1 DEF BudgetInv, Final
<1>4. NeverDropped' /\ SafeToPreview'
  BY DEF NeverDropped, SafeToPreview, Answered
<1>5. OneProvider'
  BY <1>0 DEF OneProvider, run
<1>. QED
  BY <1>1, <1>2, <1>3, <1>4, <1>5 DEF Inv, Parts
(* A validated answer.                                                        *)
LEMMA Offer ==
    ASSUME Inv, phase = "asking", NEW r \in Response, Judged(r), phase' = "valid"
    PROVE  Inv'
<1>. DEFINE s == r.proposals
            entries == r.unrecognized \cup {{n} : n \in Unaddressed(r)}
            kept == {j \in DOMAIN s : ~s[j].low}
<1>0. /\ Call /\ Valid(s, entries) /\ answer' = Demote(s, entries) /\ UNCHANGED corrected
  BY DEF Judged, Retry
<1>1. /\ UNCHANGED <<canvas, drawn, settings, run>>
      /\ calls' \in Seq(Provider) /\ Len(calls') \in Nat
      /\ Len(calls') = Len(calls) + 1 /\ Len(calls') <= MaxRetries + 1
      /\ calls' # <<>> /\ \A i \in DOMAIN calls' : calls'[i] = provider
  BY <1>0, CallCounts
<1>2. /\ s \in Seq(Proposals) /\ r.unrecognized \subseteq SUBSET Node
      /\ residual \subseteq Node /\ ctx \in Canvases
  BY ResponseAssumption DEF Responses, Inv, TypeOK
<1>3. entries \subseteq SUBSET Node
  BY <1>2 DEF Unaddressed
<1>4. /\ answer'.model = [i \in kept |-> s[i]]
      /\ answer'.unrecognized = entries \cup {s[i].members : i \in {j \in DOMAIN s : s[j].low}}
  BY <1>0 DEF Demote
<1>5. /\ DOMAIN answer'.model = kept /\ \A i \in kept : answer'.model[i] = s[i]
      /\ kept \subseteq DOMAIN s /\ DOMAIN s \subseteq Nat \ {0}
      /\ \A i \in DOMAIN s : s[i] \in Proposals
  BY <1>2, <1>4
<1>6. /\ RunInv /\ phase = "asking"
      /\ rows = Decided(ctx, Candidates(ctx, scope))
      /\ residual = Candidates(ctx, scope) \ MembersIn(rows)
  BY DEF Inv, RunInv
<1>. HIDE DEF entries, kept, s
<1>7. TypeOK'
  <2>1. DOMAIN answer'.model \subseteq Nat \ {0}
    BY <1>5
  <2>2. Listed(answer'.model) \subseteq Proposals
    BY <1>5 DEF Listed
  <2>3. answer'.unrecognized \subseteq SUBSET Node
    <3>1. \A i \in DOMAIN s : s[i].members \in SUBSET Node
      BY <1>5 DEF Proposals
    <3>. QED
      BY <1>3, <1>4, <3>1
  <2>. QED
    BY <1>0, <1>1, <2>1, <2>2, <2>3 DEF Inv, TypeOK, run
<1>8. RunInv' /\ BudgetInv'
  BY <1>1, <1>6 DEF RunInv, BudgetInv, run
<1>9. NeverDropped'
  <2>1. ASSUME NEW n \in Candidates(ctx, scope), n \notin MembersIn(rows)
        PROVE  \/ n \in MembersIn(Listed(answer'.model))
               \/ n \in UNION answer'.unrecognized
    <3>1. n \in residual
      BY <1>6, <2>1
    <3>2. CASE n \in UNION entries
      BY <1>4, <3>2
    <3>3. CASE n \in MembersIn(Listed(s))
      <4>1. PICK i \in DOMAIN s : n \in s[i].members
        BY <3>3 DEF MembersIn, Listed
      <4>2. CASE s[i].low
        BY <1>4, <4>1, <4>2
      <4>3. CASE ~s[i].low
        <5>1. i \in kept /\ answer'.model[i] = s[i]
          BY <1>5, <4>3 DEF kept
        <5>2. s[i] \in Listed(answer'.model)
          BY <1>5, <5>1 DEF Listed
        <5>. QED
          BY <4>1, <5>2 DEF MembersIn
      <4>. QED
        BY <4>2, <4>3
    <3>4. n \in MembersIn(Listed(s)) \/ n \in UNION entries
      BY <3>1 DEF entries, s, Unaddressed
    <3>. QED
      BY <3>2, <3>3, <3>4
  <2>. QED
    BY <1>1, <2>1 DEF NeverDropped, run
<1>10. SafeToPreview'
  <2>1. /\ MembersIn(rows) \subseteq ctx.nodes \ Tagged(ctx)
        /\ \A q, t \in rows : q # t => q.members \cap t.members = {}
    BY <1>2, <1>6, TierZero
  <2>2. /\ \A i \in DOMAIN s : s[i].members \subseteq ctx.nodes \ Tagged(ctx)
        /\ Disjoint(s)
    BY <1>0 DEF Valid
  <2>3. MembersIn(Listed(answer'.model)) \subseteq ctx.nodes \ Tagged(ctx)
    BY <1>5, <2>2 DEF MembersIn, Listed
  <2>4. \A i \in DOMAIN answer'.model :
           /\ answer'.model[i].members \cap MembersIn(rows) = {}
           /\ \A j \in DOMAIN answer'.model :
                 i # j => answer'.model[i].members \cap answer'.model[j].members = {}
    BY <1>5, <2>2 DEF Disjoint
  <2>5. rows' = rows /\ ctx' = ctx
    BY <1>1 DEF run
  <2>. QED
    BY <2>1, <2>3, <2>4, <2>5 DEF SafeToPreview
<1>11. OneProvider'
  BY <1>1 DEF OneProvider, run
<1>. QED
  BY <1>7, <1>8, <1>9, <1>10, <1>11 DEF Inv, Parts

(* One turn of the loop keeps the invariant, whichever way it ends.           *)
LEMMA AttemptInv == ASSUME Inv, Attempt PROVE Inv'
<1>0. phase = "asking" /\ corrected \in BOOLEAN
  BY DEF Attempt, Inv, TypeOK
<1>1. CASE ProviderFails
  BY <1>0, <1>1, NoOffer DEF ProviderFails
<1>2. ASSUME NEW r \in Response, Stopped(r) PROVE Inv'
  BY <1>0, <1>2, NoOffer DEF Stopped
<1>3. ASSUME NEW r \in Response, Garbled(r) PROVE Inv'
  BY <1>0, <1>3, NoOffer DEF Garbled, Retry
<1>4. ASSUME NEW r \in Response, Filtered(r) PROVE Inv'
  <2>1. Call /\ UNCHANGED answer /\ corrected' \in BOOLEAN
    BY <1>0, <1>4 DEF Filtered
  <2>2. phase' \in {"asking", "invalid"} /\ (phase' = "asking" => ~Final)
    BY <1>4 DEF Filtered
  <2>. QED
    BY <1>0, <2>1, <2>2, NoOffer
<1>5. ASSUME NEW r \in Response, Incomplete(r) PROVE Inv'
  BY <1>0, <1>5, NoOffer DEF Incomplete, Retry
<1>6. ASSUME NEW r \in Response, Judged(r) PROVE Inv'
  <2>1. CASE phase' = "valid"
    BY <1>0, <1>6, <2>1, Offer DEF Judged
  <2>2. CASE phase' # "valid"
    <3>1. Call /\ Retry
      BY <1>6, <2>2 DEF Judged
    <3>. QED
      BY <1>0, <3>1, NoOffer DEF Retry
  <2>. QED
    BY <2>1, <2>2
<1>. QED
  BY <1>1, <1>2, <1>3, <1>4, <1>5, <1>6 DEF Attempt

------------------------------------------------------------------------------
(* Every step keeps the invariant.                                            *)
LEMMA NextInv == ASSUME Inv, [Next]_vars PROVE Inv'
<1>0. canvas \in Canvases /\ drawn \in 1 .. MaxDrawn + 1 /\ settings \in Saved
  BY DEF Inv, TypeOK
<1>1. CASE SaveSettings
  BY <1>0, <1>1, RunKept DEF SaveSettings, RunUnchanged
<1>2. ASSUME NEW p \in Procedure \cup {None}, Request(p) PROVE Inv'
  BY <1>2, RequestInv
<1>3. CASE Attempt
  BY <1>3, AttemptInv
<1>4. CASE Architect
  <2>1. TypeOK
    BY DEF Inv
  <2>. QED
    BY <1>0, <1>4, <2>1, ArchitectTyped, RunKept
<1>5. CASE UNCHANGED vars
  BY <1>0, <1>5, RunKept DEF vars, RunUnchanged, run
<1>. QED
  BY <1>1, <1>2, <1>3, <1>4, <1>5 DEF Next

(* The invariant holds in every state.                                        *)
LEMMA InvAlways == Spec => []Inv
<1>. QED
  BY InitInv, NextInv, PTL DEF Spec

(* The types hold, and a run has a provider while it asks.                    *)
THEOREM TypeCorrect == Spec => []TypeOK
<1>1. Inv => TypeOK
  BY DEF Inv
<1>. QED
  BY <1>1, InvAlways, PTL

(* No candidate is dropped, whatever the model answers.                       *)
THEOREM NothingDropped == Spec => []NeverDropped
<1>1. Inv => NeverDropped
  BY DEF Inv, Parts
<1>. QED
  BY <1>1, InvAlways, PTL

(* What is offered for preview is known, untagged and in one proposal.        *)
THEOREM OffersAreSafe == Spec => []SafeToPreview
<1>1. Inv => SafeToPreview
  BY DEF Inv, Parts
<1>. QED
  BY <1>1, InvAlways, PTL

(* Tier-0 rows belong to the one procedure their node is wired to.            *)
THEOREM RowsAttributed == Spec => []RowsOwnTheirProcedure
<1>1. Inv => RowsOwnTheirProcedure
  <2>. SUFFICES ASSUME Inv, NEW r \in rows
                PROVE  /\ scope \in {None, r.proc}
                       /\ \A n \in r.members : Adjacent(ctx, n) = {r.proc}
    BY DEF RowsOwnTheirProcedure
  <2>1. r \in Decided(ctx, Candidates(ctx, scope)) /\ scope \in Procedure \cup {None}
    BY DEF Inv, RunInv, TypeOK
  <2>2. PICK k \in RuleKind, p \in Procedure, n \in Candidates(ctx, scope) :
                r = Row(k, p, n) /\ Rules(ctx, n)[k] /\ Adjacent(ctx, n) = {p}
    BY <2>1, DecidedRow
  <2>3. r.proc = p /\ r.members = {n}
    BY <2>2 DEF Row
  <2>4. scope = None \/ scope \in Adjacent(ctx, n)
    BY <2>1 DEF Candidates
  <2>. QED
    BY <2>2, <2>3, <2>4
<1>. QED
  BY <1>1, InvAlways, PTL

(* One provider makes all calls of a run, within the budget.                  *)
THEOREM ProviderStays == Spec => []OneProvider
<1>1. Inv => OneProvider
  BY DEF Inv, Parts
<1>. QED
  BY <1>1, InvAlways, PTL
================================================================================
