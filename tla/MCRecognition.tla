----------------------------- MODULE MCRecognition -----------------------------
(***************************************************************************)
(* Model-checking instances of Recognition: two small canvases, a language *)
(* model that may answer well or badly in every way the guardrails know.   *)
(***************************************************************************)
EXTENDS Recognition

CONSTANTS m, k, a, b, c, d, ghost, p11, p12, ollama, hosted

(* A hosted provider whose key can be read, and one whose key cannot.         *)
SavedSettings == [provider : {hosted}, readable : BOOLEAN]

Wired(pairs) == {[from |-> w[1], to |-> w[2], port |-> 0] : w \in pairs}

TagOf(at, kind, proc, members) ==
    [at |-> at, kind |-> kind, proc |-> proc, members |-> members, status |-> "tagged"]

Widgets == [n \in Node |-> CASE n = a -> "Slider" [] n = c -> "Value" [] n = d -> "Relay"
                             [] OTHER -> "None"]

(* Two procedures; Tier 0 decides the slider a and the sink b, not the source *)
(* c, nor the relay d between the procedures.                                 *)
Shared ==
    [nodes |-> {m, k, a, b, c, d},
     wires |-> Wired({<<a, m>>, <<m, b>>, <<c, m>>, <<m, d>>, <<d, k>>}),
     widget |-> Widgets,
     groups |-> {TagOf(0, "Proc", p11, {m}), TagOf(1, "Proc", p12, {k})}]

(* One procedure with members and one without; Tier 0 decides everything.     *)
Decidable ==
    [nodes |-> {m, a, b, c},
     wires |-> Wired({<<a, m>>, <<m, b>>}),
     widget |-> Widgets,
     groups |-> {TagOf(0, "Proc", p11, {m}), TagOf(1, "Var", p12, {c})}]

TwoCanvases == {Shared, Decidable}
Groupings ==
    {[kind |-> "Other", proc |-> p11, members |-> {b, c}],
     [kind |-> "Proc", proc |-> p11, members |-> {d}],
     [kind |-> "Pat", proc |-> p12, members |-> {c}]}

Proposal(members, low, cites, sound) ==
    [kind |-> "Pat", proc |-> p11, members |-> members, low |-> low, cites |-> cites,
     sound |-> sound]

Plain == {Proposal(s, FALSE, FALSE, TRUE) : s \in {{c}, {d}, {a}, {m}, {ghost}}}

Faulty == {Proposal({c}, TRUE, FALSE, TRUE), Proposal({d}, FALSE, TRUE, TRUE),
           Proposal({c}, FALSE, FALSE, FALSE)}

(* No proposal, one, or two sound ones.                                       *)
Lists == {<<>>} \cup {<<p>> : p \in Plain \cup Faulty}
             \cup {<<p, q>> : p \in {q \in Plain : q.members = {c}},
                             q \in {q \in Plain : q.members \subseteq {c, d}}}

Answering(proposals, unrecognized) ==
    {[kind |-> "typed", proposals |-> s, unrecognized |-> u] :
        s \in proposals, u \in unrecognized}

Silent(kinds) == {[kind |-> n, proposals |-> <<>>, unrecognized |-> {}] : n \in kinds}

AnyAnswer ==
    Answering(Lists, {{}, {{c}, {d}}, {{ghost}}})
        \cup Silent({"truncated", "refusal", "garbled"})

================================================================================
