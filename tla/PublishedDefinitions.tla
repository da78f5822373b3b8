------------------------- MODULE PublishedDefinitions -------------------------
(***************************************************************************)
(* What POST /computgraph/publish promises the sessions that share a       *)
(* definition: publishes take effect one at a time, each whole and at once *)
(* between its arrival and its answer. What a definition holds only grows. *)
(* An answered publish names what the definition held beyond its own rows; *)
(* a failed one may or may not have taken effect. ComputgraphPublish       *)
(* implements this with transactions that interleave statement by          *)
(* statement. A row is the label and the key its node is merged on; how    *)
(* many nodes bear them, and their relationships, are not promised.        *)
(***************************************************************************)

CONSTANTS
    Request,     \* publish requests
    Definition,  \* definition ids
    Payload,     \* what may be sent: a definition and rows <<label, key>>
    Listed,      \* labels whose keys a stale list names
    Nothing      \* no payload

VARIABLES phase, payload, held, listed
promiseVars == <<phase, payload, held, listed>>

Init ==
    /\ phase = [r \in Request |-> "idle"]
    /\ payload = [r \in Request |-> Nothing]
    /\ held = [d \in Definition |-> {}]
    /\ listed = [r \in Request |-> {}]

Accept(r, p) ==
    /\ phase[r] = "idle"
    /\ phase' = [phase EXCEPT ![r] = "writing"]
    /\ payload' = [payload EXCEPT ![r] = p]
    /\ UNCHANGED <<held, listed>>

Refuse(r) ==
    /\ phase[r] = "idle"
    /\ phase' = [phase EXCEPT ![r] = "invalid"]
    /\ UNCHANGED <<payload, held, listed>>

TakeEffect(r) ==
    /\ phase[r] = "writing"
    /\ phase' = [phase EXCEPT ![r] = "committed"]
    /\ held' = [held EXCEPT ![payload[r].def] = @ \cup payload[r].rows]
    /\ UNCHANGED <<payload, listed>>

KeysOf(rows) == {row[2] : row \in {x \in rows : x[1] \in Listed}}

Report(r) ==
    /\ phase[r] = "committed"
    /\ phase' = [phase EXCEPT ![r] = "published"]
    /\ listed' = [listed EXCEPT ![r] = KeysOf(held[payload[r].def]) \ KeysOf(payload[r].rows)]
    /\ UNCHANGED <<payload, held>>

(* Before it takes effect or after.                                           *)
Fail(r) ==
    /\ phase[r] \in {"writing", "committed"}
    /\ phase' = [phase EXCEPT ![r] = "failed"]
    /\ UNCHANGED <<payload, held, listed>>

Next ==
    \E r \in Request :
        (\E p \in Payload : Accept(r, p)) \/ Refuse(r) \/ TakeEffect(r) \/ Report(r) \/ Fail(r)

Spec == Init /\ [][Next]_promiseVars
===============================================================================
