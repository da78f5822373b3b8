---------------------------- MODULE MCDsavWatcher ----------------------------
(* Instances of DsavWatcher for TLC.                                          *)
EXTENDS DsavWatcher, TLC

CONSTANTS p1, r1, r2, r3, t1

OneProject  == {p1}
TwoRuns     == {r1, r2}
ThreeRuns   == {r1, r2, r3}
OneThread   == {t1}

AllOfP1   == [r \in Run |-> p1]

Config(enabled, publish, debounce, limit, maxAttempts) ==
    [enabled |-> enabled, publish |-> publish, debounce |-> debounce,
     limit |-> limit, maxAttempts |-> maxAttempts]

Publishing   == {Config(TRUE, TRUE, 1, 1, 2)}
Reconfigured == {Config(TRUE, TRUE, 1, 1, 2), Config(FALSE, FALSE, 0, 1, 1)}
(* For liveness the clock must not stop. Past MaxTime it stands still and      *)
(* every recorded time moves into the past instead; a time too old to matter   *)
(* to any age the code computes is held at the edge of the horizon.            *)
Earlier(time, floor) == IF time > floor THEN time - 1 ELSE floor

SlideClock ==
    /\ now = MaxTime
    /\ capturedAt' = [r \in Run |-> Earlier(capturedAt[r], -Window)]
    /\ completedAt' = [r \in Run |-> Earlier(completedAt[r], 0)]
    /\ tickNow' = [t \in Thread |-> Earlier(tickNow[t], 0)]
    /\ window' = [p \in Project |->
                     {[e EXCEPT !.at = Earlier(@, -Window)] : e \in window[p]}]
    /\ UNCHANGED <<status, attempts, judged, sent, cfg, now, faults, processVars,
                   pc, todo, proj, conf, kept>>

LiveSpec ==
    /\ Init /\ [][Next \/ SlideClock]_vars
    /\ Fairness
    /\ WF_vars(ClockTick \/ SlideClock)

RunSymmetry == Permutations(Run)
==============================================================================
