---------------------------- MODULE BoundedRuns ----------------------------
(***************************************************************************)
(* The runs of a program given by the set of states a step may lead to:    *)
(* for the small programs whose states are data rather than VARIABLES.     *)
(***************************************************************************)
EXTENDS Naturals

\* The states after exactly n steps from one of S.
After(Step(_), S, n) ==
    LET states[k \in 0 .. n] == IF k = 0 THEN S ELSE UNION {Step(s) : s \in states[k - 1]}
    IN  states[n]

\* The states within n steps of S.
Within(Step(_), S, n) ==
    LET states[k \in 0 .. n] ==
            IF k = 0 THEN S ELSE states[k - 1] \cup UNION {Step(s) : s \in states[k - 1]}
    IN  states[n]
=============================================================================
