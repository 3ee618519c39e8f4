---------------------------- MODULE EventDelivery ----------------------------
(***************************************************************************)
(* What the event indexer promises its consumers: the contract events take *)
(* effect in the order of the chain, each of them at least once, and none  *)
(* is left out.  Taking effect again is a stuttering step.                 *)
(***************************************************************************)
EXTENDS Naturals

CONSTANTS N,      \* the events of the chain are 1 .. N
          Start   \* those that took effect before

VARIABLES
    closed,   \* the events that are on the chain
    head      \* the newest event that took effect

Init == closed \in Start .. N /\ head = Start

\* A ledger closes with further events.
Emit == closed' \in closed .. N /\ UNCHANGED head

\* The next event takes effect.
Deliver == head < closed /\ head' = head + 1 /\ UNCHANGED closed

Next == Emit \/ Deliver

Spec == Init /\ [][Next]_<<closed, head>> /\ WF_<<closed, head>>(Deliver)
=============================================================================
