--------------------------- MODULE MCObservation ---------------------------
(***************************************************************************)
(* Observation for TLC: x is a polled parameter, y one of any kind.        *)
(***************************************************************************)
EXTENDS Observation

CONSTANTS x, y  \* parameters

OnePolled == {[p \in Params |-> IF p = x THEN "external_ro" ELSE k] : k \in Kind}
AllPolled == {[p \in Params |-> "external_ro"]}
=============================================================================
