---------------------------- MODULE MCTelemetry ----------------------------
(* Telemetry on a small instance. *)
EXTENDS Telemetry, TLC

Goroutines == {"state", "progress", "log", "hardware"}
Symmetry   == {p @@ s @@ t : p \in Permutations(Jobs), s \in Permutations(Conns),
                             t \in Permutations(Tags)}
=============================================================================
