------------------------- MODULE MCSessionLifecycle -------------------------
(* Instances of SessionLifecycle for TLC. *)
EXTENDS SessionLifecycle, TLC

Symmetry == Permutations(Ids) \cup Permutations(Requests)

\* Everything at once with nothing failing; the long reset of the template with
\* two shuttles on its own; faults of all kinds, but not during a reset.
Mixed == {
    Workload(AllCalls, {"cdc", "kafka", "upload"}, 0),
    Workload({"create", "reset"}, {"two_shuttles"}, 0),
    Workload({"create", "end", "action"}, AllScenarios, 1),
    Workload({"create", "end"}, {"cdc"}, 2) }

Expiring == {Workload({"create", "extend"}, {"upload"}, 0)}

Plain == {Workload(AllCalls, {"cdc"}, 0)}

=============================================================================
