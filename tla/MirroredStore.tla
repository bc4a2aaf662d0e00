---------------------------- MODULE MirroredStore ----------------------------
(***************************************************************************)
(* What SessionManager promises about persistence (sessions.rs, the        *)
(* comments on persistence_path, new_with_persistence and persist): a map  *)
(* in memory, a copy of it on disk that is at any moment some complete     *)
(* earlier content, and a restart that continues from that copy.           *)
(***************************************************************************)
CONSTANTS
    Maps,       \* contents the sessions map may have
    EmptyMap    \* the content of a fresh manager

VARIABLES mem, disk
vars == <<mem, disk>>

Init == mem = EmptyMap /\ disk = EmptyMap

Mutate == mem' \in Maps /\ disk' = disk

Save == disk' = mem /\ mem' = mem

Restart == mem' = disk /\ disk' = disk

Next == Mutate \/ Save \/ Restart

Spec == Init /\ [][Next]_vars

=============================================================================
