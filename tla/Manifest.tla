------------------------------- MODULE Manifest -------------------------------
(***************************************************************************)
(* The scenario manifest (manifest.rs) and how it is found at start-up     *)
(* (main.rs load_manifest).  A scenario keeps its id, its source, the      *)
(* deployments it is for and its two lists of actions; an action its id,   *)
(* its kind and which of the optional payload fields it has.               *)
(***************************************************************************)
EXTENDS Sequences, SequencesExt

CONSTANTS
    NoManifest,     \* nothing loaded: ServerState.sessions is None
    Absent,         \* a candidate path with no file
    Unreadable      \* a file that does not parse

\* Vec<_> of records to the sequence of their ids.
ids(s) == [k \in DOMAIN s |-> s[k].id]

\* HashSet::insert returned true for every one of them.
distinct(s) == IsInjective(s)

\* The fields of which an action of this kind needs one.
payload_of(kind) ==
    CASE kind = "sql"  -> {"sql", "sql_file"}
      [] kind = "http" -> {"http_request"}
      [] kind \in {"shell", "toxiproxy", "reset-snapshot"} -> {"shell_cmd"}
      [] kind \in {"produce-kafka", "upload-file"} -> {"payload_file"}

validate_action(a) == a.has \cap payload_of(a.kind) # {}

all_actions(sc) == sc.actions \o sc.break_scenarios

\* Mutant: each list of actions is looked at by itself.
validate_by_list(m) ==
    /\ m.version = 1
    /\ distinct(m.sources) /\ distinct(ids(m.scenarios))
    /\ \A sc \in Range(m.scenarios) :
         /\ sc.source_id \in Range(m.sources)
         /\ distinct(ids(sc.actions)) /\ distinct(ids(sc.break_scenarios))
         /\ \A a \in Range(all_actions(sc)) : validate_action(a)

validate(m) ==
    /\ m.version = 1
    /\ distinct(m.sources) /\ distinct(ids(m.scenarios))
    /\ \A sc \in Range(m.scenarios) :
         /\ sc.source_id \in Range(m.sources)
         /\ distinct(ids(all_actions(sc)))
         /\ \A a \in Range(all_actions(sc)) : validate_action(a)

\* Manifest::load() succeeds.
usable(f) == f \notin {Absent, Unreadable} /\ validate(f)

\* Candidate paths in order; one that cannot be loaded is skipped.
load_manifest(candidates) ==
    LET k == SelectInSeq(candidates, usable)
    IN  IF k = 0 THEN NoManifest ELSE candidates[k]

\* Manifest::scenario(): the first with this id.
has_scenario(m, id) == \E sc \in Range(m.scenarios) : sc.id = id
scenario(m, id) == LET named(sc) == sc.id = id IN m.scenarios[SelectInSeq(m.scenarios, named)]

allowed_in(sc, d) == sc.deployment = {} \/ d \in sc.deployment

\* deployment_of(): anything but "cloud" and "dev" is self-managed.
deployment_of(kind) == IF kind \in {"cloud", "dev"} THEN kind ELSE "self-managed"

=============================================================================
