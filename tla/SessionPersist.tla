--------------------------- MODULE SessionPersist ---------------------------
(***************************************************************************)
(* SessionManager::persist() at the grain of its system calls (sessions.rs *)
(* 347-373), run by any number of requests at once.                        *)
(*                                                                         *)
(* A request changes the map under the write lock, releases it, and then   *)
(* snapshots the map under the read lock, writes the snapshot to the one   *)
(* temporary file every request shares, and renames that file onto         *)
(* sessions.json.  Nothing holds the steps of two requests apart.          *)
(*                                                                         *)
(* Files are modelled by name.  An open descriptor follows its file: after *)
(* a rename, a descriptor on the temporary file is one on sessions.json,   *)
(* and one on the replaced sessions.json leads nowhere.                    *)
(***************************************************************************)
CONSTANTS
    Maps,       \* contents the sessions map may have
    EmptyMap,   \* the content of a fresh manager
    Writers,    \* requests that may be mutating or persisting at a time
    NoFile,     \* a file that does not exist
    Blank,      \* a file that was truncated and not written yet
    Torn        \* a file that mixes two writes, or holds part of one

ASSUME MapsAssumption ==
    /\ EmptyMap \in Maps
    /\ NoFile \notin Maps /\ Blank \notin Maps /\ Torn \notin Maps
    /\ NoFile # Blank /\ NoFile # Torn /\ Blank # Torn

VARIABLES
    mem,    \* SessionManager.sessions
    path,   \* sessions.json
    tmp,    \* sessions.json.tmp
    pc,     \* where each request is
    snap,   \* the snapshot each request holds
    fd,     \* where each request's descriptor leads
    lost,   \* history: a save was dropped, and none ran undisturbed since
    solo,   \* history: no other request ran during this one so far
    overlap \* history: some request began while the work of another was under way

vars == <<mem, path, tmp, pc, snap, fd, lost, solo, overlap>>

Content == Maps \cup {NoFile, Blank, Torn}
PC == {"idle", "mutated", "snapped", "opened", "written"}

TypeOK ==
    /\ mem \in Maps
    /\ path \in Content /\ tmp \in Content
    /\ pc \in [Writers -> PC]
    /\ snap \in [Writers -> Maps]
    /\ fd \in [Writers -> {"none", "tmp", "path", "gone"}]
    /\ lost \in BOOLEAN
    /\ solo \in [Writers -> BOOLEAN]
    /\ overlap \in BOOLEAN

\* Mutant: what cannot be read is not replaced by an empty map.
hydrate_raw(f) == f

\* hydrate_from_disk(): missing, unreadable and unparsable all mean empty.
hydrate(f) == IF f \in Maps THEN f ELSE EmptyMap

Init ==
    /\ mem = EmptyMap
    /\ path = NoFile /\ tmp = NoFile
    /\ pc = [w \in Writers |-> "idle"]
    /\ snap = [w \in Writers |-> EmptyMap]
    /\ fd = [w \in Writers |-> "none"]
    /\ lost = FALSE
    /\ solo = [w \in Writers |-> FALSE]
    /\ overlap = FALSE

-----------------------------------------------------------------------------
quiet == \A w \in Writers : pc[w] = "idle"

\* create / update / end / sweep_expired: the change under the write lock.
Mutate(w) ==
    /\ pc[w] = "idle"
    /\ mem' \in Maps
    /\ pc' = [pc EXCEPT ![w] = "mutated"]
    /\ solo' = [o \in Writers |-> o = w /\ quiet]
    /\ overlap' = (overlap \/ ~quiet)
    /\ UNCHANGED <<path, tmp, snap, fd, lost>>

\* Mutant: an earlier snapshot is used again.
Snapshot_cached(w) ==
    /\ pc[w] = "mutated"
    /\ pc' = [pc EXCEPT ![w] = "snapped"]
    /\ UNCHANGED <<mem, path, tmp, snap, fd, lost, solo, overlap>>

\* let snapshot = { self.sessions.read().await ... }
Snapshot(w) ==
    /\ pc[w] = "mutated"
    /\ snap' = [snap EXCEPT ![w] = mem]
    /\ pc' = [pc EXCEPT ![w] = "snapped"]
    /\ UNCHANGED <<mem, path, tmp, fd, lost, solo, overlap>>

\* Mutant: the file is opened without truncating it.
open_append == IF tmp = NoFile THEN Blank ELSE tmp

\* The open of tokio::fs::write creates or truncates the temporary file.
open_truncate == Blank

Open(w) ==
    /\ pc[w] = "snapped"
    /\ tmp' = open_truncate
    /\ fd' = [fd EXCEPT ![w] = "tmp"]
    /\ pc' = [pc EXCEPT ![w] = "opened"]
    /\ UNCHANGED <<mem, path, snap, lost, solo, overlap>>

\* Writing from offset 0 over what is there: a longer old content keeps its
\* tail.  Lengths are not modelled, so either outcome is possible.
overlay(old, new) == IF old = Blank \/ old = new THEN {new} ELSE {new, Torn}

\* Mutant: the snapshot is written onto sessions.json in place.
Write_in_place(w) ==
    /\ pc[w] = "opened"
    /\ path' \in IF path = NoFile THEN {snap[w]} ELSE overlay(path, snap[w])
    /\ fd' = [fd EXCEPT ![w] = "none"]
    /\ pc' = [pc EXCEPT ![w] = "written"]
    /\ UNCHANGED <<mem, tmp, snap, lost, solo, overlap>>

\* The write of tokio::fs::write, through the descriptor.
Write(w) ==
    /\ pc[w] = "opened"
    /\ \/ fd[w] = "tmp" /\ tmp' \in overlay(tmp, snap[w]) /\ UNCHANGED path
       \/ fd[w] = "path" /\ path' \in overlay(path, snap[w]) /\ UNCHANGED tmp
       \/ fd[w] = "gone" /\ UNCHANGED <<path, tmp>>
    /\ fd' = [fd EXCEPT ![w] = "none"]
    /\ pc' = [pc EXCEPT ![w] = "written"]
    /\ UNCHANGED <<mem, snap, lost, solo, overlap>>

\* tokio::fs::rename; it fails when another request has renamed the file away.
Rename(w) ==
    /\ pc[w] = "written"
    /\ \/ /\ tmp # NoFile
          /\ path' = tmp /\ tmp' = NoFile
          /\ fd' = [o \in Writers |-> CASE fd[o] = "tmp"  -> "path"
                                        [] fd[o] = "path" -> "gone"
                                        [] OTHER          -> fd[o]]
          /\ lost' = (lost /\ ~solo[w])
       \/ /\ tmp = NoFile
          /\ lost' = TRUE
          /\ UNCHANGED <<path, tmp, fd>>
    /\ pc' = [pc EXCEPT ![w] = "idle"]
    /\ UNCHANGED <<mem, snap, solo, overlap>>

\* Serialisation, open, write or rename fails: logged, and persist() returns.
\* A failing write may leave part of the snapshot behind.  Or the client leaves,
\* and persist() is dropped at an await: the file operation it was in is on the
\* blocking pool and is finished first, the next one is not begun.
SaveFails(w) ==
    /\ pc[w] # "idle"
    /\ \/ UNCHANGED <<path, tmp>>
       \/ pc[w] = "opened" /\ fd[w] = "tmp"  /\ tmp' = Torn  /\ UNCHANGED path
       \/ pc[w] = "opened" /\ fd[w] = "path" /\ path' = Torn /\ UNCHANGED tmp
    /\ fd' = [fd EXCEPT ![w] = "none"]
    /\ pc' = [pc EXCEPT ![w] = "idle"]
    /\ lost' = TRUE
    /\ UNCHANGED <<mem, snap, solo, overlap>>

\* The process dies between any two steps and is started again.
Restart ==
    /\ mem' = hydrate(path)
    /\ pc' = [w \in Writers |-> "idle"]
    /\ snap' = [w \in Writers |-> EmptyMap]
    /\ fd' = [w \in Writers |-> "none"]
    /\ lost' = FALSE
    /\ solo' = [w \in Writers |-> FALSE]
    /\ UNCHANGED <<path, tmp, overlap>>

Next ==
    \/ \E w \in Writers : Mutate(w)
    \/ \E w \in Writers : Snapshot(w)
    \/ \E w \in Writers : Open(w)
    \/ \E w \in Writers : Write(w)
    \/ \E w \in Writers : Rename(w)
    \/ \E w \in Writers : SaveFails(w)
    \/ Restart

Spec == Init /\ [][Next]_vars

-----------------------------------------------------------------------------
(* Properties                                                               *)

\* sessions.json is never a file hydrate_from_disk would refuse to parse
\* ("a crash mid-write doesn't leave a half-truncated file").  False when
\* two requests save at once.
FileWhole == path \notin {Blank, Torn}

\* As long as no request began while another one, or a write it left behind, was
\* under way, no crash or failed call, at any step of a save, leaves a file
\* hydrate_from_disk would refuse to parse.
WholeUnlessOverlap == ~overlap => FileWhole

\* "The in-memory map is mirrored after every mutation": once no request is
\* under way the file is the map, unless a save was dropped or requests
\* overlapped.
MirrorWhenQuiet == quiet /\ ~lost /\ ~overlap => hydrate(path) = mem

\* "Losing one snapshot is recoverable on next mutation": a save during which
\* no other request ran leaves the map on disk, whatever earlier saves and
\* crashes left in either file.
SoloSaveRepairs ==
    [][\A w \in Writers :
          pc[w] = "written" /\ solo[w] /\ path' # path => path' = mem]_vars

\* As long as no two requests overlapped, every step, failures and crashes
\* included, is a step of the promised store or leaves it alone.
Store == INSTANCE MirroredStore WITH disk <- hydrate(path)
Mirrored == Store!Init /\ [][~overlap' => Store!Next]_<<mem, hydrate(path)>>

=============================================================================
