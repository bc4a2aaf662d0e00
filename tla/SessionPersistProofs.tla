------------------------ MODULE SessionPersistProofs ------------------------
(***************************************************************************)
(* Proofs about persist(), for any contents and any number of requests:    *)
(* what a save that runs alone achieves, and that without overlapping      *)
(* requests the file and the map behave as MirroredStore promises.         *)
(***************************************************************************)
EXTENDS SessionPersist, TLAPS

\* Only a request between open and write holds a descriptor.
Descriptors == \A w \in Writers : pc[w] # "opened" => fd[w] = "none"

\* A request that no other one has disturbed is the only one at work, and the
\* temporary file is as it left it.
Undisturbed ==
    \A w \in Writers : solo[w] /\ pc[w] # "idle" =>
        /\ \A o \in Writers : o # w => pc[o] = "idle"
        /\ pc[w] \in {"snapped", "opened", "written"} => snap[w] = mem
        /\ pc[w] = "opened" => fd[w] = "tmp" /\ tmp = Blank
        /\ pc[w] = "written" => tmp = mem

\* Until requests overlap, whoever is at work is undisturbed.
AllSolo == ~overlap => \A w \in Writers : pc[w] # "idle" => solo[w]

PInv == TypeOK /\ Descriptors /\ Undisturbed /\ AllSolo /\ WholeUnlessOverlap /\ MirrorWhenQuiet

-----------------------------------------------------------------------------
LEMMA HydrateMap == \A f : hydrate(f) \in Maps
  BY MapsAssumption DEF hydrate

LEMMA PInit == Init => PInv
  BY MapsAssumption DEF Init, PInv, TypeOK, Content, PC, Descriptors, Undisturbed, AllSolo,
     WholeUnlessOverlap, FileWhole, MirrorWhenQuiet, hydrate

LEMMA MutateInv == ASSUME PInv, NEW w \in Writers, Mutate(w) PROVE PInv'
  <1> USE DEF PInv, Mutate
  <1>1. TypeOK'
    BY DEF TypeOK, PC, quiet
  <1>2. Descriptors'
    BY DEF TypeOK, Descriptors
  <1>3. Undisturbed'
    BY DEF TypeOK, Undisturbed, quiet
  <1>4. AllSolo'
    BY DEF TypeOK, AllSolo, quiet
  <1>5. WholeUnlessOverlap'
    BY DEF WholeUnlessOverlap, FileWhole
  <1>6. MirrorWhenQuiet'
    BY DEF TypeOK, MirrorWhenQuiet, quiet
  <1>7. QED
    BY <1>1, <1>2, <1>3, <1>4, <1>5, <1>6

LEMMA SnapshotInv == ASSUME PInv, NEW w \in Writers, Snapshot(w) PROVE PInv'
  <1> USE DEF PInv, Snapshot
  <1>1. TypeOK'
    BY DEF TypeOK, PC
  <1>2. Descriptors'
    BY DEF TypeOK, Descriptors
  <1>3. Undisturbed'
    BY DEF TypeOK, Undisturbed
  <1>4. AllSolo'
    BY DEF TypeOK, AllSolo
  <1>5. WholeUnlessOverlap'
    BY DEF WholeUnlessOverlap, FileWhole
  <1>6. MirrorWhenQuiet'
    BY DEF TypeOK, MirrorWhenQuiet, quiet
  <1>7. QED
    BY <1>1, <1>2, <1>3, <1>4, <1>5, <1>6

LEMMA OpenInv == ASSUME PInv, NEW w \in Writers, Open(w) PROVE PInv'
  <1> USE DEF PInv, Open, open_truncate
  <1>1. TypeOK'
    BY DEF TypeOK, PC, Content
  <1>2. Descriptors'
    BY DEF TypeOK, Descriptors
  <1>3. Undisturbed'
    BY DEF TypeOK, Undisturbed
  <1>4. AllSolo'
    BY DEF TypeOK, AllSolo
  <1>5. WholeUnlessOverlap'
    BY DEF WholeUnlessOverlap, FileWhole
  <1>6. MirrorWhenQuiet'
    BY DEF TypeOK, MirrorWhenQuiet, quiet
  <1>7. QED
    BY <1>1, <1>2, <1>3, <1>4, <1>5, <1>6

\* An undisturbed write goes to the blank temporary file and leaves the map there.
LEMMA WriteInv == ASSUME PInv, NEW w \in Writers, Write(w) PROVE PInv'
  <1> USE DEF PInv
  <1>1. TypeOK'
    BY DEF Write, TypeOK, PC, Content, overlay
  <1>2. Descriptors'
    BY DEF Write, TypeOK, Descriptors
  <1>3. solo[w] => tmp' = mem /\ path' = path
    BY DEF Write, Undisturbed, overlay
  <1>4. Undisturbed'
    BY <1>3 DEF Write, TypeOK, Undisturbed
  <1>5. AllSolo'
    BY DEF Write, TypeOK, AllSolo
  <1>6. WholeUnlessOverlap'
    BY <1>3 DEF Write, WholeUnlessOverlap, FileWhole, AllSolo
  <1>7. MirrorWhenQuiet'
    BY DEF Write, TypeOK, MirrorWhenQuiet, quiet
  <1>8. QED
    BY <1>1, <1>2, <1>4, <1>5, <1>6, <1>7

\* An undisturbed rename puts the map on disk.
LEMMA RenameInv == ASSUME PInv, NEW w \in Writers, Rename(w) PROVE PInv'
  <1> USE DEF PInv
  <1>1. TypeOK'
    BY DEF Rename, TypeOK, PC, Content
  <1>2. Descriptors'
    BY DEF Rename, TypeOK, Descriptors
  <1>3. solo[w] => path' = mem
    BY MapsAssumption DEF Rename, Undisturbed, TypeOK
  <1>4. Undisturbed'
    BY DEF Rename, TypeOK, Undisturbed
  <1>5. AllSolo'
    BY DEF Rename, TypeOK, AllSolo
  <1>6. WholeUnlessOverlap'
    BY <1>3, MapsAssumption DEF Rename, WholeUnlessOverlap, FileWhole, AllSolo, TypeOK
  <1>7. MirrorWhenQuiet'
    BY <1>3 DEF Rename, TypeOK, MirrorWhenQuiet, AllSolo, hydrate
  <1>8. QED
    BY <1>1, <1>2, <1>4, <1>5, <1>6, <1>7

LEMMA SaveFailsInv == ASSUME PInv, NEW w \in Writers, SaveFails(w) PROVE PInv'
  <1> USE DEF PInv
  <1>1. TypeOK'
    BY DEF SaveFails, TypeOK, PC, Content
  <1>2. Descriptors'
    BY DEF SaveFails, TypeOK, Descriptors
  <1>3. solo[w] => path' = path
    BY DEF SaveFails, Undisturbed
  <1>4. Undisturbed'
    BY DEF SaveFails, TypeOK, Undisturbed
  <1>5. AllSolo'
    BY DEF SaveFails, TypeOK, AllSolo
  <1>6. WholeUnlessOverlap'
    BY <1>3 DEF SaveFails, WholeUnlessOverlap, FileWhole, AllSolo
  <1>7. MirrorWhenQuiet'
    BY DEF SaveFails, MirrorWhenQuiet
  <1>8. QED
    BY <1>1, <1>2, <1>4, <1>5, <1>6, <1>7

LEMMA RestartInv == ASSUME PInv, Restart PROVE PInv'
  <1> USE DEF PInv, Restart
  <1>1. TypeOK'
    BY HydrateMap, MapsAssumption DEF TypeOK, PC
  <1>2. Descriptors' /\ Undisturbed' /\ AllSolo'
    BY DEF Descriptors, Undisturbed, AllSolo
  <1>3. WholeUnlessOverlap'
    BY DEF WholeUnlessOverlap, FileWhole
  <1>4. MirrorWhenQuiet'
    BY DEF MirrorWhenQuiet, hydrate
  <1>5. QED
    BY <1>1, <1>2, <1>3, <1>4

LEMMA PNext == PInv /\ [Next]_vars => PInv'
  <1> SUFFICES ASSUME PInv, [Next]_vars PROVE PInv'
    OBVIOUS
  <1>1. CASE UNCHANGED vars
    BY <1>1 DEF vars, PInv, TypeOK, Descriptors, Undisturbed, AllSolo, WholeUnlessOverlap,
       FileWhole, MirrorWhenQuiet, quiet
  <1>2. CASE Next
    BY <1>2, MutateInv, SnapshotInv, OpenInv, WriteInv, RenameInv, SaveFailsInv, RestartInv DEF Next
  <1>3. QED
    BY <1>1, <1>2

-----------------------------------------------------------------------------
\* The invariant the theorems below rest on holds in every reachable state.
THEOREM PInductive == Spec => []PInv
  <1>1. Init => PInv
    BY PInit
  <1>2. PInv /\ [Next]_vars => PInv'
    BY PNext
  <1>3. QED
    BY <1>1, <1>2, PTL DEF Spec

\* Both files, all descriptors and snapshots are of the declared kinds.
THEOREM PTyped == Spec => []TypeOK
  <1>1. PInv => TypeOK
    BY DEF PInv
  <1>2. QED
    BY <1>1, PInductive, PTL

\* Neither a crash nor a failed call of persist() leaves an unparsable
\* sessions.json, as long as no two requests overlapped.
THEOREM WholeFile == Spec => []WholeUnlessOverlap
  <1>1. PInv => WholeUnlessOverlap
    BY DEF PInv
  <1>2. QED
    BY <1>1, PInductive, PTL

\* Once nobody is at work, the file is the map, if no save was dropped and no
\* two requests overlapped.
THEOREM QuietMirror == Spec => []MirrorWhenQuiet
  <1>1. PInv => MirrorWhenQuiet
    BY DEF PInv
  <1>2. QED
    BY <1>1, PInductive, PTL

\* A save during which no other request ran puts the map on disk, whatever the
\* two files held before, with any number of requests before and after.
THEOREM SaveRepairs == Spec => SoloSaveRepairs
  <1> DEFINE Repairs ==
        \A w \in Writers : pc[w] = "written" /\ solo[w] /\ path' # path => path' = mem
  <1>1. PInv /\ [Next]_vars => [Repairs]_vars
    <2> SUFFICES ASSUME PInv, Next, NEW w \in Writers,
                        pc[w] = "written", solo[w], path' # path
                 PROVE  path' = mem
      BY DEF Repairs
    <2>1. \A o \in Writers : o # w => pc[o] = "idle"
      BY DEF PInv, Undisturbed
    <2>2. tmp = mem
      BY DEF PInv, Undisturbed
    <2>3. fd[w] = "none"
      BY DEF PInv, Descriptors
    <2>4. CASE \E o \in Writers : Mutate(o) \/ Snapshot(o) \/ Open(o)
      BY <2>4 DEF Mutate, Snapshot, Open
    <2>5. CASE \E o \in Writers : Write(o)
      BY <2>5, <2>1 DEF Write
    <2>6. CASE \E o \in Writers : Rename(o)
      BY <2>6, <2>2 DEF Rename
    <2>7. CASE \E o \in Writers : SaveFails(o)
      BY <2>7, <2>1 DEF SaveFails
    <2>8. CASE Restart
      BY <2>8 DEF Restart
    <2>9. QED
      BY <2>4, <2>5, <2>6, <2>7, <2>8 DEF Next
  <1>2. QED
    BY <1>1, PInductive, PTL DEF Spec, SoloSaveRepairs, Repairs

\* Until two requests overlap, each step of persist(), of a mutation, of a
\* failure or of a restart is one of MirroredStore or changes neither the map
\* nor what a restart would read.
THEOREM ImplementsMirror == Spec => Mirrored
  <1> DEFINE seen == <<mem, hydrate(path)>>
             Promised == ~overlap' => Store!Next
  <1>1. Init => Store!Init
    BY MapsAssumption DEF Init, Store!Init, hydrate
  <1>2. PInv /\ [Next]_vars => [Promised]_seen
    <2> SUFFICES ASSUME PInv, [Next]_vars, ~overlap'
                 PROVE  Store!Next \/ UNCHANGED seen
      BY DEF Promised, seen
    <2> USE DEF seen, Store!Next, Store!Mutate, Store!Save, Store!Restart
    <2>1. CASE UNCHANGED vars
      BY <2>1 DEF vars, hydrate
    <2>2. ASSUME NEW w \in Writers, Mutate(w) PROVE Store!Next \/ UNCHANGED seen
      BY <2>2 DEF Mutate, hydrate
    <2>3. ASSUME NEW w \in Writers, Snapshot(w) \/ Open(w) PROVE UNCHANGED seen
      BY <2>3 DEF Snapshot, Open, hydrate
    <2>4. ASSUME NEW w \in Writers, Write(w) \/ Rename(w) \/ SaveFails(w)
          PROVE  solo[w] /\ pc[w] # "idle"
      BY <2>4 DEF PInv, AllSolo, Write, Rename, SaveFails
    <2>5. ASSUME NEW w \in Writers, Write(w) PROVE UNCHANGED seen
      BY <2>4, <2>5 DEF Write, PInv, Undisturbed, hydrate
    <2>6. ASSUME NEW w \in Writers, Rename(w) PROVE Store!Next
      <3>1. path' = mem /\ mem' = mem /\ mem \in Maps
        BY <2>4, <2>6, MapsAssumption DEF Rename, PInv, Undisturbed, TypeOK
      <3>2. QED
        BY <3>1 DEF hydrate
    <2>7. ASSUME NEW w \in Writers, SaveFails(w) PROVE UNCHANGED seen
      BY <2>4, <2>7 DEF SaveFails, PInv, Undisturbed, hydrate
    <2>8. CASE Restart
      BY <2>8 DEF Restart, hydrate
    <2>9. QED
      BY <2>1, <2>2, <2>3, <2>5, <2>6, <2>7, <2>8 DEF Next
  <1>3. QED
    BY <1>1, <1>2, PInductive, PTL DEF Spec, Mirrored, Promised, seen

=============================================================================
