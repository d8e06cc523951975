----------------------------- MODULE ReadCache -----------------------------
(***************************************************************************)
(* The memory of parsed files (src/backend/read_cache.py) that the order   *)
(* records, closed trades, settings and the research log are read through. *)
(* Each worker process has one; a thread that writes the file calls        *)
(* forget, which the other processes do not hear of.  Readers and writers  *)
(* of all processes run between any two of each other's steps.             *)
(***************************************************************************)
EXTENDS Naturals, FiniteSetsExt

CONSTANTS
    Procs,
    Readers, Writers, \* threads
    Home,             \* the process of each thread
    KeepsStamp,       \* the file system may keep mtime and size of a file that is replaced
    OneWriter,        \* the writers of the file hold its lock from the replacement to forget
    MaxWrites         \* bound on the writes

ASSUME ReadCacheAssumption ==
    /\ Home \in [Readers \union Writers -> Procs]
    /\ KeepsStamp \in BOOLEAN /\ OneWriter \in BOOLEAN /\ MaxWrites \in Nat

VARIABLES
    file,       \* its contents, numbered by the writes, and its mtime and size
    cache,      \* _CACHE of each process
    generation, \* _GENERATION of each process
    known,      \* the newest contents each process has to know of
    reader, writer

vars == <<file, cache, generation, known, reader, writer>>

\* A stamp is the number of the write that set it.
NoEntry == [stamp |-> 0, generation |-> 0, value |-> 0, held |-> FALSE]
NewReader == [step |-> "idle", floor |-> 0, generation |-> 0, stamp |-> 0, value |-> 0]
NewWriter == [step |-> "idle", version |-> 0, generation |-> 0]

Init ==
    /\ file = [version |-> 1, stamp |-> 1]
    /\ cache = [p \in Procs |-> NoEntry] /\ generation = [p \in Procs |-> 0]
    /\ known = [p \in Procs |-> 1]
    /\ reader = [r \in Readers |-> NewReader]
    /\ writer = [w \in Writers |-> NewWriter]

-----------------------------------------------------------------------------
(* load, from one step to the next.                                        *)

Load(r) ==
    /\ reader[r].step \in {"idle", "done"}
    /\ reader' = [reader EXCEPT ![r] =
          [NewReader EXCEPT !.step = "stat", !.floor = known[Home[r]],
                            !.generation = generation[Home[r]]]]
    /\ UNCHANGED <<file, cache, generation, known, writer>>

\* Mutant of Hit: the stamp of the file is all that counts.
HitByStamp(r, stamp) ==
    LET entry == cache[Home[r]] IN entry.held /\ entry.stamp = stamp

Hit(r, stamp) ==
    LET entry == cache[Home[r]] IN
    entry.held /\ entry.stamp = stamp /\ entry.generation = reader[r].generation

Stat(r) ==
    /\ reader[r].step = "stat"
    /\ reader' = [reader EXCEPT ![r] =
          IF Hit(r, file.stamp)
          THEN [@ EXCEPT !.step = "done", !.value = cache[Home[r]].value]
          ELSE [@ EXCEPT !.step = "read", !.stamp = file.stamp]]
    /\ UNCHANGED <<file, cache, generation, known, writer>>

Read(r) ==
    /\ reader[r].step = "read"
    /\ reader' = [reader EXCEPT ![r].step = "check", ![r].value = file.version]
    /\ UNCHANGED <<file, cache, generation, known, writer>>

\* Remembered only if nothing was written meanwhile.
Unchanged(r) ==
    file.stamp = reader[r].stamp /\ generation[Home[r]] = reader[r].generation

Check(r) ==
    /\ reader[r].step = "check"
    /\ reader' = [reader EXCEPT ![r].step = IF Unchanged(r) THEN "keep" ELSE "done"]
    /\ UNCHANGED <<file, cache, generation, known, writer>>

Keep(r) ==
    /\ reader[r].step = "keep"
    /\ cache' = [cache EXCEPT ![Home[r]] =
          [stamp |-> reader[r].stamp, generation |-> reader[r].generation,
           value |-> reader[r].value, held |-> TRUE]]
    /\ reader' = [reader EXCEPT ![r].step = "done"]
    /\ UNCHANGED <<file, generation, known, writer>>

-----------------------------------------------------------------------------
(* A write: the replacement of the file, and forget.                       *)

\* The other processes learn of it by the stamp, if that changed.
Replace(w) ==
    /\ writer[w].step = "idle" /\ file.version <= MaxWrites
    /\ OneWriter => \A other \in Writers : writer[other].step = "idle"
    /\ \E stamp \in {file.version + 1} \union (IF KeepsStamp THEN {file.stamp} ELSE {}) :
          /\ file' = [version |-> file.version + 1, stamp |-> stamp]
          /\ known' = [p \in Procs |-> IF stamp = file.stamp THEN known[p] ELSE file.version + 1]
    /\ writer' = [writer EXCEPT ![w] = [step |-> "pop", version |-> file.version + 1, generation |-> 0]]
    /\ UNCHANGED <<cache, generation, reader>>

Pop(w) ==
    /\ writer[w].step = "pop"
    /\ cache' = [cache EXCEPT ![Home[w]] = NoEntry]
    /\ writer' = [writer EXCEPT ![w].step = "count"]
    /\ UNCHANGED <<file, generation, known, reader>>

\* The count is read and written in two steps.
Count(w) ==
    /\ writer[w].step = "count"
    /\ writer' = [writer EXCEPT ![w].step = "forget", ![w].generation = generation[Home[w]]]
    /\ UNCHANGED <<file, cache, generation, known, reader>>

Forget(w) ==
    /\ writer[w].step = "forget"
    /\ generation' = [generation EXCEPT ![Home[w]] = writer[w].generation + 1]
    /\ known' = [known EXCEPT ![Home[w]] = IF @ < writer[w].version THEN writer[w].version ELSE @]
    /\ writer' = [writer EXCEPT ![w] = NewWriter]
    /\ UNCHANGED <<file, cache, reader>>

Next ==
    \/ \E r \in Readers : Load(r) \/ Stat(r) \/ Read(r) \/ Check(r) \/ Keep(r)
    \/ \E w \in Writers : Replace(w) \/ Pop(w) \/ Count(w) \/ Forget(w)

Spec == Init /\ [][Next]_vars

-----------------------------------------------------------------------------
\* A load returns nothing older than what its process had to know of when it
\* began: every write of its own process that had returned, and every write of
\* another one that changed the file's mtime or size - also when the own write
\* left both as they were (load, forget).
ReadsAreRecent ==
    \A r \in Readers : reader[r].step = "done" => reader[r].value >= reader[r].floor
=============================================================================
