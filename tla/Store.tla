------------------------------- MODULE Store -------------------------------
(***************************************************************************)
(* What a relay keeps for one session ID, in the three stores there are:   *)
(* relay/memory.go (every call under one mutex), relay/dir.go (files, a    *)
(* call is several system calls) and relayserver/r2/store.go (objects in a *)
(* bucket, a call is several requests). An object is present or absent: a  *)
(* token encrypts one artifact, so every write of an object carries the    *)
(* same ciphertext.                                                        *)
(***************************************************************************)
EXTENDS Naturals, FiniteSets

CONSTANTS
    Backends,     \* the stores considered, of "memory", "dir" and "r2"
    ChunkCount,   \* chunks of the artifact
    OrphanAge     \* ticks in the hour R2 keeps objects without metadata

ASSUME StoreAssumption ==
    /\ Backends \subseteq {"memory", "dir", "r2"}
    /\ ChunkCount \in Nat \ {0}
    /\ OrphanAge \in Nat

VARIABLES
    backend,   \* the store in use
    now,       \* the clock, from 1
    stored,    \* stored[o]: when object o was written, 0 if it is absent
    expires    \* ExpiresAt in the metadata last written

storeVars == <<backend, now, stored, expires>>

Indexes == 1 .. ChunkCount
Chunk(i) == <<"chunk", i>>
Chunks == {Chunk(i) : i \in Indexes}
Meta == <<"meta", 0>>
Manifest == <<"manifest", 0>>
Dir == <<"dir", 0>>          \* the directory of the session, DirStore only
ChunkDir == <<"chunks", 0>>  \* its directory of chunks, DirStore only
Objects == Chunks \cup {Meta, Manifest, Dir, ChunkDir}

Has(o) == stored[o] # 0
Present == {o \in Objects : Has(o)}

StoreInit ==
    /\ backend \in Backends
    /\ now = 1
    /\ stored = [o \in Objects |-> 0]
    /\ expires = 0

-----------------------------------------------------------------------------
(* Writing.                                                                *)

\* The directory writeOnce and Mkdir need to find.
ParentThere(o) ==
    backend = "dir" => /\ o \in Chunks => Has(ChunkDir)
                       /\ o \in {Meta, Manifest, ChunkDir} => Has(Dir)

\* Objects are written once: IfNoneMatch "*" in R2, link(2) of a complete
\* temporary file in a directory, a nil check under the mutex in memory.
WriteCode(o) ==
    IF ~ParentThere(o) THEN "notfound" ELSE IF Has(o) THEN "exists" ELSE "ok"

Write(o) ==
    stored' = IF WriteCode(o) = "ok" THEN [stored EXCEPT ![o] = now] ELSE stored

\* PutChunk and PutManifest look for the metadata before they write. Memory
\* does both under its mutex.
PutCode(o) ==
    IF backend = "memory" /\ ~Has(Meta) THEN "notfound" ELSE WriteCode(o)

Put(o) ==
    stored' = IF PutCode(o) = "ok" THEN [stored EXCEPT ![o] = now] ELSE stored

-----------------------------------------------------------------------------
(* Reading.                                                                *)

\* Session finds the ID. DirStore fails on a missing directory of chunks.
SessionFound == Has(Meta) /\ (backend = "dir" => Has(ChunkDir))

\* GetChunk and GetManifest. R2 does not look at the metadata again.
Readable(o) == Has(o) /\ (backend # "r2" => Has(Meta))

-----------------------------------------------------------------------------
(* DeleteSession: "begin" looks what there is, "remove" removes it.        *)

Drop(os) == stored' = [o \in Objects |-> IF o \in os THEN 0 ELSE stored[o]]

\* What begin finds. Memory has removed it within the same step.
DeleteFinds ==
    CASE backend = "memory" -> Has(Meta)
      [] backend = "dir"    -> Has(Dir)
      [] OTHER              -> Present # {}

DeleteBegin == IF backend = "memory" THEN Drop(Objects) ELSE UNCHANGED stored

\* RemoveAll goes through the entries of the directory in any order, that of
\* the chunks with what it holds, and ends with the directory.
Unlinks ==
    IF Present = {Dir} THEN {{Dir}}
    ELSE {os \in {{Meta}, {Manifest}, Chunks \cup {ChunkDir}} : os \cap Present # {}}

\* One step of the removal of the objects listed by begin: the sets it may
\* remove. DeleteObjects is one request for up to 1000 objects, which holds
\* every artifact within the relay's caps (MaxChunkCount is 128).
Removals(listed) ==
    CASE backend = "r2"              -> {listed}
      [] backend = "dir" /\ Has(Dir) -> Unlinks
      [] OTHER                       -> {{}}

\* The removal is over; in a directory, once nothing is left of it.
RemoveEnds(gone) == backend = "r2" \/ gone \in {{}, {Dir}}

\* DeleteObjects reports errors: only a part of the objects is gone. RemoveAll
\* stops at an error with what it has unlinked so far.
RemoveFails(listed) ==
    \/ backend = "r2" /\ \E gone \in SUBSET listed : Drop(gone)
    \/ backend = "dir" /\ UNCHANGED stored
=============================================================================
