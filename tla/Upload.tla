------------------------------- MODULE Upload -------------------------------
(***************************************************************************)
(* A one-shot artifact on its way through the relay: the upload of         *)
(* "aken collect" (collect/run.go), the reading of it by aken-mcp          *)
(* (artifact.Load), "aken-mcp end", the retries of all three               *)
(* (protocol/relayclient.go), the blob half of the relay's handler         *)
(* (relay/handler.go), the store below it, and the sweeps.                 *)
(*                                                                         *)
(* A request travels and is handled in a slot. It is cut at every access   *)
(* to the store, so that other requests, the sweep and the clock run in    *)
(* between. A client that stopped waiting leaves its request behind: it    *)
(* may reach the store much later, or never.                               *)
(***************************************************************************)
EXTENDS Store

CONSTANTS
    MaxSlots,    \* bound: requests under way at once
    Attempts,    \* how often relayclient.do tries
    MaxFaults,   \* bound: lost, late, failed or interrupted requests, crashes
    TTL,         \* lifetime of the session, in ticks
    MaxTime      \* bound: clock

ASSUME UploadAssumption ==
    /\ MaxSlots \in Nat
    /\ Attempts \in Nat \ {0}
    /\ MaxFaults \in Nat
    /\ TTL \in Nat \ {0}
    /\ MaxTime \in Nat \ {0}

Slots == 1 .. MaxSlots
Clients == {"collector", "reader", "end"}
Ops == {"create", "chunk", "manifest", "info", "getManifest", "getChunk", "delete"}
Codes == {"none", "ok", "exists", "missing", "notfound"}
Labels == {"free", "arrive", "lock", "evict", "evictRemove", "lockDelete",
           "delete", "deleteRemove", "mkdir", "create", "mkchunks", "created",
           "readMeta", "count", "stat", "head", "put", "get", "reply"}

\* "i" is the chunk asked for (0: none), "at" the clock as the handler read
\* it, "listed" what a listing of the store returned.
Request == [pc : Labels, op : Ops, i : 0 .. ChunkCount, at : Nat,
            listed : SUBSET Objects, code : Codes]

NoRequest == [pc |-> "free", op |-> "info", i |-> 0, at |-> 0,
              listed |-> {}, code |-> "none"]

VARIABLES
    slot,      \* the requests under way
    mu,        \* the slot that holds live.mu across a DeleteSession, 0 for none
    sweep,     \* the sweep of the store
    client,    \* the clients: what they ask for, and in which slot
    accepted,  \* upload's accepted: a chunk was put
    left,      \* chunks the reader does not have yet
    faults,    \* how many of the MaxFaults have happened
    made,      \* history: how often the metadata was written
    restarted, \* history: the relay was restarted
    unsure     \* history: a PUT of the manifest ended without an answer

clientVars == <<client, accepted, left>>
histVars == <<made, restarted, unsure>>
vars == <<storeVars, slot, mu, sweep, clientVars, faults, histVars>>

NoSweep == [pc |-> "idle", at |-> 0, listed |-> {}]
Waiting(pc, i) == [pc |-> pc, i |-> i, tries |-> 0, slot |-> 0]

Init ==
    /\ StoreInit
    /\ slot = [s \in Slots |-> NoRequest]
    /\ mu = 0
    /\ sweep = NoSweep
    /\ client = [c \in Clients |->
                    Waiting(IF c = "collector" THEN "create" ELSE "off", 0)]
    /\ accepted = FALSE
    /\ left = Indexes
    /\ faults = 0
    /\ made = 0
    /\ restarted = FALSE
    /\ unsure = FALSE

Fault == faults < MaxFaults /\ faults' = faults + 1

\* A request that has failed may fail again: a bound on the requests that are
\* hit, not on the attempts.
Hit(c) == IF client[c].tries > 0 /\ faults > 0 THEN UNCHANGED faults ELSE Fault

\* !now.Before(ExpiresAt), in the handler and in the sweeps.
Expired(t) == t >= expires

-----------------------------------------------------------------------------
(* The handler: how a request r in slot s goes on.                         *)

Set(s, r) == slot' = [slot EXCEPT ![s] = r]
Goto(r, label) == [r EXCEPT !.pc = label]
Waited(s) == \E c \in Clients : client[c].slot = s

\* The answer waits for its client, or goes nowhere.
Answered(s, r, code) ==
    IF Waited(s) THEN [r EXCEPT !.pc = "reply", !.code = code, !.listed = {}]
                 ELSE NoRequest

\* Mutant of TryAgain: one attempt too many.
TriesOnceMore(k) ==
    IF k.tries = Attempts THEN Waiting("failed", 0)
                          ELSE [k EXCEPT !.slot = 0, !.tries = @ + 1]

\* An attempt without an answer, or with a 5xx: the next one, or the error
\* after the last.
TryAgain(k) ==
    IF k.tries + 1 = Attempts THEN Waiting("failed", 0)
                              ELSE [k EXCEPT !.slot = 0, !.tries = @ + 1]

\* The requests in the slots ss stop where they are.
Fail(ss) ==
    LET hit == {c \in Clients : client[c].slot \in ss}
    IN  /\ slot' = [s \in Slots |-> IF s \in ss THEN NoRequest ELSE slot[s]]
        /\ mu' = IF mu \in ss THEN 0 ELSE mu
        /\ client' = [c \in Clients |->
                         IF c \in hit THEN TryAgain(client[c]) ELSE client[c]]
        /\ unsure' = (unsure \/ \E c \in hit : client[c].pc = "manifest")
        /\ UNCHANGED <<accepted, left>>

PutStart == IF backend = "memory" THEN "put" ELSE "head"

\* handleSession with a session that is there and has not expired.
OnFound(s, r) ==
    CASE r.op = "create"   -> Answered(s, r, "exists")
      [] r.op = "info"     -> Answered(s, r, "ok")
      [] r.op = "delete"   -> Goto(r, "lockDelete")
      [] r.op = "chunk"    -> Goto(r, PutStart)
      [] r.op = "manifest" -> Goto(r, IF backend = "memory" THEN "stat" ELSE "readMeta")
      [] OTHER             -> Goto(r, "get")

\* handleSession without one.
OnMissing(s, r) ==
    IF r.op = "create" THEN Goto(r, IF backend = "dir" THEN "mkdir" ELSE "create")
                       ELSE Answered(s, r, "notfound")

\* handleSession reads the session and the clock.
Arrive(s) ==
    LET r == [slot[s] EXCEPT !.at = now]
    IN  /\ slot[s].pc = "arrive"
        /\ Set(s, IF ~SessionFound THEN OnMissing(s, r)
                  ELSE IF Expired(now) THEN Goto(r, "lock")
                  ELSE OnFound(s, r))
        /\ UNCHANGED <<storeVars, mu, sweep, clientVars, faults, histVars>>

\* An expired session is read again under live.mu, with the clock of before.
Lock(s) ==
    LET r == slot[s]
    IN  /\ r.pc = "lock"
        /\ mu = 0
        /\ \/ /\ SessionFound /\ Expired(r.at)
              /\ Set(s, Goto(r, "evict"))
              /\ mu' = s
           \/ /\ ~(SessionFound /\ Expired(r.at))
              /\ Set(s, IF SessionFound THEN OnFound(s, r) ELSE OnMissing(s, r))
              /\ UNCHANGED mu
        /\ UNCHANGED <<storeVars, sweep, clientVars, faults, histVars>>

LockDelete(s) ==
    /\ slot[s].pc = "lockDelete"
    /\ mu = 0
    /\ Set(s, Goto(slot[s], "delete"))
    /\ mu' = s
    /\ UNCHANGED <<storeVars, sweep, clientVars, faults, histVars>>

\* Mutant of Deleted: live.mu is not unlocked.
KeepsLock(s, r, code) ==
    /\ Set(s, IF r.pc \in {"evict", "evictRemove"}
              THEN OnMissing(s, [r EXCEPT !.listed = {}])
              ELSE Answered(s, r, code))
    /\ UNCHANGED mu

\* DeleteSession is back. An expired session counts as missing whatever it
\* returned; a DELETE is answered by it.
Deleted(s, r, code) ==
    /\ Set(s, IF r.pc \in {"evict", "evictRemove"}
              THEN OnMissing(s, [r EXCEPT !.listed = {}])
              ELSE Answered(s, r, code))
    /\ mu' = 0

Delete(s) ==
    LET r == slot[s]
    IN  /\ r.pc \in {"evict", "delete"}
        /\ DeleteBegin
        /\ IF DeleteFinds /\ backend # "memory"
           THEN /\ Set(s, [r EXCEPT !.pc = IF @ = "evict" THEN "evictRemove"
                                                         ELSE "deleteRemove",
                                    !.listed = IF backend = "r2" THEN Present ELSE {}])
                /\ UNCHANGED mu
           ELSE Deleted(s, r, IF DeleteFinds THEN "ok" ELSE "notfound")
        /\ UNCHANGED <<backend, now, expires, sweep, clientVars, faults, histVars>>

Remove(s) ==
    LET r == slot[s]
    IN  /\ r.pc \in {"evictRemove", "deleteRemove"}
        /\ \E gone \in Removals(r.listed) :
              /\ Drop(gone)
              /\ IF RemoveEnds(gone) THEN Deleted(s, r, "ok") ELSE UNCHANGED <<slot, mu>>
        /\ UNCHANGED <<backend, now, expires, sweep, clientVars, faults, histVars>>

\* Mutant of DeleteFails: the errors in the answer of DeleteObjects go unread.
IgnoresErrors(s) ==
    LET r == slot[s]
    IN  /\ r.pc \in {"evict", "evictRemove", "delete", "deleteRemove"}
        /\ Fault
        /\ RemoveFails(r.listed)
        /\ Deleted(s, r, "ok")
        /\ UNCHANGED <<backend, now, expires, sweep, clientVars, histVars>>

\* DeleteSession returns an error: ignored for an expired session, a 500 for
\* a DELETE.
DeleteFails(s) ==
    LET r == slot[s]
    IN  /\ r.pc \in {"evict", "evictRemove", "delete", "deleteRemove"}
        /\ Fault
        /\ RemoveFails(r.listed)
        /\ IF r.pc \in {"evict", "evictRemove"}
           THEN Deleted(s, r, "none") /\ UNCHANGED <<clientVars, unsure>>
           ELSE Fail({s})
        /\ UNCHANGED <<backend, now, expires, sweep, made, restarted>>

\* CreateSession of DirStore makes the directory first. One that is there
\* already, with metadata or not, is ErrExists.
Mkdir(s) ==
    LET r == slot[s]
    IN  /\ r.pc = "mkdir"
        /\ Write(Dir)
        /\ Set(s, IF WriteCode(Dir) = "ok" THEN Goto(r, "create")
                                           ELSE Answered(s, r, WriteCode(Dir)))
        /\ UNCHANGED <<backend, now, expires, mu, sweep, clientVars, faults, histVars>>

\* The metadata, with the expiry that follows from the handler's clock.
Create(s) ==
    LET r == slot[s]
        code == WriteCode(Meta)
    IN  /\ r.pc = "create"
        /\ Write(Meta)
        /\ Set(s, IF code = "ok"
                  THEN Goto(r, IF backend = "dir" THEN "mkchunks" ELSE "created")
                  ELSE Answered(s, r, code))
        /\ expires' = IF code = "ok" THEN r.at + TTL ELSE expires
        /\ made' = IF code = "ok" THEN made + 1 ELSE made
        /\ UNCHANGED <<backend, now, mu, sweep, clientVars, faults, restarted, unsure>>

\* Mkdir of the directory of chunks. Its error is not translated: a 500.
MkChunks(s) ==
    /\ slot[s].pc = "mkchunks"
    /\ Write(ChunkDir)
    /\ IF WriteCode(ChunkDir) = "ok"
       THEN Set(s, Goto(slot[s], "created")) /\ UNCHANGED <<mu, clientVars, unsure>>
       ELSE Fail({s})
    /\ UNCHANGED <<backend, now, expires, sweep, faults, made, restarted>>

\* Before its 201, create passes through live.mu.
Created(s) ==
    /\ slot[s].pc = "created"
    /\ mu = 0
    /\ Set(s, Answered(s, slot[s], "ok"))
    /\ UNCHANGED <<storeVars, mu, sweep, clientVars, faults, histVars>>

\* manifest reads the session again: the metadata,
ReadMeta(s) ==
    /\ slot[s].pc = "readMeta"
    /\ Set(s, IF Has(Meta) THEN Goto(slot[s], "count")
                           ELSE Answered(s, slot[s], "notfound"))
    /\ UNCHANGED <<storeVars, mu, sweep, clientVars, faults, histVars>>

\* the chunks,
Count(s) ==
    LET r == slot[s]
    IN  /\ r.pc = "count"
        /\ Set(s, IF backend = "dir" /\ ~Has(ChunkDir) THEN Answered(s, r, "notfound")
                  ELSE [r EXCEPT !.pc = "stat", !.listed = Present \cap Chunks])
        /\ UNCHANGED <<storeVars, mu, sweep, clientVars, faults, histVars>>

\* and whether there is a manifest. It goes on when there is none and every
\* chunk was counted. Memory sees all three at once.
Stat(s) ==
    LET r == slot[s]
        chunks == IF backend = "memory" THEN Present \cap Chunks ELSE r.listed
    IN  /\ r.pc = "stat"
        /\ Set(s, IF backend = "memory" /\ ~Has(Meta) THEN Answered(s, r, "notfound")
                  ELSE IF Has(Manifest) THEN Answered(s, r, "exists")
                  ELSE IF Cardinality(chunks) # ChunkCount THEN Answered(s, r, "missing")
                  ELSE [r EXCEPT !.pc = PutStart, !.listed = {}])
        /\ UNCHANGED <<storeVars, mu, sweep, clientVars, faults, histVars>>

Target(r) == IF r.op \in {"chunk", "getChunk"} THEN Chunk(r.i) ELSE Manifest

\* PutChunk and PutManifest: the metadata must be there,
Head(s) ==
    /\ slot[s].pc = "head"
    /\ Set(s, IF Has(Meta) THEN Goto(slot[s], "put")
                           ELSE Answered(s, slot[s], "notfound"))
    /\ UNCHANGED <<storeVars, mu, sweep, clientVars, faults, histVars>>

\* then the object is written.
PutObject(s) ==
    LET r == slot[s]
    IN  /\ r.pc = "put"
        /\ Put(Target(r))
        /\ Set(s, Answered(s, r, PutCode(Target(r))))
        /\ UNCHANGED <<backend, now, expires, mu, sweep, clientVars, faults, histVars>>

GetObject(s) ==
    /\ slot[s].pc = "get"
    /\ Set(s, Answered(s, slot[s], IF Readable(Target(slot[s])) THEN "ok" ELSE "notfound"))
    /\ UNCHANGED <<storeVars, mu, sweep, clientVars, faults, histVars>>

Handle(s) ==
    \/ Arrive(s) \/ Lock(s) \/ LockDelete(s) \/ Delete(s) \/ Remove(s)
    \/ Mkdir(s) \/ Create(s) \/ MkChunks(s) \/ Created(s)
    \/ ReadMeta(s) \/ Count(s) \/ Stat(s) \/ Head(s) \/ PutObject(s) \/ GetObject(s)

\* A store error that is a 500, a request lost on its way, a handler whose
\* context is cancelled: the request stops between two of its steps.
Break(s) ==
    /\ slot[s].pc \notin {"free", "evict", "evictRemove"}
    /\ \/ \E c \in Clients : client[c].slot = s /\ Hit(c)
       \/ ~Waited(s) /\ UNCHANGED faults
    /\ Fail({s})
    /\ UNCHANGED <<storeVars, sweep, made, restarted>>

-----------------------------------------------------------------------------
(* The clients.                                                            *)

Become(c, pc, i) == client' = [client EXCEPT ![c] = Waiting(pc, i)]

\* upload prints the token, and aken-mcp may be used, once the manifest is in.
Use(c) ==
    /\ c \in {"reader", "end"}
    /\ client["collector"].pc = "ok"
    /\ client[c].pc = "off"
    /\ \A d \in Clients : client[d].pc \notin Ops  \* bound: one at a time
    /\ Become(c, IF c = "reader" THEN "info" ELSE "delete", 0)
    /\ UNCHANGED <<storeVars, slot, mu, sweep, accepted, left, faults, histVars>>

\* relayclient.do sends an attempt.
Send(c) ==
    /\ client[c].pc \in Ops
    /\ client[c].slot = 0
    /\ \E s \in Slots :
          /\ slot[s].pc = "free"
          /\ \A t \in Slots : slot[t].pc = "free" => s <= t
          /\ Set(s, [NoRequest EXCEPT !.pc = "arrive", !.op = client[c].pc,
                                      !.i = client[c].i])
          /\ client' = [client EXCEPT ![c].slot = s]
    /\ UNCHANGED <<storeVars, mu, sweep, accepted, left, faults, histVars>>

\* Mutant of Uploaded: accepted is never set.
ForgetsAccepted(c, code) ==
    LET i == client[c].i
        put == client[c].pc = "chunk" /\ code \in {"ok", "exists"}
    IN  /\ \/ /\ client[c].pc = "create" /\ code = "ok"
              /\ Become(c, "chunk", 1)
           \/ /\ put
              /\ IF i < ChunkCount THEN Become(c, "chunk", i + 1) ELSE Become(c, "manifest", 0)
           \/ /\ client[c].pc = "manifest" /\ code = "ok"
              /\ Become(c, "ok", 0)
           \/ /\ code # "ok" /\ ~put
              /\ Become(c, "failed", 0)
        /\ UNCHANGED accepted

\* upload creates the session, puts the chunks in order and the manifest last.
\* A chunk that exists already was stored by an earlier attempt.
Uploaded(c, code) ==
    LET i == client[c].i
        put == client[c].pc = "chunk" /\ code \in {"ok", "exists"}
    IN  /\ \/ /\ client[c].pc = "create" /\ code = "ok"
              /\ Become(c, "chunk", 1)
           \/ /\ put
              /\ IF i < ChunkCount THEN Become(c, "chunk", i + 1) ELSE Become(c, "manifest", 0)
           \/ /\ client[c].pc = "manifest" /\ code = "ok"
              /\ Become(c, "ok", 0)
           \/ /\ code # "ok" /\ ~put
              /\ Become(c, "failed", 0)
        /\ accepted' = (accepted \/ put)

\* Load asks for the session, the manifest and every chunk. Its four workers
\* take the chunks in any order.
Loaded(c, code) ==
    \/ /\ client[c].pc = "info" /\ code = "ok"
       /\ Become(c, "getManifest", 0)
       /\ UNCHANGED left
    \/ /\ client[c].pc = "getManifest" /\ code = "ok"
       /\ \E i \in left : Become(c, "getChunk", i)
       /\ UNCHANGED left
    \/ /\ client[c].pc = "getChunk" /\ code = "ok"
       /\ left' = left \ {client[c].i}
       /\ IF left' = {} THEN Become(c, "loaded", 0)
                        ELSE \E i \in left' : Become(c, "getChunk", i)
    \/ /\ code = "notfound"
       /\ Become(c, "notfound", 0)
       /\ UNCHANGED left

\* The client has the answer to its request.
Answer(c) ==
    LET s == client[c].slot
    IN  /\ s # 0
        /\ slot[s].pc = "reply"
        /\ Set(s, NoRequest)
        /\ CASE c = "collector" -> Uploaded(c, slot[s].code) /\ UNCHANGED left
             [] c = "reader"    -> Loaded(c, slot[s].code) /\ UNCHANGED accepted
             [] OTHER           -> Become(c, IF slot[s].code = "ok" THEN "ended" ELSE "notfound", 0)
                                   /\ UNCHANGED <<accepted, left>>
        /\ UNCHANGED <<storeVars, mu, sweep, faults, histVars>>

\* The client stops waiting, and its request stays under way unless only the
\* answer was missing: the HTTP client's timeout or a connection lost, and it
\* tries again;
TimeOut(c) ==
    LET s == client[c].slot
    IN  /\ s # 0
        /\ slot[s].pc # "reply"   \* else Break(s)
        /\ Hit(c)
        /\ client' = [client EXCEPT ![c] = TryAgain(@)]
        /\ unsure' = (unsure \/ client[c].pc = "manifest")
        /\ UNCHANGED <<storeVars, slot, mu, sweep, accepted, left, made, restarted>>

\* or an interrupt that cancels the context of the upload.
Interrupt(c) ==
    LET s == client[c].slot
    IN  /\ c = "collector"
        /\ client[c].pc \in Ops
        /\ Hit(c)
        /\ slot' = IF s # 0 /\ slot[s].pc = "reply" THEN [slot EXCEPT ![s] = NoRequest] ELSE slot
        /\ Become(c, "failed", 0)
        /\ unsure' = (unsure \/ client[c].pc = "manifest")
        /\ UNCHANGED <<storeVars, mu, sweep, accepted, left, made, restarted>>

Client(c) == Send(c) \/ Answer(c)

-----------------------------------------------------------------------------
(* The sweep, the clock, a restart.                                        *)

NotSwept == /\ sweep' = NoSweep
            /\ UNCHANGED stored

\* Mutant of SweepDue: the comparison is off by one.
DueEarly == Has(Meta) /\ now + 1 >= expires

SweepDue == Has(Meta) /\ Expired(now)

\* A sweep goes by the clock at its start. Memory is swept in one step. In a
\* directory without metadata nothing can be known to have expired. R2 keeps
\* objects without metadata for a while.
SweepStart ==
    /\ sweep.pc = "idle"
    /\ CASE backend = "memory" /\ SweepDue ->
               Drop(Objects) /\ UNCHANGED sweep
         [] backend # "memory" /\ SweepDue ->
               /\ sweep' = [pc |-> IF backend = "dir" THEN "remove" ELSE "list",
                            at |-> now, listed |-> {}]
               /\ UNCHANGED stored
         [] backend = "r2" /\ ~Has(Meta) /\ Present # {} ->
               /\ sweep' = [pc |-> "orphan", at |-> now, listed |-> {}]
               /\ UNCHANGED stored
         [] OTHER -> NotSwept
    /\ UNCHANGED <<backend, now, expires, slot, mu, clientVars, faults, histVars>>

\* Mutant of SweepOrphan: objects without metadata are skipped.
SkipsOrphans ==
    /\ sweep.pc = "orphan"
    /\ NotSwept
    /\ UNCHANGED <<backend, now, expires, slot, mu, clientVars, faults, histVars>>

\* Objects without metadata go when the newest of them is old enough.
SweepOrphan ==
    /\ sweep.pc = "orphan"
    /\ IF Present # {} /\ \A o \in Present : stored[o] + OrphanAge < sweep.at
       THEN sweep' = [sweep EXCEPT !.pc = "list"] /\ UNCHANGED stored
       ELSE NotSwept
    /\ UNCHANGED <<backend, now, expires, slot, mu, clientVars, faults, histVars>>

SweepList ==
    /\ sweep.pc = "list"
    /\ IF DeleteFinds
       THEN sweep' = [sweep EXCEPT !.pc = "remove", !.listed = Present] /\ UNCHANGED stored
       ELSE NotSwept
    /\ UNCHANGED <<backend, now, expires, slot, mu, clientVars, faults, histVars>>

SweepRemove ==
    /\ sweep.pc = "remove"
    /\ \E gone \in Removals(sweep.listed) :
          /\ Drop(gone)
          /\ sweep' = IF RemoveEnds(gone) THEN NoSweep ELSE sweep
    /\ UNCHANGED <<backend, now, expires, slot, mu, clientVars, faults, histVars>>

Sweep == SweepStart \/ SweepOrphan \/ SweepList \/ SweepRemove

\* An error ends a sweep; the next one begins anew.
SweepFails ==
    /\ sweep.pc # "idle"
    /\ Fault
    /\ RemoveFails(sweep.listed)
    /\ sweep' = NoSweep
    /\ UNCHANGED <<backend, now, expires, slot, mu, clientVars, histVars>>

Tick ==
    /\ now < MaxTime
    /\ now' = now + 1
    /\ UNCHANGED <<backend, stored, expires, slot, mu, sweep, clientVars, faults, histVars>>

\* The relay stops between any two steps and starts again. Only the store in
\* memory loses what it held.
Restart ==
    /\ Fault
    /\ Fail({s \in Slots : slot[s].pc \notin {"free", "arrive"}})
    /\ sweep' = NoSweep
    /\ DeleteBegin
    /\ restarted' = TRUE
    /\ UNCHANGED <<backend, now, expires, made>>

Next ==
    \/ \E s \in Slots : Handle(s) \/ DeleteFails(s) \/ Break(s)
    \/ \E c \in Clients : Use(c) \/ Client(c) \/ TimeOut(c) \/ Interrupt(c)
    \/ Sweep \/ SweepFails
    \/ Tick
    \/ Restart

Spec == Init /\ [][Next]_vars

\* Handlers run, clients send and use what they get, the ticker sweeps, time
\* passes. Nobody has to use the token, and no fault has to happen.
Fairness ==
    /\ \A s \in Slots : WF_vars(Handle(s))
    /\ \A c \in Clients : WF_vars(Client(c))
    /\ WF_vars(Sweep)
    /\ WF_vars(Tick)

FairSpec == Spec /\ Fairness

-----------------------------------------------------------------------------
(* Properties.                                                             *)

\* The state of the stores, the requests in flight and the clients is what their
\* types say.
TypeOK ==
    /\ backend \in Backends
    /\ now \in 1 .. MaxTime
    /\ stored \in [Objects -> 0 .. MaxTime]
    /\ expires \in Nat
    /\ slot \in [Slots -> Request]
    /\ mu \in 0 .. MaxSlots
    /\ sweep \in [pc : {"idle", "orphan", "list", "remove"}, at : Nat,
                  listed : SUBSET Objects]
    /\ client \in [Clients -> [pc : Ops \cup {"off", "ok", "failed", "loaded",
                                             "notfound", "ended"},
                               i : 0 .. ChunkCount, tries : 0 .. Attempts - 1,
                               slot : 0 .. MaxSlots]]
    /\ accepted \in BOOLEAN
    /\ left \subseteq Indexes
    /\ faults \in 0 .. MaxFaults
    /\ made \in Nat
    /\ restarted \in BOOLEAN
    /\ unsure \in BOOLEAN

\* The artifact may be gone: its time is over, "aken-mcp end" was used, or a
\* relay that keeps it in memory was restarted.
GoneByRight ==
    \/ now >= expires
    \/ client["end"].pc # "off"
    \/ backend = "memory" /\ restarted

Complete == {Meta, Manifest} \cup Chunks \subseteq Present

\* An upload that was reported as done (the token is printed) is on the relay
\* with its metadata, its manifest and every chunk until it may be gone,
\* whatever was retried, lost or late, and although the relay counts the
\* chunks and puts the manifest in different accesses to the store. What Load
\* tells of a 404, "it expired, was deleted, or the upload did not finish", is
\* then true, and never for its third reason: the token came after the upload.
\* A late PUT that creates the session a second time, after it had expired, is
\* outside of this: "made" counts.
SuccessKept ==
    made = 1 =>
        /\ client["collector"].pc = "ok" => Complete \/ GoneByRight
        /\ client["reader"].pc = "notfound" => GoneByRight

\* What upload tells of a failure. After "Nothing was uploaded" there is no
\* manifest on the relay. It calls an upload failed that is complete only if
\* a PUT of its manifest remained without an answer: the next attempt gets
\* the 409 that PutManifest hands on.
FailureTold ==
    client["collector"].pc = "failed" =>
        /\ ~accepted => ~Has(Manifest)
        /\ Has(Manifest) => unsure

\* Once a DELETE was answered with 204 the session is not found again,
\* although requests from before may still write below its ID. Without such
\* requests nothing at all is left.
EndIsFinal ==
    client["end"].pc = "ended" /\ made = 1 =>
        /\ ~Has(Meta)
        /\ faults = 0 => Present = {}

\* Nothing is stored that a sweep should have removed by now. A directory
\* without metadata, left by an interrupted create or delete, is never swept.
Swept ==
    \/ Present = {}
    \/ Has(Meta) /\ now < expires
    \/ /\ backend = "r2" /\ ~Has(Meta)
       /\ \E o \in Present : stored[o] + OrphanAge >= now
    \/ backend = "dir" /\ ~Has(Meta) /\ faults > 0

\* Sweeps and expiry leave nothing behind in the end: not of an upload that
\* was cut off, not of one that was deleted while it was written, not when a
\* DeleteSession failed half-way and its error was ignored.
Reclaimed == <>[]Swept

\* The collector comes to an end, with the token or with an error: no request
\* waits for ever for live.mu or for a retry.
UploadEnds == <>(client["collector"].pc \in {"ok", "failed"})
=============================================================================
