-------------------------- MODULE UploadStepProofs --------------------------
(***************************************************************************)
(* Types of Upload, and what a step may do to a request, a client and the  *)
(* store: whose request a slot holds, and how a request gets where it is.  *)
(***************************************************************************)
EXTENDS Upload, TLAPS

\* A client and what it waits for.
Asker ==
    [pc : Ops \cup {"off", "ok", "failed", "loaded", "notfound", "ended"},
     i : 0 .. ChunkCount, tries : 0 .. Attempts - 1, slot : 0 .. MaxSlots]

-----------------------------------------------------------------------------
(* The operators of the model.                                             *)

\* The objects of a session are told apart by their names.
LEMMA ObjectNames ==
    /\ Meta \in Objects /\ Manifest \in Objects /\ Dir \in Objects /\ ChunkDir \in Objects
    /\ Chunks \subseteq Objects
    /\ \A i \in Indexes : Chunk(i) \in Chunks
    /\ Meta # Manifest /\ Meta # Dir /\ Meta # ChunkDir
    /\ Manifest # Dir /\ Manifest # ChunkDir /\ Dir # ChunkDir
    /\ Meta \notin Chunks /\ Manifest \notin Chunks /\ Dir \notin Chunks
    /\ ChunkDir \notin Chunks
    /\ \A i, j \in Indexes : Chunk(i) = Chunk(j) => i = j
BY Zenon DEF Objects, Chunks, Chunk, Meta, Manifest, Dir, ChunkDir, Indexes

\* A request moved to another label is otherwise the same.
LEMMA GotoIs ==
    ASSUME NEW r \in Request, NEW label \in Labels
    PROVE  LET q == Goto(r, label) IN
           /\ q \in Request
           /\ q.pc = label /\ q.op = r.op /\ q.i = r.i /\ q.at = r.at
           /\ q.listed = r.listed /\ q.code = r.code
BY Zenon DEF Goto, Request

\* A free slot holds no request.
LEMMA NoRequestIs ==
    NoRequest \in Request /\ NoRequest.pc = "free" /\ NoRequest.at = 0
BY StoreAssumption DEF NoRequest, Request, Labels, Ops, Codes

\* An answer goes to the client that waits, and otherwise nowhere.
LEMMA AnsweredIs ==
    ASSUME NEW s, NEW r \in Request, NEW code \in Codes
    PROVE  LET q == Answered(s, r, code) IN
           /\ q \in Request
           /\ ~Waited(s) => q = NoRequest
           /\ Waited(s) => /\ q.pc = "reply" /\ q.op = r.op /\ q.i = r.i /\ q.at = r.at
                           /\ q.code = code
<1> DEFINE a == [r EXCEPT !.pc = "reply", !.code = code, !.listed = {}]
<1>1. a \in Request /\ a.pc = "reply" /\ a.op = r.op /\ a.i = r.i /\ a.at = r.at
      /\ a.code = code
    BY Zenon DEF Request, Labels
<1> QED
    BY <1>1, NoRequestIs, Zenon DEF Answered

\* The clock of the handler is noted in the request.
LEMMA StampIs ==
    ASSUME NEW r \in Request, NEW t \in Nat
    PROVE  LET q == [r EXCEPT !.at = t] IN
           /\ q \in Request /\ q.at = t
           /\ q.pc = r.pc /\ q.op = r.op /\ q.i = r.i /\ q.listed = r.listed
BY Zenon DEF Request

\* What a request at its label is about. (handler.go: each handler passes
\* through the labels of its own operation only)
LabelOK(r) ==
    /\ r.pc \in {"mkdir", "create", "mkchunks", "created"} => r.op = "create"
    /\ r.pc \in {"mkdir", "mkchunks"} => backend = "dir"
    /\ r.pc \in {"lockDelete", "delete", "deleteRemove"} => r.op = "delete"
    /\ r.pc \in {"evictRemove", "deleteRemove"} => backend # "memory"
    /\ r.pc \in {"readMeta", "count", "stat"} => r.op = "manifest"
    /\ r.pc \in {"head", "put"} => r.op \in {"chunk", "manifest"}
    /\ r.pc = "get" => r.op \in {"getManifest", "getChunk"}

\* It names a chunk if it is about one, and its clock is not ahead.
AboutOK(r) ==
    /\ r.pc # "free" /\ r.op \in {"chunk", "getChunk"} => r.i \in Indexes
    /\ r.at <= now

\* The request r in slot s becomes q in a step of its handler.
GoesOn(s, r, q) ==
    \/ q = NoRequest /\ ~Waited(s)
    \/ q.pc # "free" /\ q.op = r.op /\ q.i = r.i /\ (q.pc = "reply" => Waited(s))

\* A free slot says nothing about an operation.
LEMMA NoRequestOK == LabelOK(NoRequest) /\ (now \in Nat => AboutOK(NoRequest))
BY DEF LabelOK, AboutOK, NoRequest

\* What handleSession does with a session that is there.
LEMMA OnFoundIs ==
    ASSUME NEW s, NEW r \in Request
    PROVE  LET q == OnFound(s, r) IN
           /\ q \in Request /\ GoesOn(s, r, q)
           /\ q = NoRequest \/ q.at = r.at
           /\ LabelOK(q)
           /\ q.pc \in {"free", "reply", "lockDelete", "head", "put", "stat", "readMeta", "get"}
           /\ q.pc = "reply" =>
                \/ q.op = "create" /\ q.code = "exists"
                \/ q.op = "info" /\ q.code = "ok"
<1> DEFINE q == OnFound(s, r)
<1>0. r.op \in Ops
    BY Zenon DEF Request
<1>1. CASE r.op \in {"create", "info"}
  <2>1. /\ r.op = "create" => q = Answered(s, r, "exists")
        /\ r.op = "info" => q = Answered(s, r, "ok")
      BY <1>1, Zenon DEF OnFound
  <2> HIDE DEF q
  <2>2. "exists" \in Codes /\ "ok" \in Codes
      BY Zenon DEF Codes
  <2>3. /\ q \in Request
        /\ ~Waited(s) => q = NoRequest
        /\ Waited(s) => /\ q.pc = "reply" /\ q.op = r.op /\ q.i = r.i /\ q.at = r.at
                        /\ r.op = "create" => q.code = "exists"
                        /\ r.op = "info" => q.code = "ok"
      BY <1>1, <2>1, <2>2, AnsweredIs
  <2> QED
      BY <1>1, <2>3, NoRequestIs, Zenon DEF GoesOn, LabelOK, q
<1>2. CASE r.op \notin {"create", "info"}
  <2>1. \E label \in {"lockDelete", "head", "put", "stat", "readMeta", "get"} :
           /\ q = Goto(r, label)
           /\ label = "lockDelete" => r.op = "delete"
           /\ label \in {"readMeta", "stat"} => r.op = "manifest"
           /\ label \in {"head", "put"} => r.op = "chunk"
           /\ label = "get" => r.op \in {"getManifest", "getChunk"}
      BY <1>0, <1>2, Zenon DEF OnFound, PutStart, Ops
  <2> HIDE DEF q
  <2>2. PICK label \in {"lockDelete", "head", "put", "stat", "readMeta", "get"} :
           /\ q = Goto(r, label)
           /\ label = "lockDelete" => r.op = "delete"
           /\ label \in {"readMeta", "stat"} => r.op = "manifest"
           /\ label \in {"head", "put"} => r.op = "chunk"
           /\ label = "get" => r.op \in {"getManifest", "getChunk"}
      BY <2>1, Zenon
  <2>3. label \in Labels
      BY Zenon DEF Labels
  <2>4. q \in Request /\ q.pc = label /\ q.op = r.op /\ q.i = r.i /\ q.at = r.at
      BY <2>2, <2>3, GotoIs, Zenon
  <2> QED
      BY <2>2, <2>4, Zenon DEF GoesOn, LabelOK, q
<1> QED
    BY <1>1, <1>2, Zenon

\* What it does without one.
LEMMA OnMissingIs ==
    ASSUME NEW s, NEW r \in Request
    PROVE  LET q == OnMissing(s, r) IN
           /\ q \in Request /\ GoesOn(s, r, q)
           /\ q = NoRequest \/ q.at = r.at
           /\ LabelOK(q)
           /\ q.pc \in {"free", "reply", "mkdir", "create"}
           /\ q.pc = "reply" => q.op # "create" /\ q.code = "notfound"
<1> DEFINE q == OnMissing(s, r)
<1>1. CASE r.op # "create"
  <2>1. q = Answered(s, r, "notfound")
      BY <1>1, Zenon DEF OnMissing
  <2> HIDE DEF q
  <2>2. "notfound" \in Codes
      BY Zenon DEF Codes
  <2>3. /\ q \in Request
        /\ ~Waited(s) => q = NoRequest
        /\ Waited(s) => /\ q.pc = "reply" /\ q.op = r.op /\ q.i = r.i /\ q.at = r.at
                        /\ q.code = "notfound"
      BY <2>1, <2>2, AnsweredIs
  <2> QED
      BY <1>1, <2>3, NoRequestIs, Zenon DEF GoesOn, LabelOK, q
<1>2. CASE r.op = "create"
  <2>1. \E label \in {"mkdir", "create"} :
           q = Goto(r, label) /\ (label = "mkdir" => backend = "dir")
      BY <1>2, Zenon DEF OnMissing
  <2> HIDE DEF q
  <2>2. PICK label \in {"mkdir", "create"} :
           q = Goto(r, label) /\ (label = "mkdir" => backend = "dir")
      BY <2>1, Zenon
  <2>3. label \in Labels
      BY Zenon DEF Labels
  <2>4. q \in Request /\ q.pc = label /\ q.op = r.op /\ q.i = r.i /\ q.at = r.at
      BY <2>2, <2>3, GotoIs, Zenon
  <2> QED
      BY <1>2, <2>2, <2>4, Zenon DEF GoesOn, LabelOK, q
<1> QED
    BY <1>1, <1>2, Zenon

-----------------------------------------------------------------------------
(* Types.                                                                  *)

\* TypeOK, and every request and client is about what its label says.
TypeInv ==
    /\ TypeOK
    /\ \A s \in Slots : LabelOK(slot[s]) /\ AboutOK(slot[s])
    /\ \A c \in Clients : client[c].pc \in {"chunk", "getChunk"} => client[c].i \in Indexes

\* Slot s goes on to a request that is what its label says.
SlotStep(s) ==
    \E q \in Request :
        /\ slot' = [slot EXCEPT ![s] = q]
        /\ GoesOn(s, slot[s], q) /\ LabelOK(q) /\ AboutOK(q)

\* The codes of the store.
LEMMA StoreCodes ==
    ASSUME NEW o
    PROVE  WriteCode(o) \in Codes /\ PutCode(o) \in Codes
BY Zenon DEF WriteCode, PutCode, Codes

\* An answer is such a step.
LEMMA AnsweredStep ==
    ASSUME TypeInv, NEW s \in Slots, NEW r \in Request, NEW code \in Codes,
           r.op = slot[s].op, r.i = slot[s].i, r.at <= now, slot[s].pc # "free",
           Set(s, Answered(s, r, code))
    PROVE  SlotStep(s)
<1> DEFINE q == Answered(s, r, code)
<1>1. /\ q \in Request
      /\ ~Waited(s) => q = NoRequest
      /\ Waited(s) => q.pc = "reply" /\ q.op = r.op /\ q.i = r.i /\ q.at = r.at
    BY AnsweredIs
<1>2. slot' = [slot EXCEPT ![s] = q]
    BY Zenon DEF Set
<1>3. now \in Nat /\ (slot[s].op \in {"chunk", "getChunk"} => slot[s].i \in Indexes)
    BY DEF TypeInv, TypeOK, AboutOK
<1> HIDE DEF q
<1>4. GoesOn(s, slot[s], q) /\ LabelOK(q) /\ AboutOK(q)
  <2>1. CASE ~Waited(s)
      BY <1>1, <1>3, <2>1, NoRequestOK, Zenon DEF GoesOn
  <2>2. CASE Waited(s)
    <3>1. q.pc = "reply" /\ q.op = slot[s].op /\ q.i = slot[s].i /\ q.at <= now
        BY <1>1, <2>2, Zenon
    <3> QED
        BY <2>2, <3>1, <1>3, Zenon DEF GoesOn, LabelOK, AboutOK
  <2> QED
      BY <2>1, <2>2, Zenon
<1> QED
    BY <1>1, <1>2, <1>4, Zenon DEF SlotStep

\* So is moving on to a label of the same operation.
LEMMA MovedStep ==
    ASSUME TypeInv, NEW s \in Slots, slot[s].pc # "free", NEW q \in Request,
           q.op = slot[s].op, q.i = slot[s].i, q.at = slot[s].at,
           q.pc \notin {"free", "reply"}, LabelOK(q), Set(s, q)
    PROVE  SlotStep(s)
<1>1. AboutOK(q) /\ GoesOn(s, slot[s], q)
    BY Zenon DEF TypeInv, AboutOK, GoesOn
<1> QED
    BY <1>1, Zenon DEF SlotStep, Set

\* So is what handleSession makes of a session that is found or missing.
LEMMA SessionStep ==
    ASSUME TypeInv, NEW s \in Slots, NEW r \in Request, NEW q \in Request,
           slot[s].pc # "free", r.op = slot[s].op, r.i = slot[s].i, r.at <= now,
           GoesOn(s, r, q), q = NoRequest \/ q.at = r.at, LabelOK(q), Set(s, q)
    PROVE  SlotStep(s)
<1>1. now \in Nat /\ (slot[s].op \in {"chunk", "getChunk"} => slot[s].i \in Indexes)
    BY DEF TypeInv, TypeOK, AboutOK
<1>2. CASE q = NoRequest /\ ~Waited(s)
    BY <1>1, <1>2, NoRequestOK, Zenon DEF SlotStep, Set, GoesOn
<1>3. CASE q.pc # "free" /\ q.op = r.op /\ q.i = r.i /\ (q.pc = "reply" => Waited(s))
  <2>1. GoesOn(s, slot[s], q)
      BY <1>3, Zenon DEF GoesOn
  <2>2. AboutOK(q)
      BY <1>1, <1>3, NoRequestOK, Zenon DEF AboutOK
  <2> QED
      BY <2>1, <2>2, Zenon DEF SlotStep, Set
<1> QED
    BY <1>2, <1>3, Zenon DEF GoesOn

\* So is the end of a DeleteSession.
LEMMA DeletedStep ==
    ASSUME TypeInv, NEW s \in Slots, NEW code \in Codes,
           slot[s].pc \in {"evict", "evictRemove", "delete", "deleteRemove"},
           Deleted(s, slot[s], code)
    PROVE  SlotStep(s) /\ mu' = 0
<1> DEFINE r == slot[s]
<1>1. r \in Request /\ r.at <= now /\ r.pc # "free"
    BY Zenon DEF TypeInv, TypeOK, AboutOK
<1>2. CASE r.pc \in {"evict", "evictRemove"}
  <2> DEFINE u == [r EXCEPT !.listed = {}]
             q == OnMissing(s, u)
  <2>1. u \in Request /\ u.op = r.op /\ u.i = r.i /\ u.at = r.at
      BY <1>1, Zenon DEF Request
  <2>2. Set(s, q)
      BY <1>2, Zenon DEF Deleted
  <2> HIDE DEF u
  <2>3. q \in Request /\ GoesOn(s, u, q) /\ (q = NoRequest \/ q.at = u.at) /\ LabelOK(q)
      BY <2>1, OnMissingIs, Zenon
  <2> HIDE DEF q
  <2>4. SlotStep(s)
      BY <1>1, <2>1, <2>2, <2>3, SessionStep, Zenon
  <2> QED
      BY <2>4, Zenon DEF Deleted
<1>3. CASE r.pc \notin {"evict", "evictRemove"}
  <2>1. Set(s, Answered(s, r, code))
      BY <1>3, Zenon DEF Deleted
  <2>2. SlotStep(s)
      BY <1>1, <2>1, AnsweredStep, Zenon
  <2> QED
      BY <2>2, Zenon DEF Deleted
<1> QED
    BY <1>2, <1>3, Zenon

\* So is going on to a label that fits the operation.
LEMMA GotoStep ==
    ASSUME TypeInv, NEW s \in Slots, slot[s].pc # "free",
           NEW label \in Labels \ {"free", "reply"},
           \A q \in Request : q.pc = label /\ q.op = slot[s].op => LabelOK(q),
           Set(s, Goto(slot[s], label))
    PROVE  SlotStep(s)
<1> DEFINE q == Goto(slot[s], label)
<1>1. slot[s] \in Request
    BY Zenon DEF TypeInv, TypeOK
<1>2. q \in Request /\ q.pc = label /\ q.op = slot[s].op /\ q.i = slot[s].i
      /\ q.at = slot[s].at
    BY <1>1, GotoIs, Zenon
<1> HIDE DEF q
<1>3. LabelOK(q)
    BY <1>2, Zenon
<1> QED
    BY <1>2, <1>3, MovedStep, Zenon DEF q

\* Every step of a handler moves its own slot, or fails.
LEMMA HandleStep ==
    ASSUME TypeInv, NEW s \in Slots, Handle(s) \/ DeleteFails(s)
    PROVE  \/ Fail({s})
           \/ SlotStep(s) /\ mu' \in {mu, 0, s} /\ UNCHANGED <<clientVars, unsure>>
<1> DEFINE r == slot[s]
<1>0. r \in Request /\ r.at <= now /\ LabelOK(r) /\ now \in Nat
    BY DEF TypeInv, TypeOK, AboutOK
<1> HIDE DEF r
<1>1. CASE Arrive(s)
  <2> DEFINE u == [slot[s] EXCEPT !.at = now]
             q == IF ~SessionFound THEN OnMissing(s, u)
                  ELSE IF Expired(now) THEN Goto(u, "lock") ELSE OnFound(s, u)
  <2>1. Set(s, q) /\ slot[s].pc # "free" /\ UNCHANGED <<mu, clientVars, unsure>>
      BY <1>1, Zenon DEF Arrive, histVars
  <2>2. u \in Request /\ u.op = r.op /\ u.i = r.i /\ u.at = now
      BY <1>0, StampIs, Zenon DEF r
  <2>3. u.at <= now
      BY <1>0, <2>2
  <2> HIDE DEF u
  <2>4. "lock" \in Labels
      BY Zenon DEF Labels
  <2>5. LET g == Goto(u, "lock") IN
        g \in Request /\ g.pc = "lock" /\ g.op = u.op /\ g.i = u.i /\ g.at = u.at
      BY <2>2, <2>4, GotoIs, Zenon
  <2>6. LET g == Goto(u, "lock") IN GoesOn(s, u, g) /\ LabelOK(g)
      BY <2>5, Zenon DEF GoesOn, LabelOK
  <2>7. q \in Request /\ GoesOn(s, u, q) /\ (q = NoRequest \/ q.at = u.at) /\ LabelOK(q)
      BY <2>2, <2>5, <2>6, OnMissingIs, OnFoundIs, Zenon
  <2> HIDE DEF q
  <2> QED
      BY <2>1, <2>2, <2>3, <2>7, SessionStep, Zenon DEF r
<1>2. CASE Lock(s)
  <2>1. slot[s].pc # "free" /\ UNCHANGED <<clientVars, unsure>> /\ mu' \in {mu, 0, s}
      BY <1>2, Zenon DEF Lock, histVars
  <2>2. CASE Set(s, Goto(r, "evict"))
    <3>1. \A q \in Request : q.pc = "evict" /\ q.op = slot[s].op => LabelOK(q)
        BY Zenon DEF LabelOK
    <3> QED
        BY <2>1, <2>2, <3>1, GotoStep, Zenon DEF r, Labels
  <2>3. CASE Set(s, OnFound(s, r))
      BY <1>0, <2>1, <2>3, OnFoundIs, SessionStep, Zenon DEF r
  <2>4. CASE Set(s, OnMissing(s, r))
      BY <1>0, <2>1, <2>4, OnMissingIs, SessionStep, Zenon DEF r
  <2> QED
      BY <1>2, <2>2, <2>3, <2>4, Zenon DEF Lock, r
<1>3. CASE LockDelete(s)
  <2>1. \A q \in Request : q.pc = "delete" /\ q.op = slot[s].op => LabelOK(q)
      BY <1>0, <1>3, Zenon DEF LabelOK, LockDelete, r
  <2>2. slot[s].pc # "free" /\ Set(s, Goto(slot[s], "delete")) /\ mu' = s
        /\ UNCHANGED <<clientVars, unsure>>
      BY <1>3, Zenon DEF LockDelete, histVars
  <2>3. SlotStep(s)
      BY <2>1, <2>2, GotoStep, Zenon DEF Labels
  <2> QED
      BY <2>2, <2>3, Zenon
<1>4. CASE Delete(s)
  <2>1. UNCHANGED <<clientVars, unsure>> /\ r.pc \in {"evict", "delete"}
      BY <1>4, Zenon DEF Delete, histVars, r
  <2>2. CASE DeleteFinds /\ backend # "memory"
    <3> DEFINE label == IF r.pc = "evict" THEN "evictRemove" ELSE "deleteRemove"
               os == IF backend = "r2" THEN Present ELSE {}
               q == [r EXCEPT !.pc = label, !.listed = os]
    <3>1. label \in Labels /\ os \in SUBSET Objects
        BY Zenon DEF Labels, Present
    <3>2. Set(s, [r EXCEPT !.pc = IF @ = "evict" THEN "evictRemove" ELSE "deleteRemove",
                           !.listed = os])
          /\ mu' = mu
        BY <1>4, <2>2, Zenon DEF Delete, r
    <3>3. Set(s, q)
        BY <1>0, <3>2, Zenon DEF Request
    <3> HIDE DEF os, label
    <3>4. q \in Request /\ q.pc = label /\ q.op = r.op /\ q.i = r.i /\ q.at = r.at
        BY <1>0, <3>1, Zenon DEF Request
    <3> HIDE DEF q
    <3>5. LabelOK(q) /\ q.pc \notin {"free", "reply"}
        BY <1>0, <2>1, <2>2, <3>4, Zenon DEF LabelOK, label
    <3>6. SlotStep(s)
        BY <2>1, <3>3, <3>4, <3>5, MovedStep, Zenon DEF r
    <3> QED
        BY <2>1, <3>2, <3>6, Zenon
  <2>3. CASE ~(DeleteFinds /\ backend # "memory")
    <3> DEFINE code == IF DeleteFinds THEN "ok" ELSE "notfound"
    <3>1. code \in Codes
        BY Zenon DEF Codes
    <3>2. Deleted(s, slot[s], code)
        BY <1>4, <2>3, Zenon DEF Delete
    <3> HIDE DEF code
    <3> QED
        BY <2>1, <3>1, <3>2, DeletedStep, Zenon DEF r
  <2> QED
      BY <2>2, <2>3, Zenon
<1>5. CASE Remove(s)
  <2>1. UNCHANGED <<clientVars, unsure>> /\ r.pc \in {"evictRemove", "deleteRemove"}
      BY <1>5, Zenon DEF Remove, histVars, r
  <2>2. CASE Deleted(s, r, "ok")
      BY <2>1, <2>2, DeletedStep, Zenon DEF r, Codes
  <2>3. CASE UNCHANGED <<slot, mu>>
    <3>1. slot \in [Slots -> Request]
        BY Zenon DEF TypeInv, TypeOK
    <3>2. slot' = [slot EXCEPT ![s] = r]
        BY <2>3, <3>1, Zenon DEF r
    <3>3. GoesOn(s, slot[s], r) /\ LabelOK(r) /\ AboutOK(r)
        BY <2>1, Zenon DEF TypeInv, r, GoesOn
    <3> QED
        BY <1>0, <2>1, <2>3, <3>2, <3>3, Zenon DEF SlotStep
  <2> QED
      BY <1>5, <2>2, <2>3, Zenon DEF Remove, r
<1>6. CASE Mkdir(s)
  <2>1. slot[s].pc # "free" /\ UNCHANGED <<mu, clientVars, unsure>> /\ r.op = "create"
      BY <1>0, <1>6, Zenon DEF Mkdir, histVars, r, LabelOK
  <2>2. CASE Set(s, Goto(slot[s], "create"))
    <3>1. \A q \in Request : q.pc = "create" /\ q.op = slot[s].op => LabelOK(q)
        BY <2>1, Zenon DEF LabelOK, r
    <3> QED
        BY <2>1, <2>2, <3>1, GotoStep, Zenon DEF Labels
  <2>3. CASE Set(s, Answered(s, slot[s], WriteCode(Dir)))
      BY <1>0, <2>1, <2>3, AnsweredStep, StoreCodes, Zenon DEF r
  <2> QED
      BY <1>6, <2>2, <2>3, Zenon DEF Mkdir
<1>7. CASE Create(s)
  <2>1. slot[s].pc # "free" /\ UNCHANGED <<mu, clientVars, unsure>> /\ r.op = "create"
      BY <1>0, <1>7, Zenon DEF Create, r, LabelOK
  <2>2. CASE WriteCode(Meta) = "ok"
    <3> DEFINE label == IF backend = "dir" THEN "mkchunks" ELSE "created"
    <3>1. Set(s, Goto(slot[s], label))
        BY <1>7, <2>2, Zenon DEF Create
    <3>2. \A q \in Request : q.pc = label /\ q.op = slot[s].op => LabelOK(q)
        BY <2>1, Zenon DEF LabelOK, r
    <3>3. label \in Labels \ {"free", "reply"}
        BY Zenon DEF Labels
    <3> HIDE DEF label
    <3> QED
        BY <2>1, <3>1, <3>2, <3>3, GotoStep, Zenon
  <2>3. CASE WriteCode(Meta) # "ok"
    <3>1. Set(s, Answered(s, slot[s], WriteCode(Meta)))
        BY <1>7, <2>3, Zenon DEF Create
    <3> QED
        BY <1>0, <2>1, <3>1, AnsweredStep, StoreCodes, Zenon DEF r
  <2> QED
      BY <2>2, <2>3, Zenon
<1>8. CASE MkChunks(s)
  <2>1. CASE WriteCode(ChunkDir) = "ok"
    <3>1. slot[s].pc # "free" /\ UNCHANGED <<mu, clientVars, unsure>> /\ r.op = "create"
          /\ Set(s, Goto(slot[s], "created"))
        BY <1>0, <1>8, <2>1, Zenon DEF MkChunks, r, LabelOK
    <3>2. \A q \in Request : q.pc = "created" /\ q.op = slot[s].op => LabelOK(q)
        BY <3>1, Zenon DEF LabelOK, r
    <3> QED
        BY <3>1, <3>2, GotoStep, Zenon DEF Labels
  <2> QED
      BY <1>8, <2>1, Zenon DEF MkChunks
<1>9. CASE Created(s) \/ GetObject(s)
  <2>1. slot[s].pc # "free" /\ UNCHANGED <<mu, clientVars, unsure>>
      BY <1>9, Zenon DEF Created, GetObject, histVars
  <2>2. PICK code \in {"ok", "notfound"} : Set(s, Answered(s, slot[s], code))
      BY <1>9, Zenon DEF Created, GetObject
  <2> QED
      BY <1>0, <2>1, <2>2, AnsweredStep, Zenon DEF r, Codes
<1>10. CASE ReadMeta(s) \/ Head(s)
  <2>1. slot[s].pc # "free" /\ UNCHANGED <<mu, clientVars, unsure>>
      BY <1>10, Zenon DEF ReadMeta, Head, histVars
  <2>2. CASE Set(s, Answered(s, slot[s], "notfound"))
      BY <1>0, <2>1, <2>2, AnsweredStep, Zenon DEF r, Codes
  <2>3. CASE ReadMeta(s) /\ Set(s, Goto(slot[s], "count"))
    <3>1. \A q \in Request : q.pc = "count" /\ q.op = slot[s].op => LabelOK(q)
        BY <1>0, <2>3, Zenon DEF LabelOK, r, ReadMeta
    <3> QED
        BY <2>1, <2>3, <3>1, GotoStep, Zenon DEF Labels
  <2>4. CASE Head(s) /\ Set(s, Goto(slot[s], "put"))
    <3>1. \A q \in Request : q.pc = "put" /\ q.op = slot[s].op => LabelOK(q)
        BY <1>0, <2>4, Zenon DEF LabelOK, r, Head
    <3> QED
        BY <2>1, <2>4, <3>1, GotoStep, Zenon DEF Labels
  <2> QED
      BY <1>10, <2>2, <2>3, <2>4, Zenon DEF ReadMeta, Head
<1>11. CASE Count(s) \/ Stat(s)
  <2>1. slot[s].pc # "free" /\ UNCHANGED <<mu, clientVars, unsure>> /\ r.op = "manifest"
      BY <1>0, <1>11, Zenon DEF Count, Stat, histVars, LabelOK, r
  <2>2. CASE \E code \in {"notfound", "exists", "missing"} : Set(s, Answered(s, r, code))
      BY <1>0, <2>1, <2>2, AnsweredStep, Zenon DEF r, Codes
  <2>3. CASE \E label \in {"stat", "put", "head"}, os \in SUBSET Objects :
                Set(s, [r EXCEPT !.pc = label, !.listed = os])
    <3>1. PICK label \in {"stat", "put", "head"}, os \in SUBSET Objects :
                Set(s, [r EXCEPT !.pc = label, !.listed = os])
        BY <2>3, Zenon
    <3> DEFINE q == [r EXCEPT !.pc = label, !.listed = os]
    <3>0. label \in Labels
        BY Zenon DEF Labels
    <3>2. q \in Request /\ q.pc = label /\ q.op = r.op /\ q.i = r.i /\ q.at = r.at
        BY <1>0, <3>0, Zenon DEF Request
    <3>3. Set(s, q)
        BY <3>1, Zenon
    <3> HIDE DEF q
    <3>4. LabelOK(q)
        BY <2>1, <3>2, Zenon DEF LabelOK
    <3> QED
        BY <2>1, <3>2, <3>3, <3>4, MovedStep, Zenon DEF r
  <2>4. CASE Count(s)
    <3>1. Present \cap Chunks \in SUBSET Objects
        BY Zenon DEF Present
    <3>2. Set(s, Answered(s, r, "notfound"))
          \/ Set(s, [r EXCEPT !.pc = "stat", !.listed = Present \cap Chunks])
        BY <2>4, ZenonT(40) DEF Count, r
    <3> QED
        BY <2>2, <2>3, <3>1, <3>2, Zenon
  <2>5. CASE Stat(s)
    <3>1. \/ Set(s, Answered(s, r, "notfound"))
          \/ Set(s, Answered(s, r, "exists"))
          \/ Set(s, Answered(s, r, "missing"))
          \/ Set(s, [r EXCEPT !.pc = PutStart, !.listed = {}])
        BY <2>5, Zenon DEF Stat, r
    <3>2. PutStart \in {"put", "head"} /\ {} \in SUBSET Objects
        BY Zenon DEF PutStart
    <3> QED
        BY <2>2, <2>3, <3>1, <3>2, Zenon
  <2> QED
      BY <1>11, <2>4, <2>5, Zenon
<1>12. CASE PutObject(s)
  <2>1. /\ slot[s].pc # "free" /\ UNCHANGED <<mu, clientVars, unsure>>
        /\ Set(s, Answered(s, slot[s], PutCode(Target(slot[s]))))
      BY <1>12, Zenon DEF PutObject, histVars
  <2> QED
      BY <1>0, <2>1, AnsweredStep, StoreCodes, Zenon DEF r
<1>13. CASE DeleteFails(s)
  <2>1. CASE r.pc \in {"evict", "evictRemove"}
    <3>1. Deleted(s, slot[s], "none") /\ UNCHANGED <<clientVars, unsure>>
        BY <1>13, <2>1, Zenon DEF DeleteFails, r
    <3> QED
        BY <2>1, <3>1, DeletedStep, Zenon DEF r, Codes
  <2> QED
      BY <1>13, <2>1, Zenon DEF DeleteFails, r
<1> QED
    BY <1>1, <1>2, <1>3, <1>4, <1>5, <1>6, <1>7, <1>8, <1>9, <1>10, <1>11, <1>12, <1>13,
       Zenon DEF Handle

\* A client at a new task, or at the next attempt.
LEMMA AskerIs ==
    /\ \A pc \in Ops \cup {"off", "ok", "failed", "loaded", "notfound", "ended"},
          i \in 0 .. ChunkCount :
          LET w == Waiting(pc, i) IN w \in Asker /\ w.pc = pc /\ w.i = i /\ w.slot = 0
    /\ \A k \in Asker :
          LET t == TryAgain(k) IN
          /\ t \in Asker /\ t.slot = 0
          /\ t.pc = "failed" \/ (t.pc = k.pc /\ t.i = k.i)
<1>1. \A pc \in Ops \cup {"off", "ok", "failed", "loaded", "notfound", "ended"},
         i \in 0 .. ChunkCount :
         LET w == Waiting(pc, i) IN w \in Asker /\ w.pc = pc /\ w.i = i /\ w.slot = 0
    BY UploadAssumption DEF Waiting, Asker
<1>2. ASSUME NEW k \in Asker
      PROVE  LET t == TryAgain(k) IN
             /\ t \in Asker /\ t.slot = 0
             /\ t.pc = "failed" \/ (t.pc = k.pc /\ t.i = k.i)
  <2>1. CASE k.tries + 1 = Attempts
      BY <1>1, <2>1, StoreAssumption DEF TryAgain
  <2>2. CASE k.tries + 1 # Attempts
    <3>1. k.tries \in 0 .. Attempts - 1
        BY Zenon DEF Asker
    <3>2. k.tries + 1 \in 0 .. Attempts - 1
        BY <2>2, <3>1, UploadAssumption
    <3> DEFINE n == k.tries + 1
    <3>3. TryAgain(k) = [k EXCEPT !.slot = 0, !.tries = n]
        BY <2>2, Zenon DEF TryAgain, Asker
    <3>4. n \in 0 .. Attempts - 1 /\ 0 \in 0 .. MaxSlots
        BY <3>2, UploadAssumption
    <3> HIDE DEF n
    <3> QED
        BY <3>3, <3>4, Zenon DEF Asker
  <2> QED
      BY <2>1, <2>2, Zenon
<1> QED
    BY <1>1, <1>2, Zenon

\* A step that fails requests frees their slots and leaves the others.
LEMMA FailIs ==
    ASSUME TypeInv, NEW ss \in SUBSET Slots, Fail(ss)
    PROVE  /\ slot' \in [Slots -> Request]
           /\ \A x \in Slots : slot'[x] = IF x \in ss THEN NoRequest ELSE slot[x]
           /\ mu' \in {mu, 0}
           /\ client' \in [Clients -> Asker]
           /\ \A c \in Clients : client'[c] = IF client[c].slot \in ss THEN TryAgain(client[c])
                                              ELSE client[c]
           /\ unsure' = (unsure \/ \E c \in Clients :
                                      client[c].slot \in ss /\ client[c].pc = "manifest")
           /\ UNCHANGED <<accepted, left>>
<1>0. slot \in [Slots -> Request] /\ client \in [Clients -> Asker]
    BY Zenon DEF TypeInv, TypeOK, Asker
<1>1. slot' = [x \in Slots |-> IF x \in ss THEN NoRequest ELSE slot[x]]
    BY Zenon DEF Fail
<1>2. client' = [c \in Clients |->
                   IF c \in {d \in Clients : client[d].slot \in ss} THEN TryAgain(client[c])
                   ELSE client[c]]
    BY Zenon DEF Fail
<1>3. \A c \in Clients : client'[c] = IF client[c].slot \in ss THEN TryAgain(client[c])
                                      ELSE client[c]
    BY <1>2, Zenon
<1>4. \A c \in Clients : client[c] \in Asker /\ TryAgain(client[c]) \in Asker
    BY <1>0, AskerIs, Zenon
<1>5. client' \in [Clients -> Asker]
    BY <1>2, <1>4, Zenon
<1>6. \A x \in Slots : slot'[x] = IF x \in ss THEN NoRequest ELSE slot[x]
    BY <1>1, Zenon
<1>7. slot' \in [Slots -> Request]
    BY <1>0, <1>1, NoRequestIs, Zenon
<1>8. mu' \in {mu, 0} /\ UNCHANGED <<accepted, left>>
    BY Zenon DEF Fail
<1>9. unsure' = (unsure \/ \E c \in {d \in Clients : client[d].slot \in ss} :
                              client[c].pc = "manifest")
    BY Zenon DEF Fail
<1>10. unsure' = (unsure \/ \E c \in Clients :
                               client[c].slot \in ss /\ client[c].pc = "manifest")
    BY <1>9, Zenon
<1> QED
    BY <1>3, <1>5, <1>6, <1>7, <1>8, <1>10, Zenon

\* Slot s writes the object o, which was not there.
Writes(s, o) ==
    /\ \/ Mkdir(s) /\ o = Dir
       \/ Create(s) /\ o = Meta
       \/ MkChunks(s) /\ o = ChunkDir
       \/ PutObject(s) /\ o = Target(slot[s])
    /\ o \in Objects /\ ~Has(o) /\ ParentThere(o)
    /\ stored' = [stored EXCEPT ![o] = now]

\* What may remove an object: a DeleteSession that is under way, a sweep, and
\* a restart of a relay that keeps everything in memory.
Drops ==
    \/ \E s \in Slots : /\ slot[s].pc \in {"evict", "evictRemove", "delete", "deleteRemove"}
                        /\ Delete(s) \/ Remove(s) \/ DeleteFails(s)
    \/ SweepStart /\ SweepDue
    \/ sweep.pc # "idle" /\ (SweepRemove \/ SweepFails)
    \/ Restart /\ backend = "memory"

\* A removal goes through objects of the store.
LEMMA DropSubset ==
    /\ \A listed \in SUBSET Objects : \A gone \in Removals(listed) : gone \in SUBSET Objects
    /\ \A gone \in Unlinks : gone \in SUBSET Objects
<1>1. \A gone \in Unlinks : gone \in SUBSET Objects
    BY ObjectNames, Zenon DEF Unlinks
<1> QED
    BY <1>1, Zenon DEF Removals

\* The object a request is about is one of the store.
LEMMA TargetIs ==
    ASSUME TypeInv, NEW s \in Slots, slot[s].pc \in {"put", "get"}
    PROVE  Target(slot[s]) \in Objects
<1>1. slot[s].op \in {"chunk", "getChunk"} => slot[s].i \in Indexes
    BY Zenon DEF TypeInv, AboutOK
<1> QED
    BY <1>1, ObjectNames, Zenon DEF Target

\* A step leaves the store alone, writes one object or removes some.
LEMMA StoredStep ==
    ASSUME TypeInv, [Next]_vars
    PROVE  \/ stored' = stored
           \/ \E s \in Slots, o \in Objects : Writes(s, o)
           \/ Drops /\ \E os \in SUBSET Objects : Drop(os)
<1>1. ASSUME NEW s \in Slots, Mkdir(s) \/ Create(s) \/ MkChunks(s) \/ PutObject(s)
      PROVE  stored' = stored \/ \E o \in Objects : Writes(s, o)
  <2>1. PutObject(s) => Target(slot[s]) \in Objects
      BY TargetIs, Zenon DEF PutObject
  <2>2. \A o : WriteCode(o) = "ok" => ~Has(o) /\ ParentThere(o)
      BY Zenon DEF WriteCode
  <2>3. \A o : PutCode(o) = "ok" => ~Has(o) /\ ParentThere(o)
      BY <2>2, Zenon DEF PutCode
  <2>4. ASSUME Mkdir(s) PROVE stored' = stored \/ Writes(s, Dir)
      BY <2>2, <2>4, ObjectNames, Zenon DEF Mkdir, Write, Writes
  <2>5. ASSUME Create(s) PROVE stored' = stored \/ Writes(s, Meta)
      BY <2>2, <2>5, ObjectNames, Zenon DEF Create, Write, Writes
  <2>6. ASSUME MkChunks(s) PROVE stored' = stored \/ Writes(s, ChunkDir)
      BY <2>2, <2>6, ObjectNames, Zenon DEF MkChunks, Write, Writes
  <2>7. ASSUME PutObject(s) PROVE stored' = stored \/ Writes(s, Target(slot[s]))
      BY <2>1, <2>3, <2>7, Zenon DEF PutObject, Put, Writes
  <2> QED
      BY <1>1, <2>1, <2>4, <2>5, <2>6, <2>7, ObjectNames, Zenon
<1>2. ASSUME NEW s \in Slots, Delete(s) \/ Remove(s) \/ DeleteFails(s)
      PROVE  stored' = stored \/ (Drops /\ \E os \in SUBSET Objects : Drop(os))
  <2>1. slot[s].pc \in {"evict", "evictRemove", "delete", "deleteRemove"}
      BY <1>2, Zenon DEF Delete, Remove, DeleteFails
  <2>2. slot[s].listed \in SUBSET Objects
      BY Zenon DEF TypeInv, TypeOK, Request
  <2>3. Drops
      BY <1>2, <2>1, Zenon DEF Drops
  <2>4. CASE Delete(s)
      BY <2>3, <2>4, Zenon DEF Delete, DeleteBegin
  <2>5. CASE Remove(s)
      BY <2>2, <2>3, <2>5, DropSubset, Zenon DEF Remove
  <2>6. CASE DeleteFails(s)
    <3>1. RemoveFails(slot[s].listed)
        BY <2>6, Zenon DEF DeleteFails
    <3> QED
        BY <2>2, <2>3, <3>1, Zenon DEF RemoveFails
  <2> QED
      BY <1>2, <2>4, <2>5, <2>6, Zenon
<1>3. ASSUME Sweep \/ SweepFails
      PROVE  stored' = stored \/ (Drops /\ \E os \in SUBSET Objects : Drop(os))
  <2>1. sweep.listed \in SUBSET Objects
      BY Zenon DEF TypeInv, TypeOK
  <2>2. CASE SweepStart
    <3>1. CASE backend = "memory" /\ SweepDue
        BY <2>2, <3>1, Zenon DEF SweepStart, Drops
    <3>2. CASE ~(backend = "memory" /\ SweepDue)
        BY <2>2, <3>2, Zenon DEF SweepStart, NotSwept
    <3> QED
        BY <3>1, <3>2, Zenon
  <2>3. CASE SweepOrphan \/ SweepList
      BY <2>3, Zenon DEF SweepOrphan, SweepList, NotSwept
  <2>4. CASE SweepRemove
    <3>1. sweep.pc # "idle"
        BY <2>4, Zenon DEF SweepRemove
    <3> QED
        BY <2>1, <2>4, <3>1, DropSubset, Zenon DEF SweepRemove, Drops
  <2>5. CASE SweepFails
    <3>1. RemoveFails(sweep.listed) /\ sweep.pc # "idle"
        BY <2>5, Zenon DEF SweepFails
    <3>2. stored' = stored \/ \E os \in SUBSET Objects : Drop(os)
        BY <2>1, <3>1, Zenon DEF RemoveFails
    <3> QED
        BY <2>5, <3>1, <3>2, Zenon DEF Drops
  <2> QED
      BY <1>3, <2>2, <2>3, <2>4, <2>5, Zenon DEF Sweep
<1>4. ASSUME Restart
      PROVE  stored' = stored \/ (Drops /\ \E os \in SUBSET Objects : Drop(os))
    BY <1>4, Zenon DEF Restart, DeleteBegin, Drops
<1>5. ASSUME NEW s \in Slots,
             Arrive(s) \/ Lock(s) \/ LockDelete(s) \/ Created(s) \/ ReadMeta(s) \/ Count(s)
             \/ Stat(s) \/ Head(s) \/ GetObject(s) \/ Break(s)
      PROVE  stored' = stored
    BY <1>5, Zenon DEF storeVars, Arrive, Lock, LockDelete, Created, ReadMeta, Count, Stat, Head,
       GetObject, Break
<1>6. ASSUME NEW c \in Clients, Use(c) \/ Client(c) \/ TimeOut(c) \/ Interrupt(c)
      PROVE  stored' = stored
    BY <1>6, Zenon DEF storeVars, Client, Use, Send, Answer, TimeOut, Interrupt
<1>7. Tick \/ UNCHANGED vars => stored' = stored
    BY Zenon DEF Tick, vars, storeVars
<1> QED
    BY <1>1, <1>2, <1>3, <1>4, <1>5, <1>6, <1>7, Zenon DEF Next, Handle

\* The store keeps times of the clock.
LEMMA StoreType ==
    ASSUME TypeInv, [Next]_vars
    PROVE  /\ backend' = backend
           /\ stored' \in [Objects -> 0 .. MaxTime]
           /\ now' \in 1 .. MaxTime /\ now <= now'
<1>0. stored \in [Objects -> 0 .. MaxTime] /\ now \in 1 .. MaxTime /\ MaxTime \in Nat
    BY UploadAssumption, Zenon DEF TypeInv, TypeOK
<1>1. now \in 0 .. MaxTime /\ 0 \in 0 .. MaxTime /\ now <= now
    BY <1>0
<1>2. backend' = backend
    BY ZenonT(40) DEF Next, vars, storeVars, Handle, Arrive, Lock, LockDelete, Delete, Remove, Mkdir,
       Create, MkChunks, Created, ReadMeta, Count, Stat, Head, PutObject, GetObject,
       DeleteFails, Break, Use, Client, Send, Answer, TimeOut, Interrupt, Sweep, SweepStart,
       SweepOrphan, SweepList, SweepRemove, SweepFails, Tick, Restart
<1>3. now' = now \/ (now < MaxTime /\ now' = now + 1)
    BY ZenonT(40) DEF Next, vars, storeVars, Handle, Arrive, Lock, LockDelete, Delete, Remove, Mkdir,
       Create, MkChunks, Created, ReadMeta, Count, Stat, Head, PutObject, GetObject,
       DeleteFails, Break, Use, Client, Send, Answer, TimeOut, Interrupt, Sweep, SweepStart,
       SweepOrphan, SweepList, SweepRemove, SweepFails, Tick, Restart
<1>4. now' \in 1 .. MaxTime /\ now <= now'
    BY <1>0, <1>3
<1>5. CASE \E os \in SUBSET Objects : Drop(os)
  <2>1. PICK os : stored' = [o \in Objects |-> IF o \in os THEN 0 ELSE stored[o]]
      BY <1>5, Zenon DEF Drop
  <2> QED
      BY <1>0, <1>1, <1>2, <1>4, <2>1, Zenon
<1>6. CASE \E o \in Objects : stored' = [stored EXCEPT ![o] = now]
    BY <1>0, <1>1, <1>2, <1>4, <1>6, Zenon
<1> QED
    BY <1>0, <1>2, <1>4, <1>5, <1>6, StoredStep, Zenon DEF Writes

\* A step goes on in one slot, fails requests, is one of a client, or leaves
\* the requests and the clients alone.
LEMMA AskStep ==
    ASSUME TypeInv, [Next]_vars
    PROVE  \/ \E s \in Slots : SlotStep(s) /\ UNCHANGED <<clientVars, unsure>>
           \/ \E ss \in SUBSET Slots : Fail(ss)
           \/ \E c \in Clients : Use(c) \/ Send(c) \/ Answer(c) \/ TimeOut(c) \/ Interrupt(c)
           \/ UNCHANGED <<slot, clientVars, unsure>>
<1>1. ASSUME NEW s \in Slots, Handle(s) \/ DeleteFails(s) \/ Break(s)
      PROVE  (SlotStep(s) /\ UNCHANGED <<clientVars, unsure>>) \/ Fail({s})
    BY <1>1, HandleStep, Zenon DEF Break
<1>2. \A s \in Slots : {s} \in SUBSET Slots
    BY Zenon
<1>3. Restart => \E ss \in SUBSET Slots : Fail(ss)
  <2>1. {s \in Slots : slot[s].pc \notin {"free", "arrive"}} \in SUBSET Slots
      BY Zenon
  <2> QED
      BY <2>1, Zenon DEF Restart
<1>4. Sweep \/ SweepFails \/ Tick \/ UNCHANGED vars => UNCHANGED <<slot, clientVars, unsure>>
    BY Zenon DEF Sweep, SweepStart, SweepOrphan, SweepList, SweepRemove, SweepFails, Tick, vars,
       histVars
<1> QED
    BY <1>1, <1>2, <1>3, <1>4, Zenon DEF Next, Client

\* What a client does with the answer to its request.
LEMMA AnswerIs ==
    ASSUME TypeInv, NEW c \in Clients, Answer(c)
    PROVE  /\ client[c].slot \in Slots
           /\ slot[client[c].slot].pc = "reply"
           /\ slot' = [slot EXCEPT ![client[c].slot] = NoRequest]
           /\ \E pc \in Ops \cup {"off", "ok", "failed", "loaded", "notfound", "ended"},
                 i \in 0 .. ChunkCount :
                 /\ client' = [client EXCEPT ![c] = Waiting(pc, i)]
                 /\ pc \in {"chunk", "getChunk"} => i \in Indexes
           /\ accepted' \in BOOLEAN /\ (accepted => accepted') /\ left' \subseteq left
           /\ UNCHANGED unsure
<1> DEFINE Pcs == Ops \cup {"off", "ok", "failed", "loaded", "notfound", "ended"}
           To(pc, i) == /\ client' = [client EXCEPT ![c] = Waiting(pc, i)]
                        /\ pc \in {"chunk", "getChunk"} => i \in Indexes
           s == client[c].slot
<1>0. client[c] \in Asker /\ left \subseteq Indexes /\ accepted \in BOOLEAN
    BY Zenon DEF TypeInv, TypeOK, Asker
<1>1. s \in 0 .. MaxSlots /\ client[c].i \in 0 .. ChunkCount
    BY <1>0, Zenon DEF Asker
<1>2. s # 0 /\ slot[s].pc = "reply" /\ slot' = [slot EXCEPT ![s] = NoRequest] /\ UNCHANGED unsure
    BY Zenon DEF Answer, Set, histVars
<1>3. s \in Slots
    BY <1>1, <1>2, UploadAssumption DEF Slots
<1>4. /\ 0 \in 0 .. ChunkCount /\ 1 \in Indexes /\ Indexes \subseteq 0 .. ChunkCount
      /\ \A i \in 0 .. ChunkCount : i < ChunkCount => i + 1 \in Indexes
    BY StoreAssumption DEF Indexes
<1>5. Ops \subseteq Pcs /\ {"create", "chunk", "manifest", "ok", "failed", "info", "getManifest",
        "getChunk", "loaded", "notfound", "ended", "delete"} \subseteq Pcs
    BY Zenon DEF Ops
<1> HIDE DEF Pcs
<1>6. CASE c = "collector"
  <2>1. Uploaded(c, slot[s].code) /\ left' = left
      BY <1>6, Zenon DEF Answer
  <2>2. (\E pc \in Pcs, i \in 0 .. ChunkCount : To(pc, i))
    <3>1. Become(c, "chunk", 1) => \E pc \in Pcs, i \in 0 .. ChunkCount : To(pc, i)
        BY <1>4, <1>5, Zenon DEF Become
    <3>2. \A i \in 0 .. ChunkCount : i < ChunkCount /\ Become(c, "chunk", i + 1) =>
             \E pc \in Pcs, j \in 0 .. ChunkCount : To(pc, j)
        BY <1>4, <1>5, Zenon DEF Become
    <3>3. Become(c, "manifest", 0) \/ Become(c, "ok", 0) \/ Become(c, "failed", 0) =>
             \E pc \in Pcs, i \in 0 .. ChunkCount : To(pc, i)
        BY <1>4, <1>5, Zenon DEF Become
    <3> HIDE DEF To
    <3> QED
        BY <1>1, <2>1, <3>1, <3>2, <3>3, Zenon DEF Uploaded
  <2>3. accepted' \in BOOLEAN /\ (accepted => accepted')
      BY <2>1, Zenon DEF Uploaded
  <2> QED
      BY <1>2, <1>3, <2>1, <2>2, <2>3, Zenon DEF Pcs
<1>7. CASE c = "reader"
  <2>1. Loaded(c, slot[s].code) /\ accepted' = accepted
      BY <1>7, Zenon DEF Answer
  <2>2. (\E pc \in Pcs, i \in 0 .. ChunkCount : To(pc, i)) /\ left' \subseteq left
      BY <1>0, <1>4, <1>5, <2>1, Zenon DEF Loaded, Become
  <2> QED
      BY <1>0, <1>2, <1>3, <2>1, <2>2, Zenon DEF Pcs
<1>8. CASE c = "end"
  <2>1. Become(c, IF slot[s].code = "ok" THEN "ended" ELSE "notfound", 0)
        /\ UNCHANGED <<accepted, left>>
      BY <1>8, Zenon DEF Answer
  <2>2. \E pc \in Pcs, i \in 0 .. ChunkCount : To(pc, i)
      BY <1>4, <1>5, <2>1, Zenon DEF Become
  <2> QED
      BY <1>0, <1>2, <1>3, <2>1, <2>2, Zenon DEF Pcs
<1> QED
    BY <1>6, <1>7, <1>8, Zenon DEF Clients

\* A request that keeps its label keeps what the label says.
LEMMA SlotsKept ==
    ASSUME TypeInv, backend' = backend, now' \in Nat, now <= now', slot' \in [Slots -> Request],
           \A x \in Slots : slot'[x] = slot[x] \/ (LabelOK(slot'[x]) /\ AboutOK(slot'[x]))
    PROVE  \A x \in Slots : LabelOK(slot[x])' /\ AboutOK(slot[x])'
<1> SUFFICES ASSUME NEW x \in Slots PROVE LabelOK(slot[x])' /\ AboutOK(slot[x])'
    OBVIOUS
<1>1. LabelOK(slot'[x]) /\ AboutOK(slot'[x])
    BY Zenon DEF TypeInv
<1>2. LabelOK(slot[x])'
    BY <1>1, Zenon DEF LabelOK
<1>3. slot'[x].at \in Nat /\ now \in Nat /\ slot'[x].at <= now
    BY <1>1 DEF TypeInv, TypeOK, Request, AboutOK
<1>4. slot'[x].at <= now'
    BY <1>3
<1>5. AboutOK(slot[x])'
    BY <1>1, <1>4, Zenon DEF AboutOK
<1> QED
    BY <1>2, <1>5, Zenon

\* A client sends its request into a free slot.
LEMMA SendIs ==
    ASSUME TypeInv, NEW c \in Clients, Send(c)
    PROVE  \E s \in Slots, q \in Request :
             /\ slot[s].pc = "free" /\ slot' = [slot EXCEPT ![s] = q]
             /\ client' = [client EXCEPT ![c].slot = s]
             /\ q.pc = "arrive" /\ q.op = client[c].pc /\ q.i = client[c].i /\ q.at = 0
             /\ client[c].pc \in Ops /\ client[c].slot = 0
             /\ UNCHANGED <<accepted, left, unsure>>
<1>1. PICK s \in Slots :
        /\ slot[s].pc = "free"
        /\ slot' = [slot EXCEPT ![s] = [NoRequest EXCEPT !.pc = "arrive", !.op = client[c].pc,
                                                         !.i = client[c].i]]
        /\ client' = [client EXCEPT ![c].slot = s]
    BY Zenon DEF Send, Set
<1>2. client[c].pc \in Ops /\ client[c].slot = 0 /\ UNCHANGED <<accepted, left, unsure>>
    BY Zenon DEF Send, histVars
<1>3. client[c].i \in 0 .. ChunkCount
    BY Zenon DEF TypeInv, TypeOK
<1> DEFINE q == [NoRequest EXCEPT !.pc = "arrive", !.op = client[c].pc, !.i = client[c].i]
<1>4. q \in Request /\ q.pc = "arrive" /\ q.op = client[c].pc /\ q.i = client[c].i /\ q.at = 0
    BY <1>2, <1>3, Zenon DEF NoRequest, Request, Labels, Codes
<1> HIDE DEF q
<1> QED
    BY <1>1, <1>2, <1>4, Zenon DEF q

\* The requests and the clients keep their types.
LEMMA AskType ==
    ASSUME TypeInv, [Next]_vars
    PROVE  /\ slot' \in [Slots -> Request]
           /\ client' \in [Clients -> Asker]
           /\ accepted' \in BOOLEAN /\ left' \subseteq Indexes /\ unsure' \in BOOLEAN
           /\ \A x \in Slots : slot'[x] = slot[x] \/ (LabelOK(slot'[x]) /\ AboutOK(slot'[x]))
           /\ \A c \in Clients :
                client'[c].pc \in {"chunk", "getChunk"} => client'[c].i \in Indexes
<1> DEFINE Names(k) == k.pc \in {"chunk", "getChunk"} => k.i \in Indexes
<1>0. /\ slot \in [Slots -> Request] /\ client \in [Clients -> Asker]
      /\ accepted \in BOOLEAN /\ left \subseteq Indexes /\ unsure \in BOOLEAN /\ now \in Nat
    BY DEF TypeInv, TypeOK, Asker
<1>n. \A c \in Clients : Names(client[c])
    BY Zenon DEF TypeInv
<1>t. \A k \in Asker : Names(k) => Names(TryAgain(k))
  <2>1. \A k \in Asker : TryAgain(k).pc = "failed"
                        \/ (TryAgain(k).pc = k.pc /\ TryAgain(k).i = k.i)
      BY AskerIs, Zenon
  <2> QED
      BY <2>1, Zenon
<1> SUFFICES /\ slot' \in [Slots -> Request]
             /\ client' \in [Clients -> Asker]
             /\ accepted' \in BOOLEAN /\ left' \subseteq Indexes /\ unsure' \in BOOLEAN
             /\ \A x \in Slots : slot'[x] = slot[x] \/ (LabelOK(slot'[x]) /\ AboutOK(slot'[x]))
             /\ \A c \in Clients : Names(client'[c])
    BY Zenon
<1> HIDE DEF Names
<1>1. CASE \E s \in Slots : SlotStep(s) /\ UNCHANGED <<clientVars, unsure>>
  <2>1. PICK s \in Slots, q \in Request :
           /\ slot' = [slot EXCEPT ![s] = q] /\ LabelOK(q) /\ AboutOK(q)
           /\ UNCHANGED <<clientVars, unsure>>
      BY <1>1, Zenon DEF SlotStep
  <2> QED
      BY <1>0, <1>n, <2>1, Zenon DEF clientVars
<1>2. CASE \E ss \in SUBSET Slots : Fail(ss)
  <2>1. PICK ss \in SUBSET Slots : Fail(ss)
      BY <1>2, Zenon
  <2>2. /\ slot' \in [Slots -> Request] /\ client' \in [Clients -> Asker]
        /\ \A x \in Slots : slot'[x] = slot[x] \/ slot'[x] = NoRequest
        /\ \A c \in Clients : client'[c] = client[c] \/ client'[c] = TryAgain(client[c])
        /\ unsure' \in BOOLEAN /\ UNCHANGED <<accepted, left>>
      BY <1>0, <2>1, FailIs, Zenon
  <2> QED
      BY <1>0, <1>n, <1>t, <2>2, NoRequestOK, Zenon
<1>3. CASE \E c \in Clients : Use(c) \/ TimeOut(c) \/ Interrupt(c)
  <2>1. PICK c \in Clients : Use(c) \/ TimeOut(c) \/ Interrupt(c)
      BY <1>3, Zenon
  <2>2. client[c] \in Asker
      BY <1>0, Zenon
  <2>3. \E k \in Asker : client' = [client EXCEPT ![c] = k] /\ Names(k)
    <3>1. {"info", "delete", "failed"} \subseteq
             Ops \cup {"off", "ok", "failed", "loaded", "notfound", "ended"} /\ 0 \in 0 .. ChunkCount
        BY StoreAssumption DEF Ops
    <3>2. Waiting("info", 0) \in Asker /\ Waiting("delete", 0) \in Asker
          /\ Waiting("failed", 0) \in Asker /\ TryAgain(client[c]) \in Asker
        BY <2>2, <3>1, AskerIs, Zenon
    <3>6. Names(Waiting("info", 0)) /\ Names(Waiting("delete", 0)) /\ Names(Waiting("failed", 0))
          /\ Names(TryAgain(client[c]))
        BY <1>n, <1>t, <2>2, Zenon DEF Names, Waiting
    <3>3. CASE Use(c)
        BY <3>2, <3>3, <3>6, Zenon DEF Use, Become
    <3>4. CASE TimeOut(c)
        BY <3>2, <3>4, <3>6, Zenon DEF TimeOut
    <3>5. CASE Interrupt(c)
        BY <3>2, <3>5, <3>6, Zenon DEF Interrupt, Become
    <3> QED
        BY <2>1, <3>3, <3>4, <3>5, Zenon
  <2>4. slot' = slot \/ slot' = [slot EXCEPT ![client[c].slot] = NoRequest]
      BY <2>1, Zenon DEF Use, TimeOut, Interrupt
  <2>5. unsure' \in BOOLEAN /\ UNCHANGED <<accepted, left>>
      BY <1>0, <2>1, Zenon DEF Use, TimeOut, Interrupt, histVars
  <2> QED
      BY <1>0, <1>n, <2>3, <2>4, <2>5, NoRequestOK, NoRequestIs, Zenon
<1>4. CASE \E c \in Clients : Send(c)
  <2>1. PICK c \in Clients : Send(c)
      BY <1>4, Zenon
  <2>2. PICK s \in Slots, q \in Request :
           /\ slot' = [slot EXCEPT ![s] = q] /\ client' = [client EXCEPT ![c].slot = s]
           /\ q.pc = "arrive" /\ q.op = client[c].pc /\ q.i = client[c].i /\ q.at = 0
           /\ UNCHANGED <<accepted, left, unsure>>
      BY <2>1, SendIs
  <2>3. LabelOK(q) /\ AboutOK(q)
      BY <1>0, <1>n, <2>2 DEF LabelOK, AboutOK, Names
  <2>4. s \in 0 .. MaxSlots
      BY UploadAssumption DEF Slots
  <2>5. client' \in [Clients -> Asker]
      BY <1>0, <2>2, <2>4 DEF Asker
  <2>6. \A d \in Clients : client'[d].pc = client[d].pc /\ client'[d].i = client[d].i
      BY <1>0, <2>2, <2>4 DEF Asker
  <2>7. \A d \in Clients : Names(client'[d])
      BY <1>n, <2>6, Zenon DEF Names
  <2>8. slot' \in [Slots -> Request]
      BY <1>0, <2>2, Zenon
  <2> QED
      BY <1>0, <2>2, <2>3, <2>5, <2>7, <2>8, Zenon
<1>5. CASE \E c \in Clients : Answer(c)
  <2>1. PICK c \in Clients : Answer(c)
      BY <1>5, Zenon
  <2>2. /\ \E x \in Slots : slot' = [slot EXCEPT ![x] = NoRequest]
        /\ \E pc \in Ops \cup {"off", "ok", "failed", "loaded", "notfound", "ended"},
              i \in 0 .. ChunkCount : /\ client' = [client EXCEPT ![c] = Waiting(pc, i)]
                                      /\ pc \in {"chunk", "getChunk"} => i \in Indexes
        /\ accepted' \in BOOLEAN /\ left' \subseteq left /\ UNCHANGED unsure
      BY <2>1, AnswerIs, Zenon
  <2>3. PICK pc \in Ops \cup {"off", "ok", "failed", "loaded", "notfound", "ended"},
             i \in 0 .. ChunkCount : /\ client' = [client EXCEPT ![c] = Waiting(pc, i)]
                                     /\ pc \in {"chunk", "getChunk"} => i \in Indexes
      BY <2>2, Zenon
  <2> DEFINE k == Waiting(pc, i)
  <2>4. k \in Asker /\ k.pc = pc /\ k.i = i
      BY <2>3, AskerIs, Zenon
  <2>5. client' = [client EXCEPT ![c] = k]
      BY <2>3, Zenon
  <2> HIDE DEF k
  <2>6. Names(k)
      BY <2>3, <2>4, Zenon DEF Names
  <2>7. slot' \in [Slots -> Request] /\ \A x \in Slots : slot'[x] = slot[x] \/ slot'[x] = NoRequest
      BY <1>0, <2>2, NoRequestIs, Zenon
  <2>8. client' \in [Clients -> Asker] /\ \A d \in Clients : client'[d] = client[d] \/ client'[d] = k
      BY <1>0, <2>4, <2>5, Zenon
  <2> QED
      BY <1>0, <1>n, <2>2, <2>6, <2>7, <2>8, NoRequestOK, Zenon
<1>6. CASE UNCHANGED <<slot, clientVars, unsure>>
    BY <1>0, <1>n, <1>6, Zenon DEF clientVars
<1> QED
    BY <1>1, <1>2, <1>3, <1>4, <1>5, <1>6, AskStep, Zenon

\* Only writing the metadata counts, and sets the expiry.
LEMMA MadeStep ==
    ASSUME TypeInv, [Next]_vars
    PROVE  \/ made' = made /\ expires' = expires
           \/ \E s \in Slots : /\ Writes(s, Meta) /\ Create(s)
                               /\ made' = made + 1 /\ expires' = slot[s].at + TTL
<1>1. ASSUME NEW s \in Slots, Create(s)
      PROVE  \/ made' = made /\ expires' = expires
             \/ Writes(s, Meta) /\ made' = made + 1 /\ expires' = slot[s].at + TTL
  <2>1. CASE WriteCode(Meta) = "ok"
    <3>1. ~Has(Meta) /\ ParentThere(Meta)
        BY <2>1, Zenon DEF WriteCode
    <3> QED
        BY <1>1, <2>1, <3>1, ObjectNames, Zenon DEF Create, Write, Writes
  <2>2. CASE WriteCode(Meta) # "ok"
      BY <1>1, <2>2, Zenon DEF Create
  <2> QED
      BY <2>1, <2>2, Zenon
<1>2. made' = made \/ \E s \in Slots : Create(s)
    BY Zenon DEF Next, vars, storeVars, histVars, Handle, Arrive, Lock, LockDelete, Delete, Remove,
       Mkdir, MkChunks, Created, ReadMeta, Count, Stat, Head, PutObject, GetObject,
       DeleteFails, Break, Use, Client, Send, Answer, TimeOut, Interrupt, Sweep, SweepStart,
       SweepOrphan, SweepList, SweepRemove, SweepFails, Tick, Restart
<1>3. expires' = expires \/ \E s \in Slots : Create(s)
    BY Zenon DEF Next, vars, storeVars, histVars, Handle, Arrive, Lock, LockDelete, Delete, Remove,
       Mkdir, MkChunks, Created, ReadMeta, Count, Stat, Head, PutObject, GetObject,
       DeleteFails, Break, Use, Client, Send, Answer, TimeOut, Interrupt, Sweep, SweepStart,
       SweepOrphan, SweepList, SweepRemove, SweepFails, Tick, Restart
<1> QED
    BY <1>1, <1>2, <1>3, Zenon

\* The lock is free or held by a slot, and the faults are counted.
LEMMA MuFaults ==
    ASSUME TypeInv, [Next]_vars
    PROVE  /\ mu' \in 0 .. MaxSlots
           /\ faults' \in 0 .. MaxFaults /\ faults <= faults'
<1>0. mu \in 0 .. MaxSlots /\ faults \in 0 .. MaxFaults /\ 0 \in 0 .. MaxSlots
      /\ Slots \subseteq 0 .. MaxSlots
    BY UploadAssumption DEF TypeInv, TypeOK, Slots
<1>1. faults' = faults \/ Fault
    BY Zenon DEF Next, vars, Handle, Arrive, Lock, LockDelete, Delete, Remove,
       Mkdir, Create, MkChunks, Created, ReadMeta, Count, Stat, Head, PutObject, GetObject,
       DeleteFails, Break, Use, Client, Send, Answer, TimeOut, Interrupt, Sweep, SweepStart,
       SweepOrphan, SweepList, SweepRemove, SweepFails, Tick, Restart, Hit
<1>2. faults' \in 0 .. MaxFaults /\ faults <= faults'
    BY <1>0, <1>1, UploadAssumption DEF Fault
<1>3. mu' \in {mu, 0} \cup Slots
  <2>1. ASSUME NEW s \in Slots, Handle(s) \/ DeleteFails(s) \/ Break(s)
        PROVE  mu' \in {mu, 0} \cup Slots
    <3>1. Fail({s}) => mu' \in {mu, 0}
        BY Zenon DEF Fail
    <3>2. Break(s) => Fail({s})
        BY Zenon DEF Break
    <3> QED
        BY <2>1, <3>1, <3>2, HandleStep, Zenon
  <2>2. Restart => mu' \in {mu, 0}
      BY Zenon DEF Restart, Fail
  <2>3. (\E c \in Clients : Use(c) \/ Client(c) \/ TimeOut(c) \/ Interrupt(c))
        \/ Sweep \/ SweepFails \/ Tick \/ UNCHANGED vars => mu' = mu
      BY Zenon DEF Use, Client, Send, Answer, TimeOut, Interrupt, Sweep, SweepStart,
         SweepOrphan, SweepList, SweepRemove, SweepFails, Tick, vars
  <2> QED
      BY <2>1, <2>2, <2>3, Zenon DEF Next
<1> QED
    BY <1>0, <1>2, <1>3, Zenon

\* The sweep goes through its labels.
LEMMA SweepType ==
    ASSUME TypeInv, [Next]_vars
    PROVE  sweep' \in [pc : {"idle", "orphan", "list", "remove"}, at : Nat, listed : SUBSET Objects]
<1> DEFINE Sweeps == [pc : {"idle", "orphan", "list", "remove"}, at : Nat, listed : SUBSET Objects]
<1>0. sweep \in Sweeps /\ now \in Nat
    BY DEF TypeInv, TypeOK
<1>1. NoSweep \in Sweeps /\ Present \in SUBSET Objects
    BY Zenon DEF NoSweep, Present
<1>2. \A label \in {"idle", "orphan", "list", "remove"} :
         [pc |-> label, at |-> now, listed |-> {}] \in Sweeps
    BY <1>0, Zenon
<1>3. [sweep EXCEPT !.pc = "list"] \in Sweeps
    BY <1>0, Zenon
<1>4. [sweep EXCEPT !.pc = "remove", !.listed = Present] \in Sweeps
    BY <1>0, <1>1, Zenon
<1> HIDE DEF Sweeps
<1>5. SweepStart => sweep' \in Sweeps
    BY <1>0, <1>1, <1>2, Zenon DEF SweepStart, NotSwept
<1>6. SweepOrphan \/ SweepList \/ SweepRemove \/ SweepFails \/ Restart => sweep' \in Sweeps
    BY <1>0, <1>1, <1>3, <1>4, Zenon DEF SweepOrphan, SweepList, SweepRemove, SweepFails, Restart,
       NotSwept
<1>7. ~(SweepStart \/ SweepOrphan \/ SweepList \/ SweepRemove \/ SweepFails \/ Restart) =>
         sweep' = sweep
    BY Zenon DEF Next, vars, Handle, Arrive, Lock, LockDelete, Delete, Remove,
       Mkdir, Create, MkChunks, Created, ReadMeta, Count, Stat, Head, PutObject, GetObject,
       DeleteFails, Break, Use, Client, Send, Answer, TimeOut, Interrupt, Sweep, Tick
<1> QED
    BY <1>0, <1>5, <1>6, <1>7, Zenon DEF Sweeps

\* The type invariant holds at the start,
LEMMA InitType == Init => TypeInv
<1> SUFFICES ASSUME Init PROVE TypeInv
    OBVIOUS
<1>1. \A s \in Slots : slot[s] = NoRequest
    BY Zenon DEF Init
<1>2. now = 1 /\ now \in Nat
    BY Zenon DEF Init, StoreInit
<1>3. \A s \in Slots : LabelOK(slot[s]) /\ AboutOK(slot[s])
    BY <1>1, <1>2, NoRequestOK, Zenon
<1>4. client \in [Clients -> Asker]
  <2>1. Waiting("create", 0) \in Asker /\ Waiting("off", 0) \in Asker
      BY UploadAssumption, StoreAssumption DEF Waiting, Asker, Ops
  <2> QED
      BY <2>1, Zenon DEF Init
<1>5. \A c \in Clients : client[c].pc \in {"create", "off"}
    BY Zenon DEF Init, Waiting
<1>6. slot \in [Slots -> Request]
    BY NoRequestIs, Zenon DEF Init
<1>7. stored \in [Objects -> 0 .. MaxTime] /\ now \in 1 .. MaxTime /\ expires \in Nat
      /\ mu \in 0 .. MaxSlots /\ faults \in 0 .. MaxFaults /\ made \in Nat
    BY UploadAssumption DEF Init, StoreInit
<1>8. sweep \in [pc : {"idle", "orphan", "list", "remove"}, at : Nat, listed : SUBSET Objects]
    BY Zenon DEF Init, NoSweep
<1>9. backend \in Backends /\ accepted \in BOOLEAN /\ left \subseteq Indexes
      /\ restarted \in BOOLEAN /\ unsure \in BOOLEAN
    BY Zenon DEF Init, StoreInit
<1> QED
    BY <1>3, <1>4, <1>5, <1>6, <1>7, <1>8, <1>9, Zenon DEF TypeInv, TypeOK, Asker

\* and every step keeps it.
LEMMA NextType == TypeInv /\ [Next]_vars => TypeInv'
<1> SUFFICES ASSUME TypeInv, [Next]_vars PROVE TypeInv'
    OBVIOUS
<1>1. backend \in Backends /\ expires \in Nat /\ made \in Nat /\ restarted \in BOOLEAN
    BY Zenon DEF TypeInv, TypeOK
<1>2. now' \in Nat
    BY StoreType
<1>3. \A x \in Slots : LabelOK(slot[x])' /\ AboutOK(slot[x])'
    BY <1>2, StoreType, AskType, SlotsKept, Zenon
<1>4. expires' \in Nat /\ made' \in Nat
  <2>1. \A s \in Slots : slot[s].at + TTL \in Nat
      BY UploadAssumption DEF TypeInv, TypeOK, Request
  <2> QED
      BY <1>1, <2>1, MadeStep
<1>5. restarted' \in BOOLEAN
  <2>1. restarted' = restarted \/ restarted' = TRUE
      BY ZenonT(40) DEF Next, vars, histVars, Handle, Arrive, Lock, LockDelete, Delete, Remove,
         Mkdir, Create, MkChunks, Created, ReadMeta, Count, Stat, Head, PutObject, GetObject,
         DeleteFails, Break, Use, Client, Send, Answer, TimeOut, Interrupt, Sweep, SweepStart,
         SweepOrphan, SweepList, SweepRemove, SweepFails, Tick, Restart
  <2> QED
      BY <1>1, <2>1, Zenon
<1>6. TypeOK'
    BY <1>1, <1>4, <1>5, StoreType, AskType, MuFaults, SweepType, Zenon DEF TypeOK, Asker
<1> QED
    BY <1>3, <1>6, AskType, Zenon DEF TypeInv

\* The state of the stores, the requests and the clients is what their types say.
THEOREM Typed == Spec => []TypeOK
<1>1. TypeInv => TypeOK
    BY Zenon DEF TypeInv
<1> QED
    BY <1>1, InitType, NextType, PTL DEF Spec

-----------------------------------------------------------------------------
(* Whose request a slot holds.                                             *)

\* The client that waits for a slot waits for its own request, and alone.
OwnInv ==
    /\ \A c \in Clients : client[c].slot # 0 =>
          /\ client[c].pc \in Ops
          /\ slot[client[c].slot].pc # "free"
          /\ slot[client[c].slot].op = client[c].pc
          /\ slot[client[c].slot].i = client[c].i
    /\ \A c, d \in Clients : client[c].slot = client[d].slot /\ client[c].slot # 0 => c = d

\* Each client has its own tasks; the token is used after the upload only.
Tasks(c) ==
    CASE c = "collector" -> {"create", "chunk", "manifest", "ok", "failed"}
      [] c = "reader"    -> {"off", "info", "getManifest", "getChunk", "loaded", "notfound",
                             "failed"}
      [] c = "end"       -> {"off", "delete", "ended", "notfound", "failed"}

Collector == client["collector"]
Reader == client["reader"]
End == client["end"]

RoleInv ==
    /\ \A c \in Clients : client[c].pc \in Tasks(c)
    /\ Reader.pc # "off" \/ End.pc # "off" => Collector.pc = "ok"
    /\ Collector.pc \in {"manifest", "ok"} => accepted

\* The clients, and what they begin with.
LEMMA ClientNames ==
    /\ "collector" \in Clients /\ "reader" \in Clients /\ "end" \in Clients
    /\ \A c \in Clients : c = "collector" \/ c = "reader" \/ c = "end"
    /\ \A c \in Clients : "failed" \in Tasks(c)
    /\ \A c \in Clients : Tasks(c) \subseteq
          Ops \cup {"off", "ok", "failed", "loaded", "notfound", "ended"}
    /\ "collector" # "reader" /\ "collector" # "end" /\ "reader" # "end"
BY Zenon DEF Clients, Tasks, Ops

\* A client that waits for a slot waits for one that is there.
LEMMA SlotOf ==
    ASSUME TypeInv, NEW c \in Clients
    PROVE  /\ client[c] \in Asker
           /\ client[c].slot # 0 => client[c].slot \in Slots
           /\ client[c].slot \notin Slots => client[c].slot = 0
           /\ 0 \notin Slots
<1>1. client[c] \in Asker
    BY Zenon DEF TypeInv, TypeOK, Asker
<1>2. client[c].slot \in 0 .. MaxSlots
    BY <1>1, Zenon DEF Asker
<1> QED
    BY <1>1, <1>2, UploadAssumption DEF Slots

\* So it is at the start.
LEMMA InitOwn == Init => OwnInv /\ RoleInv
<1> SUFFICES ASSUME Init PROVE OwnInv /\ RoleInv
    OBVIOUS
<1>1. \A c \in Clients : client[c].slot = 0
    BY Zenon DEF Init, Waiting
<1>2. Collector.pc = "create" /\ Reader.pc = "off" /\ End.pc = "off"
    BY Zenon DEF Init, Waiting, Clients, Collector, Reader, End
<1>3. \A c \in Clients : client[c].pc \in Tasks(c)
    BY <1>2, ClientNames, Zenon DEF Tasks, Collector, Reader, End
<1> QED
    BY <1>1, <1>2, <1>3, Zenon DEF OwnInv, RoleInv

\* What the clients make of an answer.
LEMMA AnswerRole ==
    ASSUME TypeInv, OwnInv, RoleInv, NEW c \in Clients, Answer(c)
    PROVE  /\ client'[c].slot = 0 /\ client'[c].pc \in Tasks(c)
           /\ c # "collector" => client[c].pc # "off"
           /\ client[c].pc \in Ops
           /\ c = "collector" /\ client'[c].pc \in {"manifest", "ok"} => accepted'
           /\ c # "collector" => accepted' = accepted
           /\ \A d \in Clients : d # c => client'[d] = client[d]
<1>0. client \in [Clients -> Asker] /\ client[c].slot # 0
    BY AnswerIs, SlotOf DEF TypeInv, TypeOK, Asker
<1>1. PICK pc \in Ops \cup {"off", "ok", "failed", "loaded", "notfound", "ended"},
           i \in 0 .. ChunkCount : client' = [client EXCEPT ![c] = Waiting(pc, i)]
    BY AnswerIs, Zenon
<1>2. client'[c] = Waiting(pc, i) /\ \A d \in Clients : d # c => client'[d] = client[d]
    BY <1>0, <1>1, Zenon
<1>3. client'[c].slot = 0 /\ client'[c].pc = pc
    BY <1>1, <1>2, AskerIs
<1>4. client[c].pc \in Ops /\ client[c].pc # "off"
    BY <1>0, Zenon DEF OwnInv, Ops
<1>5. \A p, j : Become(c, p, j) => client'[c].pc = p
    BY <1>0 DEF Become, Waiting
<1>6. CASE c = "collector"
  <2>1. Uploaded(c, slot[client[c].slot].code)
      BY <1>6, Zenon DEF Answer
  <2>2. client'[c].pc \in {"chunk", "manifest", "ok", "failed"}
      BY <1>5, <2>1, Zenon DEF Uploaded
  <2>3. client'[c].pc \in {"manifest", "ok"} => accepted'
    <3>1. accepted => accepted'
        BY AnswerIs, Zenon
    <3>2. client[c].pc = "manifest" => accepted
        BY <1>6, Zenon DEF RoleInv, Collector
    <3> QED
        BY <1>5, <2>1, <3>1, <3>2, Zenon DEF Uploaded
  <2> QED
      BY <1>2, <1>3, <1>4, <1>6, <2>2, <2>3, ClientNames, Zenon DEF Tasks
<1>7. CASE c = "reader"
  <2>1. Loaded(c, slot[client[c].slot].code) /\ accepted' = accepted
      BY <1>7, Zenon DEF Answer
  <2>2. client'[c].pc \in {"getManifest", "getChunk", "loaded", "notfound"}
      BY <1>5, <2>1, Zenon DEF Loaded
  <2> QED
      BY <1>2, <1>3, <1>4, <1>7, <2>1, <2>2, ClientNames, Zenon DEF Tasks
<1>8. CASE c = "end"
  <2>1. Become(c, IF slot[client[c].slot].code = "ok" THEN "ended" ELSE "notfound", 0)
        /\ accepted' = accepted
      BY <1>8, Zenon DEF Answer
  <2>2. client'[c].pc \in {"ended", "notfound"}
      BY <1>5, <2>1, Zenon
  <2> QED
      BY <1>2, <1>3, <1>4, <1>8, <2>1, <2>2, ClientNames, Zenon DEF Tasks
<1> QED
    BY <1>6, <1>7, <1>8, ClientNames, Zenon

\* Clients that go on as they are or give up keep their roles.
LEMMA RoleKept ==
    ASSUME RoleInv, accepted => accepted',
           \A d \in Clients : \/ client'[d].pc = client[d].pc
                              \/ client[d].pc \in Ops /\ client'[d].pc = "failed"
    PROVE  RoleInv'
<1>1. \A d \in Clients : client'[d].pc \in Tasks(d)
    BY ClientNames, Zenon DEF RoleInv
<1>2. "ok" \notin Ops /\ "off" \notin Ops
    BY Zenon DEF Ops
<1>3. /\ Collector.pc = "ok" => Collector'.pc = "ok"
      /\ Reader'.pc # "off" => Reader.pc # "off"
      /\ End'.pc # "off" => End.pc # "off"
      /\ Collector'.pc \in {"manifest", "ok"} => Collector.pc \in {"manifest", "ok"}
    BY <1>2, ClientNames, Zenon DEF Collector, Reader, End
<1> QED
    BY <1>1, <1>3, Zenon DEF RoleInv

\* Every step keeps the requests with their clients.
LEMMA NextOwn == TypeInv /\ OwnInv /\ RoleInv /\ [Next]_vars => OwnInv' /\ RoleInv'
<1> SUFFICES ASSUME TypeInv, OwnInv, RoleInv, [Next]_vars PROVE OwnInv' /\ RoleInv'
    OBVIOUS
<1> DEFINE Owns(k, sl) == /\ k.pc \in Ops /\ sl[k.slot].pc # "free"
                          /\ sl[k.slot].op = k.pc /\ sl[k.slot].i = k.i
<1>0. slot \in [Slots -> Request] /\ client \in [Clients -> Asker] /\ TypeInv'
    BY NextType, Zenon DEF TypeInv, TypeOK, Asker
<1>o. /\ \A c \in Clients : client[c].slot # 0 => Owns(client[c], slot) /\ client[c].slot \in Slots
      /\ \A c, d \in Clients : client[c].slot = client[d].slot /\ client[c].slot # 0 => c = d
    BY SlotOf, Zenon DEF OwnInv
<1>p. ASSUME \A c \in Clients : client'[c].slot # 0 => Owns(client'[c], slot'),
             \A c, d \in Clients : client'[c].slot = client'[d].slot /\ client'[c].slot # 0 => c = d
      PROVE  OwnInv'
    BY <1>p, Zenon DEF OwnInv
<1>k. ASSUME NEW d \in Clients, client'[d] = client[d], client[d].slot # 0,
             slot'[client[d].slot] = slot[client[d].slot]
      PROVE  Owns(client'[d], slot')
  <2>1. Owns(client[d], slot)
      BY <1>k, <1>o, Zenon
  <2> QED
      BY <1>k, <2>1, Zenon DEF Owns
<1> HIDE DEF Owns
<1>1. CASE \E s \in Slots : SlotStep(s) /\ UNCHANGED <<clientVars, unsure>>
  <2>1. PICK s \in Slots, q \in Request :
           /\ slot' = [slot EXCEPT ![s] = q] /\ GoesOn(s, slot[s], q) /\ UNCHANGED clientVars
      BY <1>1, Zenon DEF SlotStep
  <2>2. client' = client /\ accepted' = accepted
      BY <2>1, Zenon DEF clientVars
  <2>3. ASSUME NEW c \in Clients, client[c].slot # 0 PROVE Owns(client[c], slot')
    <3>1. CASE client[c].slot = s
      <4>1. Waited(s)
          BY <3>1, Zenon DEF Waited
      <4>2. slot'[s] = q /\ q.pc # "free" /\ q.op = slot[s].op /\ q.i = slot[s].i
          BY <1>0, <2>1, <4>1, Zenon DEF GoesOn
      <4> QED
          BY <1>o, <2>3, <3>1, <4>2, Zenon DEF Owns
    <3>2. CASE client[c].slot # s
        BY <1>0, <1>o, <2>1, <2>3, <3>2, Zenon DEF Owns
    <3> QED
        BY <3>1, <3>2, Zenon
  <2>4. OwnInv'
      BY <1>o, <1>p, <2>2, <2>3, Zenon
  <2> QED
      BY <2>2, <2>4, RoleKept, Zenon
<1>2. CASE \E ss \in SUBSET Slots : Fail(ss)
  <2>1. PICK ss \in SUBSET Slots : Fail(ss)
      BY <1>2, Zenon
  <2>2. /\ \A x \in Slots : x \notin ss => slot'[x] = slot[x]
        /\ \A c \in Clients : client'[c] = IF client[c].slot \in ss THEN TryAgain(client[c])
                                           ELSE client[c]
        /\ accepted' = accepted
      BY <2>1, FailIs, Zenon
  <2>3. \A c \in Clients : client[c].slot \in ss =>
           /\ client[c].slot # 0 /\ client'[c].slot = 0
           /\ client'[c].pc \in {"failed", client[c].pc}
      BY <1>0, <2>2, SlotOf, AskerIs
  <2>4. \A c \in Clients : client'[c].slot # 0 =>
           client'[c] = client[c] /\ slot'[client[c].slot] = slot[client[c].slot]
    <3> SUFFICES ASSUME NEW c \in Clients, client'[c].slot # 0
                 PROVE  client'[c] = client[c] /\ slot'[client[c].slot] = slot[client[c].slot]
        OBVIOUS
    <3>1. client[c].slot \notin ss /\ client'[c] = client[c]
        BY <2>2, <2>3, Zenon
    <3>2. client[c].slot \in Slots
        BY <1>o, <3>1, Zenon
    <3> QED
        BY <2>2, <3>1, <3>2, Zenon
  <2>5. \A c \in Clients : client'[c].slot # 0 => Owns(client'[c], slot')
    <3> SUFFICES ASSUME NEW c \in Clients, client'[c].slot # 0 PROVE Owns(client'[c], slot')
        OBVIOUS
    <3> QED
        BY <1>k, <2>4, Zenon
  <2>8. \A c, d \in Clients : client'[c].slot = client'[d].slot /\ client'[c].slot # 0 => c = d
      BY <1>o, <2>4
  <2>6. OwnInv'
      BY <1>p, <2>5, <2>8, Zenon
  <2>7. \A c \in Clients : \/ client'[c].pc = client[c].pc
                           \/ client[c].pc \in Ops /\ client'[c].pc = "failed"
      BY <1>o, <2>2, <2>3, Zenon DEF Owns
  <2> QED
      BY <2>2, <2>6, <2>7, RoleKept, Zenon
<1>3. ASSUME NEW c \in Clients, Use(c) PROVE OwnInv' /\ RoleInv'
  <2>1. /\ slot' = slot /\ accepted' = accepted /\ Collector.pc = "ok"
        /\ c \in {"reader", "end"}
        /\ client' = [client EXCEPT ![c] = Waiting(IF c = "reader" THEN "info" ELSE "delete", 0)]
      BY <1>3, Zenon DEF Use, Become, Collector
  <2>2. client'[c].slot = 0 /\ client'[c].pc \in Tasks(c)
      BY <1>0, <2>1, Zenon DEF Waiting, Tasks
  <2>3. \A d \in Clients : d # c => client'[d] = client[d]
      BY <1>0, <2>1, Zenon
  <2>6. \A d \in Clients : client'[d].slot # 0 => client'[d] = client[d] /\ client[d].slot # 0
      BY <2>2, <2>3, Zenon
  <2>7. \A d \in Clients : client'[d].slot # 0 => Owns(client'[d], slot')
      BY <1>o, <2>1, <2>6, Zenon
  <2>4. OwnInv'
      BY <1>o, <1>p, <2>6, <2>7, Zenon
  <2>5. Collector' = Collector
      BY <2>1, <2>3, ClientNames, Zenon DEF Collector
  <2> QED
      BY <2>1, <2>2, <2>3, <2>4, <2>5, Zenon DEF RoleInv
<1>4. ASSUME NEW c \in Clients, Send(c) PROVE OwnInv' /\ RoleInv'
  <2>1. PICK s \in Slots, q \in Request :
             /\ slot[s].pc = "free" /\ slot' = [slot EXCEPT ![s] = q]
             /\ client' = [client EXCEPT ![c].slot = s]
             /\ q.pc = "arrive" /\ q.op = client[c].pc /\ q.i = client[c].i /\ q.at = 0
             /\ client[c].pc \in Ops /\ client[c].slot = 0
             /\ UNCHANGED <<accepted, left, unsure>>
      BY <1>4, SendIs, Zenon
  <2>2. /\ slot'[s] = q /\ \A x \in Slots : x # s => slot'[x] = slot[x]
        /\ client'[c].slot = s /\ client'[c].pc = client[c].pc /\ client'[c].i = client[c].i
        /\ \A d \in Clients : d # c => client'[d] = client[d]
      BY <1>0, <2>1, Zenon DEF Asker
  <2>3. \A d \in Clients : client[d].slot # s
      BY <1>o, <2>1, SlotOf, Zenon DEF Owns
  <2>4. Owns(client'[c], slot')
      BY <2>1, <2>2, Zenon DEF Owns
  <2>5. ASSUME NEW d \in Clients, d # c, client[d].slot # 0
        PROVE  Owns(client'[d], slot')
    <3>1. client'[d] = client[d] /\ client[d].slot \in Slots /\ client[d].slot # s
        BY <1>o, <2>2, <2>3, <2>5, Zenon
    <3>2. slot'[client[d].slot] = slot[client[d].slot]
        BY <2>2, <3>1, Zenon
    <3> QED
        BY <1>k, <2>5, <3>1, <3>2, Zenon
  <2>6. \A d \in Clients : client'[d].slot # 0 => Owns(client'[d], slot')
      BY <2>2, <2>4, <2>5, Zenon
  <2>7. \A d, e \in Clients : client'[d].slot = client'[e].slot /\ client'[d].slot # 0 => d = e
    <3>1. \A d \in Clients : client'[d].slot = IF d = c THEN s ELSE client[d].slot
        BY <2>2, Zenon
    <3> QED
        BY <1>o, <2>3, <3>1, Zenon
  <2>8. OwnInv'
      BY <1>p, <2>6, <2>7, Zenon
  <2> QED
      BY <2>1, <2>2, <2>8, RoleKept, Zenon
<1>5. ASSUME NEW c \in Clients, Answer(c) PROVE OwnInv' /\ RoleInv'
  <2>1. /\ client[c].slot \in Slots /\ client[c].slot # 0
        /\ slot' = [slot EXCEPT ![client[c].slot] = NoRequest]
      BY <1>5, AnswerIs, SlotOf, Zenon
  <2>2. /\ client'[c].slot = 0 /\ client'[c].pc \in Tasks(c)
        /\ c # "collector" => client[c].pc # "off"
        /\ client[c].pc \in Ops
        /\ c = "collector" /\ client'[c].pc \in {"manifest", "ok"} => accepted'
        /\ c # "collector" => accepted' = accepted
        /\ \A d \in Clients : d # c => client'[d] = client[d]
      BY <1>5, AnswerRole, Zenon
  <2>3. \A d \in Clients : d # c /\ client[d].slot # 0 =>
           slot'[client[d].slot] = slot[client[d].slot]
      BY <1>0, <1>o, <2>1, Zenon
  <2>4. \A d \in Clients : client'[d].slot # 0 => Owns(client'[d], slot')
    <3> SUFFICES ASSUME NEW d \in Clients, client'[d].slot # 0 PROVE Owns(client'[d], slot')
        OBVIOUS
    <3>1. d # c
        BY <2>2, Zenon
    <3>2. client'[d] = client[d]
        BY <2>2, <3>1, Zenon
    <3>3. slot'[client[d].slot] = slot[client[d].slot]
        BY <2>3, <3>1, <3>2, Zenon
    <3> QED
        BY <1>k, <3>2, <3>3, Zenon
  <2>5. OwnInv'
      BY <1>o, <1>p, <2>2, <2>4, ZenonT(40)
  <2>6. "ok" \notin Ops
      BY Zenon DEF Ops
  <2>7. CASE c = "collector"
    <3>1. Reader' = Reader /\ End' = End /\ Collector.pc # "ok"
        BY <2>2, <2>6, <2>7, ClientNames, Zenon DEF Reader, End, Collector
    <3>2. Collector'.pc \in {"manifest", "ok"} => accepted'
        BY <2>2, <2>7, Zenon DEF Collector
    <3> QED
        BY <2>2, <2>5, <3>1, <3>2, Zenon DEF RoleInv
  <2>8. CASE c # "collector"
    <3>1. Collector' = Collector /\ Collector.pc = "ok" /\ accepted' = accepted
        BY <2>2, <2>8, ClientNames, Zenon DEF Collector, Reader, End, RoleInv
    <3> QED
        BY <2>2, <2>5, <3>1, Zenon DEF RoleInv
  <2> QED
      BY <2>7, <2>8, Zenon
<1>6. ASSUME NEW c \in Clients, TimeOut(c) PROVE OwnInv' /\ RoleInv'
  <2>1. /\ client[c].slot # 0 /\ client' = [client EXCEPT ![c] = TryAgain(@)]
        /\ slot' = slot /\ accepted' = accepted
      BY <1>6, Zenon DEF TimeOut
  <2>2. /\ client'[c] = TryAgain(client[c])
        /\ \A d \in Clients : d # c => client'[d] = client[d]
      BY <1>0, <2>1, Zenon
  <2>3. client'[c].slot = 0 /\ client'[c].pc \in {"failed", client[c].pc}
      BY <2>2, SlotOf, AskerIs
  <2>4. \A d \in Clients : client'[d].slot # 0 => Owns(client'[d], slot')
      BY <1>o, <2>1, <2>2, <2>3, Zenon
  <2>5. OwnInv'
      BY <1>o, <1>p, <2>2, <2>3, <2>4, ZenonT(40)
  <2>6. client[c].pc \in Ops
      BY <1>o, <2>1, Zenon DEF Owns
  <2> QED
      BY <2>1, <2>2, <2>3, <2>5, <2>6, RoleKept, Zenon
<1>7. ASSUME NEW c \in Clients, Interrupt(c) PROVE OwnInv' /\ RoleInv'
  <2>1. /\ client[c].pc \in Ops /\ client' = [client EXCEPT ![c] = Waiting("failed", 0)]
        /\ slot' = slot \/ slot' = [slot EXCEPT ![client[c].slot] = NoRequest]
        /\ accepted' = accepted
      BY <1>7, Zenon DEF Interrupt, Become
  <2>2. \A d \in Clients : d # c => client'[d] = client[d]
      BY <1>0, <2>1, Zenon
  <2>3. client'[c].slot = 0 /\ client'[c].pc = "failed"
      BY <1>0, <2>1, Zenon DEF Waiting
  <2>4. \A d \in Clients : d # c /\ client[d].slot # 0 =>
           slot'[client[d].slot] = slot[client[d].slot]
      BY <1>0, <1>o, <2>1, Zenon
  <2>5. \A d \in Clients : client'[d].slot # 0 => Owns(client'[d], slot')
    <3> SUFFICES ASSUME NEW d \in Clients, client'[d].slot # 0 PROVE Owns(client'[d], slot')
        OBVIOUS
    <3>1. d # c
        BY <2>2, <2>3, Zenon
    <3>2. client'[d] = client[d]
        BY <2>2, <3>1, Zenon
    <3>3. slot'[client[d].slot] = slot[client[d].slot]
        BY <2>4, <3>1, <3>2, Zenon
    <3> QED
        BY <1>k, <3>2, <3>3, Zenon
  <2>6. OwnInv'
      BY <1>o, <1>p, <2>2, <2>3, <2>5, ZenonT(40)
  <2> QED
      BY <2>1, <2>2, <2>3, <2>6, RoleKept, Zenon
<1>8. CASE UNCHANGED <<slot, clientVars, unsure>>
    BY <1>8, Zenon DEF clientVars, OwnInv, RoleInv, Collector, Reader, End
<1> QED
    BY <1>1, <1>2, <1>3, <1>4, <1>5, <1>6, <1>7, <1>8, AskStep, Zenon

-----------------------------------------------------------------------------
(* How a request gets where it is.                                         *)

\* The labels and answers that say something about the store, and the step of
\* the handler in slot s that leads from the request r to q.
Turn(s, r, q) ==
    /\ q.pc = "mkchunks" => Writes(s, Meta)
    /\ q.pc = "created" => Writes(s, Meta) \/ r.pc = "mkchunks"
    /\ q.pc = "evict" => SessionFound /\ Expired(r.at)
    /\ q.pc = "evictRemove" => r.pc \in {"evict", "evictRemove"}
    /\ q.pc = "deleteRemove" => \/ q = r
                                \/ stored' = stored /\ (backend = "r2" => q.listed = Present)
    /\ q.pc = "reply" /\ q.code = "ok" =>
         /\ q.op = "create" => r.pc = "created"
         /\ q.op \in {"chunk", "manifest"} => r.pc = "put" /\ Writes(s, Target(r))
         /\ q.op = "delete" =>
              \/ Drop(Objects)
              \/ /\ r.pc = "deleteRemove"
                 /\ \E gone \in Removals(r.listed) : Drop(gone) /\ RemoveEnds(gone)
    /\ q.pc = "reply" /\ q.code = "exists" /\ q.op = "chunk" =>
         r.pc = "put" /\ Has(Target(r)) /\ stored' = stored
    /\ q.pc = "reply" /\ q.code = "notfound" /\ q.op \in {"info", "getManifest", "getChunk"} =>
         \/ ~SessionFound
         \/ r.pc \in {"evict", "evictRemove"}
         \/ r.pc = "get" /\ ~Readable(Target(r))

\* A free slot and most labels say nothing.
LEMMA PlainTurn ==
    ASSUME NEW s, NEW r, NEW q,
           q.pc \notin {"mkchunks", "created", "evict", "evictRemove", "deleteRemove", "reply"}
    PROVE  Turn(s, r, q)
BY Zenon DEF Turn

\* Nor does an answer other than those.
LEMMA AnswerTurn ==
    ASSUME TypeInv, NEW s \in Slots, NEW r \in Request, NEW code \in Codes,
           r.op = slot[s].op, slot[s].pc # "free", Set(s, Answered(s, r, code)),
           ASSUME NEW q, q.pc = "reply", q.code = code, q.op = r.op
           PROVE  Turn(s, slot[s], q)
    PROVE  Turn(s, slot[s], slot'[s])
<1> DEFINE q == Answered(s, r, code)
<1>1. slot'[s] = q
    BY Zenon DEF Set, TypeInv, TypeOK
<1>2. /\ ~Waited(s) => q = NoRequest
      /\ Waited(s) => q.pc = "reply" /\ q.op = r.op /\ q.code = code
    BY AnsweredIs
<1>3. CASE ~Waited(s)
    BY <1>1, <1>2, <1>3, NoRequestIs, PlainTurn, Zenon
<1>4. CASE Waited(s)
    BY <1>1, <1>2, <1>4, Zenon
<1> QED
    BY <1>3, <1>4, Zenon

\* The end of a DeleteSession says that the session is gone.
LEMMA DeletedTurn ==
    ASSUME TypeInv, NEW s \in Slots, NEW code \in Codes,
           slot[s].pc \in {"evict", "evictRemove", "delete", "deleteRemove"},
           Deleted(s, slot[s], code),
           slot[s].pc \in {"delete", "deleteRemove"} /\ code = "ok" =>
              \/ Drop(Objects)
              \/ /\ slot[s].pc = "deleteRemove"
                 /\ \E gone \in Removals(slot[s].listed) : Drop(gone) /\ RemoveEnds(gone)
    PROVE  Turn(s, slot[s], slot'[s])
<1> DEFINE r == slot[s]
<1>1. r \in Request /\ slot \in [Slots -> Request] /\ LabelOK(r)
    BY Zenon DEF TypeInv, TypeOK
<1>2. CASE r.pc \in {"evict", "evictRemove"}
  <2> DEFINE u == [r EXCEPT !.listed = {}]
             q == OnMissing(s, u)
  <2>1. u \in Request
      BY <1>1, Zenon DEF Request
  <2>2. slot'[s] = q
      BY <1>1, <1>2, Zenon DEF Deleted, Set
  <2> HIDE DEF u
  <2>3. q.pc \in {"free", "reply", "mkdir", "create"}
        /\ (q.pc = "reply" => q.op # "create" /\ q.code = "notfound")
      BY <2>1, OnMissingIs, Zenon
  <2> HIDE DEF q
  <2>4. Turn(s, r, q)
      BY <1>2, <2>3, Zenon DEF Turn
  <2> QED
      BY <2>2, <2>4, Zenon
<1>3. CASE r.pc \in {"delete", "deleteRemove"}
  <2>1. Set(s, Answered(s, r, code))
      BY <1>3, Zenon DEF Deleted
  <2>2. r.op = "delete"
      BY <1>1, <1>3, Zenon DEF LabelOK
  <2>3. ASSUME NEW q, q.pc = "reply", q.code = code, q.op = r.op
        PROVE  Turn(s, slot[s], q)
      BY <1>3, <2>2, <2>3, Zenon DEF Turn
  <2> QED
      BY <1>1, <1>3, <2>1, <2>3, AnswerTurn, Zenon
<1> QED
    BY <1>2, <1>3, Zenon

\* Every step of a handler is such a turn.
LEMMA HandleTurn ==
    ASSUME TypeInv, NEW s \in Slots, Handle(s) \/ DeleteFails(s), ~Fail({s})
    PROVE  Turn(s, slot[s], slot'[s])
<1> DEFINE r == slot[s]
<1>0. r \in Request /\ slot \in [Slots -> Request] /\ LabelOK(r) /\ now \in Nat
    BY DEF TypeInv, TypeOK
<1>s. \A q : Set(s, q) => slot'[s] = q
    BY <1>0, Zenon DEF Set
<1> HIDE DEF r
<1>1. CASE Arrive(s)
  <2> DEFINE u == [slot[s] EXCEPT !.at = now]
             q == IF ~SessionFound THEN OnMissing(s, u)
                  ELSE IF Expired(now) THEN Goto(u, "lock") ELSE OnFound(s, u)
  <2>1. slot'[s] = q
      BY <1>1, <1>s, Zenon DEF Arrive
  <2>2. u \in Request
      BY <1>0, StampIs, ZenonT(40) DEF r
  <2> HIDE DEF u
  <2>3. CASE ~SessionFound
    <3>1. q = OnMissing(s, u)
        BY <2>3, Zenon
    <3>2. q.pc \in {"free", "reply", "mkdir", "create"}
          /\ (q.pc = "reply" => q.op # "create" /\ q.code = "notfound")
        BY <2>2, <3>1, OnMissingIs
    <3> HIDE DEF q
    <3> QED
        BY <2>1, <2>3, <3>2, Zenon DEF Turn
  <2>4. CASE SessionFound /\ Expired(now)
    <3>1. q = Goto(u, "lock") /\ "lock" \in Labels
        BY <2>4, Zenon DEF Labels
    <3>2. q.pc = "lock"
        BY <2>2, <3>1, GotoIs, SMTT(30)
    <3> HIDE DEF q
    <3> QED
        BY <2>1, <3>2, PlainTurn, Zenon
  <2>5. CASE SessionFound /\ ~Expired(now)
    <3>1. q = OnFound(s, u)
        BY <2>5, Zenon
    <3>2. /\ q.pc \in {"free", "reply", "lockDelete", "head", "put", "stat", "readMeta", "get"}
          /\ q.pc = "reply" => \/ q.op = "create" /\ q.code = "exists"
                               \/ q.op = "info" /\ q.code = "ok"
        BY <2>2, <3>1, OnFoundIs
    <3> HIDE DEF q
    <3> QED
        BY <2>1, <3>2, Zenon DEF Turn
  <2> QED
      BY <2>3, <2>4, <2>5, Zenon
<1>2. CASE Lock(s)
  <2>1. \/ SessionFound /\ Expired(r.at) /\ slot'[s] = Goto(r, "evict")
        \/ SessionFound /\ slot'[s] = OnFound(s, r)
        \/ ~SessionFound /\ slot'[s] = OnMissing(s, r)
      BY <1>2, <1>s, ZenonT(40) DEF Lock, r
  <2>2. CASE SessionFound /\ Expired(r.at) /\ slot'[s] = Goto(r, "evict")
    <3>1. "evict" \in Labels
        BY Zenon DEF Labels
    <3>2. slot'[s].pc = "evict"
        BY <1>0, <2>2, <3>1, GotoIs, SMTT(30)
    <3> QED
        BY <2>2, <3>2, Zenon DEF Turn, r
  <2>3. CASE SessionFound /\ slot'[s] = OnFound(s, r)
    <3> DEFINE q == slot'[s]
    <3>1. /\ q.pc \in {"free", "reply", "lockDelete", "head", "put", "stat", "readMeta", "get"}
          /\ q.pc = "reply" => \/ q.op = "create" /\ q.code = "exists"
                               \/ q.op = "info" /\ q.code = "ok"
        BY <1>0, <2>3, OnFoundIs, SMTT(30)
    <3> QED
        BY <3>1, Zenon DEF Turn
  <2>4. CASE ~SessionFound /\ slot'[s] = OnMissing(s, r)
    <3> DEFINE q == slot'[s]
    <3>1. q.pc \in {"free", "reply", "mkdir", "create"}
          /\ (q.pc = "reply" => q.op # "create" /\ q.code = "notfound")
        BY <1>0, <2>4, OnMissingIs
    <3> QED
        BY <2>4, <3>1, Zenon DEF Turn
  <2> QED
      BY <2>1, <2>2, <2>3, <2>4, Zenon
<1>3. CASE LockDelete(s)
  <2>1. slot'[s] = Goto(r, "delete") /\ "delete" \in Labels
      BY <1>3, <1>s, Zenon DEF LockDelete, r, Labels
  <2>2. slot'[s].pc = "delete"
      BY <1>0, <2>1, GotoIs
  <2> QED
      BY <2>2, PlainTurn, Zenon
<1>4. CASE Delete(s)
  <2>1. r.pc \in {"evict", "delete"}
      BY <1>4, Zenon DEF Delete, r
  <2>2. CASE DeleteFinds /\ backend # "memory"
    <3> DEFINE label == IF r.pc = "evict" THEN "evictRemove" ELSE "deleteRemove"
               os == IF backend = "r2" THEN Present ELSE {}
    <3>1. slot'[s] = [r EXCEPT !.pc = label, !.listed = os] /\ stored' = stored
      <4>1. Set(s, [r EXCEPT !.pc = IF @ = "evict" THEN "evictRemove" ELSE "deleteRemove",
                             !.listed = os])
            /\ stored' = stored
          BY <1>4, <2>2, Zenon DEF Delete, r, DeleteBegin
      <4>2. slot'[s] = [r EXCEPT !.pc = IF @ = "evict" THEN "evictRemove" ELSE "deleteRemove",
                             !.listed = os]
          BY <1>s, <4>1, Zenon
      <4> QED
          BY <1>0, <4>1, <4>2, Zenon DEF Request
    <3>2. slot'[s].pc = label /\ slot'[s].listed = os
        BY <1>0, <3>1, Zenon DEF Request
    <3> QED
        BY <2>1, <3>1, <3>2, Zenon DEF Turn, r
  <2>3. CASE ~(DeleteFinds /\ backend # "memory")
    <3> DEFINE code == IF DeleteFinds THEN "ok" ELSE "notfound"
    <3>1. code \in Codes
        BY Zenon DEF Codes
    <3>2. Deleted(s, slot[s], code)
        BY <1>4, <2>3, Zenon DEF Delete
    <3>3. code = "ok" => Drop(Objects)
        BY <1>4, <2>3, Zenon DEF Delete, DeleteBegin
    <3> HIDE DEF code
    <3> QED
        BY <2>1, <3>1, <3>2, <3>3, DeletedTurn, Zenon DEF r
  <2> QED
      BY <2>2, <2>3, Zenon
<1>5. CASE Remove(s)
  <2>1. r.pc \in {"evictRemove", "deleteRemove"}
      BY <1>5, Zenon DEF Remove, r
  <2>2. PICK gone \in Removals(r.listed) :
           Drop(gone) /\ IF RemoveEnds(gone) THEN Deleted(s, r, "ok") ELSE UNCHANGED <<slot, mu>>
      BY <1>5, Zenon DEF Remove, r
  <2>3. CASE RemoveEnds(gone)
      BY <2>1, <2>2, <2>3, DeletedTurn, SMTT(30) DEF r, Codes
  <2>4. CASE ~RemoveEnds(gone)
    <3>1. slot'[s] = r
        BY <2>2, <2>4, Zenon DEF r
    <3> QED
        BY <2>1, <3>1, Zenon DEF Turn, r
  <2> QED
      BY <2>3, <2>4, Zenon
<1>6. CASE Mkdir(s)
  <2>1. r.op = "create" /\ slot[s].pc # "free"
      BY <1>0, <1>6, Zenon DEF Mkdir, r, LabelOK
  <2>2. CASE slot'[s] = Goto(r, "create")
    <3>1. slot'[s].pc = "create"
        BY <1>0, <2>2, GotoIs DEF Labels
    <3> QED
        BY <3>1, PlainTurn, SMTT(30)
  <2>3. CASE WriteCode(Dir) # "ok" /\ Set(s, Answered(s, r, WriteCode(Dir)))
    <3>1. ASSUME NEW q, q.pc = "reply", q.code = WriteCode(Dir), q.op = r.op
          PROVE  Turn(s, slot[s], q)
        BY <2>1, <2>3, <3>1, Zenon DEF Turn
    <3> QED
        BY <1>0, <2>1, <2>3, <3>1, AnswerTurn, StoreCodes, ZenonT(40) DEF r
  <2> QED
      BY <1>6, <1>s, <2>2, <2>3, Zenon DEF Mkdir, r
<1>7. CASE Create(s)
  <2>1. r.op = "create" /\ slot[s].pc # "free"
      BY <1>0, <1>7, ZenonT(40) DEF Create, r, LabelOK
  <2>2. CASE WriteCode(Meta) = "ok"
    <3> DEFINE label == IF backend = "dir" THEN "mkchunks" ELSE "created"
    <3>1. slot'[s] = Goto(r, label) /\ label \in Labels
        BY <1>7, <1>s, <2>2, SMTT(30) DEF Create, r, Labels
    <3>2. slot'[s].pc = label
        BY <1>0, <3>1, GotoIs
    <3>3. ~Has(Meta) /\ ParentThere(Meta)
        BY <2>2, Zenon DEF WriteCode
    <3>4. Writes(s, Meta)
        BY <1>7, <2>2, <3>3, ObjectNames, Zenon DEF Create, Write, Writes
    <3> QED
        BY <3>2, <3>4, ZenonT(40) DEF Turn
  <2>3. CASE WriteCode(Meta) # "ok"
    <3>1. Set(s, Answered(s, r, WriteCode(Meta)))
        BY <1>7, <2>3, ZenonT(40) DEF Create, r
    <3>2. ASSUME NEW q, q.pc = "reply", q.code = WriteCode(Meta), q.op = r.op
          PROVE  Turn(s, slot[s], q)
        BY <2>1, <2>3, <3>2, SMTT(30) DEF Turn
    <3> QED
        BY <1>0, <2>1, <3>1, <3>2, AnswerTurn, StoreCodes, Zenon DEF r
  <2> QED
      BY <2>2, <2>3, Zenon
<1>8. CASE MkChunks(s)
  <2>1. slot'[s] = Goto(r, "created") /\ r.pc = "mkchunks"
      BY <1>8, <1>s, Zenon DEF MkChunks, r
  <2>2. slot'[s].pc = "created"
      BY <1>0, <2>1, GotoIs DEF Labels
  <2> QED
      BY <2>1, <2>2, Zenon DEF Turn, r
<1>9. CASE Created(s)
  <2>1. Set(s, Answered(s, r, "ok")) /\ r.pc = "created" /\ r.op = "create"
      BY <1>0, <1>9, ZenonT(40) DEF Created, r, LabelOK
  <2>2. ASSUME NEW q, q.pc = "reply", q.code = "ok", q.op = r.op PROVE Turn(s, slot[s], q)
      BY <2>1, <2>2, Zenon DEF Turn, r
  <2> QED
      BY <1>0, <2>1, <2>2, AnswerTurn, Zenon DEF r, Codes
<1>10. CASE ReadMeta(s) \/ Head(s)
  <2>1. r.op \in {"chunk", "manifest"} /\ slot[s].pc # "free"
      BY <1>0, <1>10, Zenon DEF ReadMeta, Head, r, LabelOK
  <2>2. CASE Set(s, Answered(s, r, "notfound"))
    <3>1. ASSUME NEW q, q.pc = "reply", q.code = "notfound", q.op = r.op
          PROVE  Turn(s, slot[s], q)
        BY <2>1, <3>1, Zenon DEF Turn
    <3> QED
        BY <1>0, <2>1, <2>2, <3>1, AnswerTurn, ZenonT(40) DEF r, Codes
  <2>3. CASE \E label \in {"count", "put"} : slot'[s] = Goto(r, label)
    <3>1. slot'[s].pc \in {"count", "put"}
        BY <1>0, <2>3, GotoIs DEF Labels
    <3> QED
        BY <3>1, PlainTurn, SMTT(30)
  <2> QED
      BY <1>10, <1>s, <2>2, <2>3, Zenon DEF ReadMeta, Head, r
<1>11. CASE Count(s) \/ Stat(s)
  <2>1. r.op = "manifest" /\ slot[s].pc # "free"
      BY <1>0, <1>11, Zenon DEF Count, Stat, r, LabelOK
  <2>2. CASE \E code \in {"notfound", "exists", "missing"} : Set(s, Answered(s, r, code))
    <3>1. PICK code \in {"notfound", "exists", "missing"} : Set(s, Answered(s, r, code))
        BY <2>2, ZenonT(40)
    <3>2. ASSUME NEW q, q.pc = "reply", q.code = code, q.op = r.op PROVE Turn(s, slot[s], q)
        BY <2>1, <3>1, <3>2, Zenon DEF Turn
    <3> QED
        BY <1>0, <2>1, <3>1, <3>2, AnswerTurn, Zenon DEF r, Codes
  <2>3. CASE \E label \in {"stat", "put", "head"}, os \in SUBSET Objects :
                slot'[s] = [r EXCEPT !.pc = label, !.listed = os]
    <3>1. slot'[s].pc \in {"stat", "put", "head"}
        BY <1>0, <2>3, Zenon DEF Request
    <3> QED
        BY <3>1, PlainTurn, Zenon
  <2>4. Present \cap Chunks \in SUBSET Objects /\ {} \in SUBSET Objects
        /\ PutStart \in {"put", "head"}
      BY Zenon DEF Present, PutStart
  <2>5. CASE Count(s)
      BY <1>s, <2>2, <2>3, <2>4, <2>5, Zenon DEF Count, r
  <2>6. CASE Stat(s)
      BY <1>s, <2>2, <2>3, <2>4, <2>6, Zenon DEF Stat, r
  <2> QED
      BY <1>11, <2>5, <2>6, Zenon
<1>12. CASE PutObject(s)
  <2> DEFINE code == PutCode(Target(r))
  <2>1. r.op \in {"chunk", "manifest"} /\ r.pc = "put" /\ Set(s, Answered(s, r, code))
      BY <1>0, <1>12, Zenon DEF PutObject, r, LabelOK
  <2>2. code = "ok" => Writes(s, Target(r))
    <3>1. PutCode(Target(r)) = "ok" => ~Has(Target(r)) /\ ParentThere(Target(r))
        BY Zenon DEF PutCode, WriteCode
    <3>2. Target(r) \in Objects
        BY <2>1, TargetIs, SMTT(30) DEF r
    <3> QED
        BY <1>12, <3>1, <3>2, Zenon DEF PutObject, Put, Writes, r
  <2>3. code = "exists" => Has(Target(r)) /\ stored' = stored
    <3>1. PutCode(Target(r)) = "exists" => Has(Target(r))
        BY Zenon DEF PutCode, WriteCode
    <3> QED
        BY <1>12, <3>1, Zenon DEF PutObject, Put, r
  <2>4. code \in Codes
      BY StoreCodes, ZenonT(40)
  <2> HIDE DEF code
  <2>5. ASSUME NEW q, q.pc = "reply", q.code = code, q.op = r.op PROVE Turn(s, slot[s], q)
      BY <2>1, <2>2, <2>3, <2>5, Zenon DEF Turn, r
  <2> QED
      BY <1>0, <2>1, <2>4, <2>5, AnswerTurn, Zenon DEF r
<1>13. CASE GetObject(s)
  <2> DEFINE code == IF Readable(Target(r)) THEN "ok" ELSE "notfound"
  <2>1. r.op \in {"getManifest", "getChunk"} /\ r.pc = "get" /\ Set(s, Answered(s, r, code))
      BY <1>0, <1>13, Zenon DEF GetObject, r, LabelOK
  <2>2. code \in Codes /\ (code = "notfound" => ~Readable(Target(r))) /\ code # "exists"
      BY SMTT(30) DEF Codes
  <2> HIDE DEF code
  <2>3. ASSUME NEW q, q.pc = "reply", q.code = code, q.op = r.op PROVE Turn(s, slot[s], q)
      BY <2>1, <2>2, <2>3, ZenonT(40) DEF Turn, r
  <2> QED
      BY <1>0, <2>1, <2>2, <2>3, AnswerTurn, Zenon DEF r
<1>14. CASE DeleteFails(s)
  <2>1. r.pc \in {"evict", "evictRemove"} /\ Deleted(s, slot[s], "none")
      BY <1>14, Zenon DEF DeleteFails, r
  <2> QED
      BY <2>1, DeletedTurn, Zenon DEF r, Codes
<1> QED
    BY <1>1, <1>2, <1>3, <1>4, <1>5, <1>6, <1>7, <1>8, <1>9, <1>10, <1>11, <1>12, <1>13, <1>14,
       Zenon DEF Handle

\* What may have happened to a slot.
LEMMA SlotTurn ==
    ASSUME TypeInv, [Next]_vars, NEW x \in Slots
    PROVE  \/ slot'[x] = slot[x]
           \/ slot'[x] = NoRequest
           \/ \E c \in Clients :
                /\ slot'[x].pc = "arrive" /\ slot'[x].op = client[c].pc
                /\ client[c].pc \in Ops /\ client[c].slot = 0 /\ client'[c].slot = x
                /\ UNCHANGED <<made, accepted, unsure, stored>> /\ slot[x].pc = "free"
           \/ /\ slot'[x].op = slot[x].op /\ slot'[x].i = slot[x].i
              /\ slot[x].pc \notin {"free", "reply"} /\ slot'[x].pc # "free"
              /\ slot'[x].pc = "reply" => Waited(x)
              /\ Turn(x, slot[x], slot'[x])
              /\ Handle(x) \/ DeleteFails(x)
              /\ UNCHANGED <<clientVars, unsure>>
<1>0. slot \in [Slots -> Request] /\ client \in [Clients -> Asker]
    BY Zenon DEF TypeInv, TypeOK, Asker
<1>1. ASSUME NEW ss \in SUBSET Slots, Fail(ss)
      PROVE  slot'[x] = slot[x] \/ slot'[x] = NoRequest
    BY <1>1, FailIs, Zenon
<1>2. ASSUME NEW s \in Slots, Handle(s) \/ DeleteFails(s), ~Fail({s})
      PROVE  \/ slot'[x] = slot[x]
             \/ slot'[x] = NoRequest
             \/ /\ slot'[x].op = slot[x].op /\ slot'[x].i = slot[x].i
                /\ slot[x].pc \notin {"free", "reply"} /\ slot'[x].pc # "free"
                /\ slot'[x].pc = "reply" => Waited(x)
                /\ Turn(x, slot[x], slot'[x])
                /\ Handle(x) \/ DeleteFails(x)
                /\ UNCHANGED <<clientVars, unsure>>
  <2>1. SlotStep(s) /\ UNCHANGED <<clientVars, unsure>>
      BY <1>2, HandleStep, Zenon
  <2>2. PICK q \in Request : slot' = [slot EXCEPT ![s] = q] /\ GoesOn(s, slot[s], q)
      BY <2>1, Zenon DEF SlotStep
  <2>3. slot[s].pc \notin {"free", "reply"}
      BY <1>2, Zenon DEF Handle, Arrive, Lock, LockDelete, Delete, Remove, Mkdir, Create, MkChunks,
         Created, ReadMeta, Count, Stat, Head, PutObject, GetObject, DeleteFails
  <2>4. CASE x = s
    <3>1. slot'[x] = q
        BY <1>0, <2>2, <2>4, Zenon
    <3>2. Turn(x, slot[x], slot'[x])
        BY <1>2, <2>4, HandleTurn, Zenon
    <3> QED
        BY <1>2, <2>1, <2>2, <2>3, <2>4, <3>1, <3>2, Zenon DEF GoesOn
  <2>5. CASE x # s
      BY <1>0, <2>2, <2>5, Zenon
  <2> QED
      BY <2>4, <2>5, Zenon
<1>3. ASSUME NEW s \in Slots, Break(s) PROVE Fail({s})
    BY <1>3, Zenon DEF Break
<1>4. Restart => \E ss \in SUBSET Slots : Fail(ss)
  <2>1. {s \in Slots : slot[s].pc \notin {"free", "arrive"}} \in SUBSET Slots
      BY Zenon
  <2> QED
      BY <2>1, Zenon DEF Restart
<1>5. ASSUME NEW c \in Clients, Send(c)
      PROVE  \/ slot'[x] = slot[x]
             \/ /\ slot'[x].pc = "arrive" /\ slot'[x].op = client[c].pc
                /\ client[c].pc \in Ops /\ client[c].slot = 0 /\ client'[c].slot = x
                /\ UNCHANGED <<made, accepted, unsure, stored>> /\ slot[x].pc = "free"
  <2>1. PICK s \in Slots, q \in Request :
             /\ slot[s].pc = "free" /\ slot' = [slot EXCEPT ![s] = q]
             /\ client' = [client EXCEPT ![c].slot = s]
             /\ q.pc = "arrive" /\ q.op = client[c].pc /\ q.i = client[c].i /\ q.at = 0
             /\ client[c].pc \in Ops /\ client[c].slot = 0
             /\ UNCHANGED <<accepted, left, unsure>>
      BY <1>5, SendIs, Zenon
  <2>2. UNCHANGED <<made, stored>>
      BY <1>5, Zenon DEF Send, storeVars, histVars
  <2>3. slot'[x] = IF x = s THEN q ELSE slot[x]
      BY <1>0, <2>1, Zenon
  <2>4. client'[c].slot = s
      BY <1>0, <2>1, Zenon DEF Asker
  <2> QED
      BY <2>1, <2>2, <2>3, <2>4, Zenon
<1>6. ASSUME NEW c \in Clients, Use(c) \/ Answer(c) \/ TimeOut(c) \/ Interrupt(c)
      PROVE  slot'[x] = slot[x] \/ slot'[x] = NoRequest
  <2>1. slot' = slot \/ slot' = [slot EXCEPT ![client[c].slot] = NoRequest]
      BY <1>6, Zenon DEF Use, Answer, TimeOut, Interrupt, Set
  <2> QED
      BY <1>0, <2>1, Zenon
<1>7. Sweep \/ SweepFails \/ Tick \/ UNCHANGED vars => slot' = slot
    BY Zenon DEF Sweep, SweepStart, SweepOrphan, SweepList, SweepRemove, SweepFails, Tick, vars
<1>8. CASE \E s \in Slots : Handle(s) \/ DeleteFails(s) \/ Break(s)
  <2>1. \A s \in Slots : {s} \in SUBSET Slots
      BY Zenon
  <2> QED
      BY <1>1, <1>2, <1>3, <1>8, <2>1, Zenon
<1>9. CASE \E c \in Clients : Use(c) \/ Client(c) \/ TimeOut(c) \/ Interrupt(c)
    BY <1>5, <1>6, <1>9, Zenon DEF Client
<1> QED
    BY <1>1, <1>4, <1>7, <1>8, <1>9, Zenon DEF Next

\* Client c stops waiting without an answer.
GaveUp(c) ==
    /\ client[c].pc \in Ops /\ client'[c].slot = 0
    /\ \/ client'[c].pc = client[c].pc /\ client'[c].i = client[c].i
       \/ client'[c].pc = "failed"
    /\ client[c].pc = "manifest" => unsure'

\* What may have happened to a client.
LEMMA ClientTurn ==
    ASSUME TypeInv, OwnInv, [Next]_vars, NEW c \in Clients
    PROVE  /\ \/ client'[c] = client[c]
              \/ /\ Send(c) /\ client[c].slot = 0 /\ client[c].pc \in Ops
                 /\ client'[c].pc = client[c].pc /\ client'[c].i = client[c].i
              \/ GaveUp(c)
              \/ Answer(c)
              \/ Use(c)
           /\ accepted => accepted'
           /\ unsure => unsure'
<1>0. client \in [Clients -> Asker]
    BY Zenon DEF TypeInv, TypeOK, Asker
<1>1. CASE \E s \in Slots : SlotStep(s) /\ UNCHANGED <<clientVars, unsure>>
  <2>1. client' = client /\ accepted' = accepted /\ unsure' = unsure
      BY <1>1, Zenon DEF clientVars
  <2> QED
      BY <2>1, Zenon
<1>2. CASE \E ss \in SUBSET Slots : Fail(ss)
  <2>1. PICK ss \in SUBSET Slots : Fail(ss)
      BY <1>2, Zenon
  <2>2. CASE client[c].slot \notin ss
    <3>1. client'[c] = client[c]
        BY <2>1, <2>2, FailIs, Zenon
    <3>2. accepted' = accepted /\ (unsure => unsure')
        BY <2>1, Zenon DEF Fail
    <3> QED
        BY <3>1, <3>2, Zenon
  <2>3. CASE client[c].slot \in ss
    <3>1. client'[c] = TryAgain(client[c])
        BY <2>1, <2>3, FailIs, Zenon
    <3>2. /\ client'[c].slot = 0
          /\ \/ client'[c].pc = "failed"
             \/ client'[c].pc = client[c].pc /\ client'[c].i = client[c].i
      <4>1. client[c] \in Asker
          BY <1>0, Zenon
      <4> QED
          BY <3>1, <4>1, AskerIs, Zenon
    <3>3. client[c].pc \in Ops
        BY <2>3, SlotOf, Zenon DEF OwnInv
    <3>4. unsure' = (unsure \/ \E d \in Clients : client[d].slot \in ss /\ client[d].pc = "manifest")
        BY <2>1, FailIs, Zenon
    <3>5. accepted' = accepted /\ (unsure => unsure')
        BY <2>1, Zenon DEF Fail
    <3> QED
        BY <2>3, <3>2, <3>3, <3>4, <3>5, Zenon DEF GaveUp
  <2> QED
      BY <2>2, <2>3, Zenon
<1>3. ASSUME NEW d \in Clients, TimeOut(d) \/ Interrupt(d)
      PROVE  /\ client'[c] = client[c] \/ GaveUp(c)
             /\ accepted => accepted'
             /\ unsure => unsure'
  <2>1. PICK k \in {TryAgain(client[d]), Waiting("failed", 0)} : client' = [client EXCEPT ![d] = k]
      BY <1>3, Zenon DEF TimeOut, Interrupt, Become
  <2>2. accepted' = accepted /\ unsure' = (unsure \/ client[d].pc = "manifest")
      BY <1>3, Zenon DEF TimeOut, Interrupt
  <2>3. CASE c # d
      BY <1>0, <2>1, <2>2, <2>3, Zenon
  <2>4. CASE c = d
    <3>1. client'[c] = k
        BY <1>0, <2>1, <2>4, Zenon
    <3>2. /\ k.slot = 0
          /\ \/ k.pc = "failed"
             \/ k.pc = client[c].pc /\ k.i = client[c].i
      <4>1. client[c] \in Asker
          BY <1>0, Zenon
      <4>2. CASE k = TryAgain(client[c])
          BY <4>1, <4>2, AskerIs, Zenon
      <4>3. CASE k = Waiting("failed", 0)
          BY <4>3, Zenon DEF Waiting
      <4> QED
          BY <2>1, <2>4, <4>2, <4>3, Zenon
    <3>3. client[c].pc \in Ops
        BY <1>3, <2>4, Zenon DEF TimeOut, Interrupt, OwnInv
    <3> QED
        BY <2>2, <2>4, <3>1, <3>2, <3>3, Zenon DEF GaveUp
  <2> QED
      BY <2>3, <2>4, Zenon
<1>4. ASSUME NEW d \in Clients, Send(d)
      PROVE  /\ \/ client'[c] = client[c]
                \/ /\ Send(c) /\ client[c].slot = 0 /\ client[c].pc \in Ops
                   /\ client'[c].pc = client[c].pc /\ client'[c].i = client[c].i
             /\ UNCHANGED <<accepted, unsure>>
  <2>1. \E s \in Slots : client' = [client EXCEPT ![d].slot = s]
      BY <1>4, Zenon DEF Send
  <2>2. client[d].slot = 0 /\ client[d].pc \in Ops /\ UNCHANGED <<accepted, unsure>>
      BY <1>4, Zenon DEF Send, histVars
  <2> QED
      BY <1>0, <1>4, <2>1, <2>2 DEF Asker
<1>5. ASSUME NEW d \in Clients, Answer(d) \/ Use(d)
      PROVE  /\ client'[c] = client[c] \/ Answer(c) \/ Use(c)
             /\ accepted => accepted'
             /\ unsure => unsure'
  <2>1. \E k : client' = [client EXCEPT ![d] = k]
    <3>1. CASE Use(d)
        BY <3>1, Zenon DEF Use, Become
    <3>2. CASE Answer(d)
      <4>1. PICK pc \in Ops \cup {"off", "ok", "failed", "loaded", "notfound", "ended"},
                 i \in 0 .. ChunkCount : client' = [client EXCEPT ![d] = Waiting(pc, i)]
          BY <3>2, AnswerIs
      <4> QED
          BY <4>1, Zenon
    <3> QED
        BY <1>5, <3>1, <3>2, Zenon
  <2>2. (accepted => accepted') /\ unsure' = unsure
    <3>1. Use(d) => (accepted => accepted') /\ unsure' = unsure
        BY DEF Use, histVars
    <3>2. Answer(d) => (accepted => accepted') /\ unsure' = unsure
        BY AnswerIs, Zenon
    <3> QED
        BY <1>5, <3>1, <3>2, Zenon
  <2> QED
      BY <1>0, <1>5, <2>1, <2>2, Zenon
<1>6. CASE UNCHANGED <<slot, clientVars, unsure>>
    BY <1>6, Zenon DEF clientVars
<1> QED
    BY <1>1, <1>2, <1>3, <1>4, <1>5, <1>6, AskStep, Zenon
=============================================================================
