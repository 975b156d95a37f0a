---------------------------- MODULE UploadProofs ----------------------------
(***************************************************************************)
(* What the clients of Upload are told is true, for any number of chunks,  *)
(* attempts, faults and requests under way, and in every store: a failed   *)
(* upload, a finished one, and a DELETE.                                   *)
(***************************************************************************)
EXTENDS UploadStepProofs

-----------------------------------------------------------------------------
(* What has been written so far.                                           *)

\* The chunks and the manifest come after the metadata, the manifest after a
\* chunk was accepted, and a DELETE after the token was used.
MadeInv ==
    /\ Collector.pc \in {"chunk", "manifest", "ok"} => made >= 1
    /\ \A s \in Slots : slot[s].pc # "free" =>
         /\ slot[s].op \in {"chunk", "manifest"} => made >= 1
         /\ slot[s].op = "manifest" => accepted
         /\ slot[s].op = "delete" => End.pc # "off"
    /\ \A s \in Slots : \/ slot[s].pc \in {"mkchunks", "created"}
                        \/ slot[s].pc = "reply" /\ slot[s].op = "create" /\ slot[s].code = "ok"
                        => made >= 1
    /\ \A o \in Objects \ {Dir} : Has(o) => made >= 1

\* DirStore: nothing without the directories it is in.
DirInv ==
    /\ Has(Dir) \/ Has(ChunkDir) => backend = "dir"
    /\ backend = "dir" => /\ \A o \in Objects : Has(o) => Has(Dir)
                          /\ \A o \in Chunks : Has(o) => Has(ChunkDir)

AskInv == TypeInv /\ OwnInv /\ RoleInv

\* What a writing step writes, and for which operation.
LEMMA WritesIs ==
    ASSUME TypeInv, NEW s \in Slots, NEW o \in Objects, Writes(s, o)
    PROVE  /\ stored'[o] # 0 /\ stored'[o] = now
           /\ \A x \in Objects : x # o => stored'[x] = stored[x]
           /\ o = Dir \/ o = ChunkDir => backend = "dir"
           /\ o = Meta => Create(s)
           /\ o = Manifest => PutObject(s) /\ slot[s].op = "manifest"
           /\ o \in Chunks => PutObject(s) /\ slot[s].op = "chunk" /\ o = Chunk(slot[s].i)
           /\ o \notin {Meta, Dir} => slot[s].pc \in {"put", "mkchunks"}
           /\ slot[s].pc = "put" => slot[s].op \in {"chunk", "manifest"}
           /\ slot[s].pc # "free"
<1>0. stored \in [Objects -> 0 .. MaxTime] /\ now \in 1 .. MaxTime /\ LabelOK(slot[s])
      /\ stored' = [stored EXCEPT ![o] = now]
    BY Zenon DEF TypeInv, TypeOK, Writes
<1>1. stored'[o] = now /\ now # 0 /\ \A x \in Objects : x # o => stored'[x] = stored[x]
    BY <1>0
<1>2. slot[s].op = "chunk" /\ slot[s].pc # "free" => Chunk(slot[s].i) \in Chunks
    BY ObjectNames, Zenon DEF TypeInv, AboutOK
<1>3. CASE Mkdir(s) /\ o = Dir
    BY <1>0, <1>1, <1>3, ObjectNames, Zenon DEF Mkdir, LabelOK
<1>4. CASE Create(s) /\ o = Meta
    BY <1>0, <1>1, <1>4, ObjectNames, Zenon DEF Create, LabelOK
<1>5. CASE MkChunks(s) /\ o = ChunkDir
    BY <1>0, <1>1, <1>5, ObjectNames, Zenon DEF MkChunks, LabelOK
<1>6. CASE PutObject(s) /\ o = Target(slot[s])
  <2>1. slot[s].pc = "put" /\ slot[s].op \in {"chunk", "manifest"}
      BY <1>0, <1>6, Zenon DEF PutObject, LabelOK
  <2>2. CASE slot[s].op = "chunk"
    <3>1. o = Chunk(slot[s].i) /\ o \in Chunks
        BY <1>2, <1>6, <2>1, <2>2, Zenon DEF Target
    <3> QED
        BY <1>1, <1>6, <2>1, <2>2, <3>1, ObjectNames, Zenon
  <2>3. CASE slot[s].op = "manifest"
    <3>1. o = Manifest
        BY <1>6, <2>3, Zenon DEF Target
    <3> QED
        BY <1>1, <1>6, <2>1, <2>3, <3>1, ObjectNames, Zenon
  <2> QED
      BY <2>1, <2>2, <2>3, Zenon
<1> QED
    BY <1>3, <1>4, <1>5, <1>6, Zenon DEF Writes

\* An object is new only if a slot has written it.
LEMMA NewObject ==
    ASSUME TypeInv, [Next]_vars, NEW o \in Objects, Has(o)', ~Has(o)
    PROVE  \E s \in Slots : Writes(s, o)
<1>0. stored \in [Objects -> 0 .. MaxTime]
    BY Zenon DEF TypeInv, TypeOK
<1>1. ASSUME NEW s \in Slots, NEW x \in Objects, Writes(s, x) PROVE Writes(s, o)
  <2>1. \A y \in Objects : y # x => stored'[y] = stored[y]
      BY <1>1, WritesIs, Zenon
  <2>2. x = o
      BY <2>1, Zenon DEF Has
  <2> QED
      BY <1>1, <2>2, Zenon
<1>2. ASSUME NEW os, Drop(os) PROVE FALSE
    BY <1>0, <1>2, Zenon DEF Drop, Has
<1>3. stored' # stored
    BY Zenon DEF Has
<1> QED
    BY <1>1, <1>2, <1>3, StoredStep, Zenon

\* Nothing has been at the start.
LEMMA InitMade == Init => MadeInv /\ DirInv
<1> SUFFICES ASSUME Init PROVE MadeInv /\ DirInv
    OBVIOUS
<1>1. \A s \in Slots : slot[s].pc = "free"
    BY NoRequestIs, Zenon DEF Init
<1>2. \A o \in Objects : ~Has(o)
    BY Zenon DEF Init, StoreInit, Has
<1>3. Collector.pc = "create"
    BY Zenon DEF Init, Waiting, Clients, Collector
<1> QED
    BY <1>1, <1>2, <1>3, ObjectNames, Zenon DEF MadeInv, DirInv

\* What a step does to the roles: the collector gets on by an answer only, and
\* the token stays used.
LEMMA CollectorTurn ==
    ASSUME AskInv, [Next]_vars
    PROVE  /\ \/ Collector'.pc = Collector.pc /\ Collector'.i = Collector.i
              \/ Collector'.pc = "failed"
              \/ Answer("collector")
           /\ Collector.pc = "ok" => Collector' = Collector
           /\ End.pc # "off" => End'.pc # "off"
           /\ Reader.pc # "off" => Reader'.pc # "off"
<1> USE DEF AskInv
<1>1. \A c \in Clients : Use(c) => c # "collector" /\ client[c].pc = "off"
    BY Zenon DEF Use
<1>2. "ok" \notin Ops /\ "off" \notin Ops
    BY Zenon DEF Ops
<1>3. \A c \in Clients : Answer(c) => client[c].pc \in Ops
    BY AnswerRole, Zenon
<1>4. /\ \/ Collector'.pc = Collector.pc /\ Collector'.i = Collector.i
         \/ Collector'.pc = "failed"
         \/ Answer("collector")
      /\ Collector.pc = "ok" => Collector' = Collector
    BY <1>1, <1>2, <1>3, ClientTurn, ClientNames, Zenon DEF Collector, GaveUp
<1>5. ASSUME NEW c \in Clients, c # "collector", client[c].pc # "off" PROVE client'[c].pc # "off"
  <2>1. Answer(c) => client'[c].pc # "off"
    <3>1. CASE c = "reader" /\ Answer(c)
      <4>1. \A p, j : Become(c, p, j) => client'[c].pc = p
          BY DEF TypeInv, TypeOK, Become, Waiting
      <4> QED
          BY <3>1, <4>1, Zenon DEF Answer, Loaded
    <3>2. CASE c = "end" /\ Answer(c)
      <4>1. \A p, j : Become(c, p, j) => client'[c].pc = p
          BY DEF TypeInv, TypeOK, Become, Waiting
      <4> QED
          BY <3>2, <4>1, Zenon DEF Answer
    <3> QED
        BY <1>5, <3>1, <3>2, ClientNames, Zenon
  <2> QED
      BY <1>1, <1>5, <2>1, ClientTurn, Zenon DEF GaveUp
<1> QED
    BY <1>4, <1>5, ClientNames, Zenon DEF Reader, End

\* The metadata is counted when it is written, and nothing uncounts it.
LEMMA MetaMade ==
    ASSUME TypeInv, [Next]_vars
    PROVE  /\ made \in Nat /\ made' \in Nat /\ made <= made'
           /\ \A s \in Slots : Writes(s, Meta) =>
                made' = made + 1 /\ expires' = slot[s].at + TTL
<1>1. made \in Nat /\ made' \in Nat /\ made <= made'
    BY MadeStep DEF TypeInv, TypeOK
<1>2. ASSUME NEW s \in Slots, Writes(s, Meta)
      PROVE  made' = made + 1 /\ expires' = slot[s].at + TTL
  <2>1. Create(s)
      BY <1>2, WritesIs, ObjectNames, Zenon
  <2>2. WriteCode(Meta) = "ok"
      BY <1>2, Zenon DEF Writes, WriteCode
  <2> QED
      BY <2>1, <2>2, Zenon DEF Create
<1> QED
    BY <1>1, <1>2, Zenon

\* How the collector takes an answer.
LEMMA CollectorAnswers ==
    ASSUME AskInv, Answer("collector")
    PROVE  LET s == Collector.slot
               put == Collector.pc = "chunk" /\ slot[s].code \in {"ok", "exists"}
           IN  /\ s \in Slots /\ s # 0 /\ slot[s].pc = "reply" /\ slot[s].op = Collector.pc
               /\ slot[s].i = Collector.i
               /\ slot'[s] = NoRequest /\ Collector'.slot = 0
               /\ UNCHANGED <<storeVars, made, faults, unsure>>
               /\ \/ /\ Collector.pc = "create" /\ slot[s].code = "ok"
                     /\ Collector'.pc = "chunk" /\ Collector'.i = 1
                  \/ /\ put /\ Collector.i < ChunkCount
                     /\ Collector'.pc = "chunk" /\ Collector'.i = Collector.i + 1
                  \/ /\ put /\ ~(Collector.i < ChunkCount)
                     /\ Collector'.pc = "manifest"
                  \/ /\ Collector.pc = "manifest" /\ slot[s].code = "ok"
                     /\ Collector'.pc = "ok"
                  \/ /\ slot[s].code # "ok" /\ Collector'.pc = "failed"
<1> DEFINE s == Collector.slot
           put == Collector.pc = "chunk" /\ slot[s].code \in {"ok", "exists"}
<1> USE DEF AskInv
<1>1. s \in Slots /\ slot[s].pc = "reply"
    BY AnswerIs, ClientNames, Zenon DEF Collector
<1>2. s # 0
    BY Zenon DEF Answer, Collector
<1>3. slot[s].op = Collector.pc /\ slot[s].i = Collector.i
    BY <1>2, ClientNames, Zenon DEF OwnInv, Collector
<1>4. slot'[s] = NoRequest
    BY <1>1, AnswerIs, ClientNames DEF TypeInv, TypeOK, Collector
<1>5. Uploaded("collector", slot[s].code) /\ UNCHANGED <<storeVars, made, faults, unsure>>
    BY Zenon DEF Answer, Collector, histVars
<1>6. \A p, j : Become("collector", p, j) =>
         Collector'.pc = p /\ Collector'.i = j /\ Collector'.slot = 0
    BY ClientNames DEF TypeInv, TypeOK, Become, Waiting, Collector
<1>7. /\ Collector'.slot = 0
      /\ \/ /\ Collector.pc = "create" /\ slot[s].code = "ok"
            /\ Collector'.pc = "chunk" /\ Collector'.i = 1
         \/ /\ put /\ Collector.i < ChunkCount
            /\ Collector'.pc = "chunk" /\ Collector'.i = Collector.i + 1
         \/ /\ put /\ ~(Collector.i < ChunkCount)
            /\ Collector'.pc = "manifest"
         \/ /\ Collector.pc = "manifest" /\ slot[s].code = "ok"
            /\ Collector'.pc = "ok"
         \/ /\ slot[s].code # "ok" /\ Collector'.pc = "failed"
  <2> HIDE DEF s, AskInv
  <2>1. client["collector"] = Collector
      BY Zenon DEF Collector
  <2> QED
      BY <1>5, <1>6, <2>1, Zenon DEF Uploaded
<1> QED
    BY <1>1, <1>2, <1>3, <1>4, <1>5, <1>7, Zenon

\* Every step keeps what MadeInv says.
LEMMA NextMade == AskInv /\ MadeInv /\ [Next]_vars => MadeInv'
<1> SUFFICES ASSUME AskInv, MadeInv, [Next]_vars PROVE MadeInv'
    OBVIOUS
<1>0. TypeInv /\ OwnInv /\ RoleInv
    BY Zenon DEF AskInv
<1>1. /\ made >= 1 => made' >= 1
      /\ \A s \in Slots : Writes(s, Meta) => made' >= 1
    BY <1>0, MetaMade
<1>2. Collector'.pc \in {"chunk", "manifest", "ok"} => made' >= 1
  <2>1. Answer("collector") => (Collector'.pc \in {"chunk", "manifest", "ok"} => made' >= 1)
      BY <1>1, CollectorAnswers, Zenon DEF MadeInv
  <2> QED
      BY <1>1, <2>1, CollectorTurn, Zenon DEF MadeInv
<1>3. ASSUME NEW x \in Slots, slot'[x].pc # "free"
      PROVE  /\ slot'[x].op \in {"chunk", "manifest"} => made' >= 1
             /\ slot'[x].op = "manifest" => accepted'
             /\ slot'[x].op = "delete" => End'.pc # "off"
  <2>0. /\ accepted => accepted'
        /\ End.pc # "off" => End'.pc # "off"
      BY <1>0, ClientTurn, CollectorTurn, ClientNames, Zenon
  <2>1. CASE slot[x].pc # "free" /\ slot'[x].op = slot[x].op
      BY <1>1, <2>0, <2>1, Zenon DEF MadeInv
  <2>2. ASSUME NEW c \in Clients, slot'[x].op = client[c].pc, UNCHANGED <<made, accepted>>
        PROVE  /\ slot'[x].op \in {"chunk", "manifest"} => made' >= 1
               /\ slot'[x].op = "manifest" => accepted'
               /\ slot'[x].op = "delete" => End'.pc # "off"
    <3>1. /\ client[c].pc \in {"chunk", "manifest"} => c = "collector"
          /\ client[c].pc = "delete" => c = "end"
        BY <1>0, Zenon DEF RoleInv, Clients, Tasks
    <3>2. c = "collector" => client[c] = Collector
        BY Zenon DEF Collector
    <3>3. c = "end" => client[c] = End
        BY Zenon DEF End
    <3> QED
        BY <1>0, <2>0, <2>2, <3>1, <3>2, <3>3, Zenon DEF MadeInv, RoleInv
  <2> QED
      BY <1>0, <1>3, <2>1, <2>2, SlotTurn, NoRequestIs, Zenon
<1>4. ASSUME NEW x \in Slots,
             \/ slot'[x].pc \in {"mkchunks", "created"}
             \/ slot'[x].pc = "reply" /\ slot'[x].op = "create" /\ slot'[x].code = "ok"
      PROVE  made' >= 1
  <2>1. CASE slot'[x] = slot[x]
      BY <1>1, <1>4, <2>1, Zenon DEF MadeInv
  <2>2. slot'[x] # NoRequest /\ slot'[x].pc # "arrive"
      BY <1>4, NoRequestIs, Zenon
  <2>3. CASE Turn(x, slot[x], slot'[x])
    <3>1. Writes(x, Meta) \/ slot[x].pc \in {"mkchunks", "created"}
        BY <1>4, <2>3, Zenon DEF Turn
    <3> QED
        BY <1>1, <3>1, Zenon DEF MadeInv
  <2> QED
      BY <1>0, <2>1, <2>2, <2>3, SlotTurn, Zenon
<1>5. ASSUME NEW o \in Objects \ {Dir}, Has(o)' PROVE made' >= 1
  <2>1. CASE Has(o)
      BY <1>1, <1>5, <2>1, Zenon DEF MadeInv
  <2>2. CASE ~Has(o)
    <3>1. PICK s \in Slots : Writes(s, o)
        BY <1>0, <1>5, <2>2, NewObject, Zenon
    <3>2. CASE o = Meta
        BY <1>1, <3>1, <3>2, Zenon
    <3>3. CASE o # Meta
      <4>1. \/ slot[s].pc = "mkchunks"
            \/ slot[s].pc # "free" /\ slot[s].op \in {"chunk", "manifest"}
        <5>1. /\ o \notin {Meta, Dir} => slot[s].pc \in {"put", "mkchunks"}
              /\ slot[s].pc = "put" => slot[s].op \in {"chunk", "manifest"}
            BY <1>0, <3>1, WritesIs, Zenon
        <5>2. o \notin {Meta, Dir}
            BY <1>5, <3>3, Zenon
        <5>3. slot[s].pc = "put" => slot[s].pc # "free"
            OBVIOUS
        <5> QED
            BY <5>1, <5>2, <5>3, Zenon
      <4> QED
          BY <1>1, <4>1, Zenon DEF MadeInv
    <3> QED
        BY <3>2, <3>3, Zenon
  <2> QED
      BY <2>1, <2>2, Zenon
<1> QED
    BY <1>2, <1>3, <1>4, <1>5, Zenon DEF MadeInv, Collector, End, Has

\* What a step removes from a directory.
LEMMA DirDrop ==
    ASSUME TypeInv, Drops, backend = "dir"
    PROVE  stored' = stored \/ \E gone \in Unlinks : Drop(gone)
<1>0. stored \in [Objects -> 0 .. MaxTime] /\ backend # "memory" /\ backend # "r2"
    BY Zenon DEF TypeInv, TypeOK
<1>1. ASSUME NEW listed, NEW gone \in Removals(listed), Drop(gone)
      PROVE  stored' = stored \/ \E os \in Unlinks : Drop(os)
  <2>1. gone \in Unlinks \/ gone = {}
      BY <1>1, Zenon DEF Removals
  <2>2. gone = {} => stored' = stored
      BY <1>0, <1>1, Zenon DEF Drop
  <2> QED
      BY <1>1, <2>1, <2>2, Zenon
<1>2. \A listed : RemoveFails(listed) => stored' = stored
    BY <1>0, Zenon DEF RemoveFails
<1>3. DeleteBegin => stored' = stored
    BY <1>0, Zenon DEF DeleteBegin
<1>4. ASSUME NEW s \in Slots, Delete(s) \/ Remove(s) \/ DeleteFails(s)
      PROVE  stored' = stored \/ \E os \in Unlinks : Drop(os)
  <2>1. CASE Delete(s)
      BY <1>3, <2>1, Zenon DEF Delete
  <2>2. CASE Remove(s)
    <3>1. PICK gone \in Removals(slot[s].listed) : Drop(gone)
        BY <2>2, Zenon DEF Remove
    <3> QED
        BY <1>1, <3>1, Zenon
  <2>3. CASE DeleteFails(s)
      BY <1>2, <2>3, Zenon DEF DeleteFails
  <2> QED
      BY <1>4, <2>1, <2>2, <2>3, Zenon
<1>5. CASE SweepStart /\ SweepDue
    BY <1>0, <1>5, Zenon DEF SweepStart, NotSwept
<1>6. CASE SweepRemove
  <2>1. PICK gone \in Removals(sweep.listed) : Drop(gone)
      BY <1>6, Zenon DEF SweepRemove
  <2> QED
      BY <1>1, <2>1, Zenon
<1>7. CASE SweepFails
    BY <1>2, <1>7, Zenon DEF SweepFails
<1> QED
    BY <1>0, <1>4, <1>5, <1>6, <1>7, Zenon DEF Drops

\* Every step keeps what DirInv says.
LEMMA NextDir == TypeInv /\ DirInv /\ [Next]_vars => DirInv'
<1> SUFFICES ASSUME TypeInv, DirInv, [Next]_vars PROVE DirInv'
    OBVIOUS
<1>0. backend' = backend /\ Dir \in Objects /\ ChunkDir \in Objects /\ Chunks \subseteq Objects
      /\ stored \in [Objects -> 0 .. MaxTime]
    BY StoreType, ObjectNames, Zenon DEF TypeInv, TypeOK
<1>1. Has(Dir)' \/ Has(ChunkDir)' => backend = "dir"
  <2>1. ASSUME NEW o \in {Dir, ChunkDir}, Has(o)' PROVE backend = "dir"
    <3>1. o \in Objects
        BY <1>0, Zenon
    <3>2. Has(o) \/ \E s \in Slots : Writes(s, o)
        BY <2>1, <3>1, NewObject, Zenon
    <3>3. ASSUME NEW s \in Slots, Writes(s, o) PROVE o = Dir \/ o = ChunkDir => backend = "dir"
        BY <3>1, <3>3, WritesIs, Zenon
    <3> QED
        BY <2>1, <3>2, <3>3, Zenon DEF DirInv
  <2> QED
      BY <2>1, Zenon
<1>2. ASSUME backend = "dir"
      PROVE  /\ \A o \in Objects : Has(o)' => Has(Dir)'
             /\ \A o \in Chunks : Has(o)' => Has(ChunkDir)'
  <2>0. /\ \A o \in Objects : Has(o) => Has(Dir)
        /\ \A o \in Chunks : Has(o) => Has(ChunkDir)
      BY <1>2, Zenon DEF DirInv
  <2>1. CASE stored' = stored
      BY <2>0, <2>1, Zenon DEF Has
  <2>2. ASSUME NEW s \in Slots, NEW x \in Objects, Writes(s, x)
        PROVE  /\ \A o \in Objects : Has(o)' => Has(Dir)'
               /\ \A o \in Chunks : Has(o)' => Has(ChunkDir)'
    <3>1. stored'[x] # 0 /\ \A o \in Objects : o # x => stored'[o] = stored[o]
        BY <2>2, WritesIs, Zenon
    <3>2. \A o \in Objects : (Has(o) => Has(o)') /\ (Has(o)' => o = x \/ Has(o))
        BY <3>1, Zenon DEF Has
    <3>3. /\ x \in Chunks => Has(ChunkDir)
          /\ x \in {Meta, Manifest, ChunkDir} => Has(Dir)
        BY <1>2, <2>2, Zenon DEF Writes, ParentThere
    <3>4. x = Dir \/ Has(Dir)
        BY <1>0, <2>0, <3>3, Zenon DEF Objects
    <3> QED
        BY <1>0, <2>0, <3>2, <3>3, <3>4, Zenon
  <2>3. ASSUME NEW gone \in Unlinks, Drop(gone)
        PROVE  /\ \A o \in Objects : Has(o)' => Has(Dir)'
               /\ \A o \in Chunks : Has(o)' => Has(ChunkDir)'
    <3>1. \A o \in Objects : Has(o)' <=> Has(o) /\ o \notin gone
        BY <2>3, Zenon DEF Drop, Has
    <3>2. CASE Present = {Dir}
      <4>1. gone = {Dir}
          BY <2>3, <3>2, Zenon DEF Unlinks
      <4>2. \A o \in Objects : Has(o) => o = Dir
          BY <3>2, Zenon DEF Present
      <4> QED
          BY <1>0, <3>1, <4>1, <4>2, Zenon
    <3>3. CASE Present # {Dir}
      <4>1. gone \in {{Meta}, {Manifest}, Chunks \cup {ChunkDir}}
          BY <2>3, <3>3, Zenon DEF Unlinks
      <4>2. Dir \notin gone /\ (ChunkDir \in gone => Chunks \subseteq gone)
          BY <4>1, ObjectNames, Zenon
      <4> QED
          BY <1>0, <2>0, <3>1, <4>2, Zenon
    <3> QED
        BY <3>2, <3>3, Zenon
  <2> QED
      BY <1>2, <2>1, <2>2, <2>3, StoredStep, DirDrop, Zenon
<1>3. Has(Dir)' \/ Has(ChunkDir)' => backend' = "dir"
    BY <1>0, <1>1, Zenon
<1> QED
    BY <1>0, <1>2, <1>3, Zenon DEF DirInv

-----------------------------------------------------------------------------
(* What upload tells of a failure.                                         *)

\* As long as every PUT of the manifest was answered, such a request is the
\* one the collector waits for, and the collector knows of the manifest or has
\* its answer before it.
UnsureInv ==
    /\ \A s \in Slots : slot[s].pc # "free" /\ slot[s].op = "manifest" /\ ~unsure =>
          Collector.slot = s
    /\ Has(Manifest) => accepted
    /\ Has(Manifest) /\ ~unsure =>
          \/ Collector.pc = "ok"
          \/ /\ Collector.slot # 0 /\ Collector.pc = "manifest"
             /\ slot[Collector.slot].pc = "reply" /\ slot[Collector.slot].code = "ok"

\* A PUT that writes is answered with success, if someone waits for it.
LEMMA PutOk ==
    ASSUME TypeInv, NEW s \in Slots, NEW o \in Objects, Writes(s, o), PutObject(s), Waited(s)
    PROVE  /\ slot'[s].pc = "reply" /\ slot'[s].code = "ok"
           /\ slot'[s].op = slot[s].op /\ slot'[s].i = slot[s].i
           /\ client' = client
<1>1. stored' # stored
    BY WritesIs, ZenonT(40) DEF Writes, Has
<1>2. PutCode(Target(slot[s])) = "ok"
    BY <1>1, Zenon DEF PutObject, Put
<1>3. slot \in [Slots -> Request] /\ slot[s] \in Request
    BY Zenon DEF TypeInv, TypeOK
<1>4. slot'[s] = Answered(s, slot[s], "ok") /\ client' = client
    BY <1>2, <1>3, Zenon DEF PutObject, Set, clientVars
<1> HIDE DEF Waited
<1> QED
    BY <1>3, <1>4, Zenon DEF Answered, Request

\* Every step keeps what UnsureInv says.
LEMMA NextUnsure == AskInv /\ MadeInv /\ UnsureInv /\ [Next]_vars => UnsureInv'
<1> SUFFICES ASSUME AskInv, MadeInv, UnsureInv, [Next]_vars PROVE UnsureInv'
    OBVIOUS
<1>0. TypeInv /\ OwnInv /\ RoleInv /\ OwnInv' /\ Manifest \in Objects
    BY NextOwn, ObjectNames, Zenon DEF AskInv
<1>1. /\ accepted => accepted'
      /\ unsure => unsure'
      /\ \/ Collector' = Collector
         \/ Send("collector") /\ Collector.slot = 0
         \/ GaveUp("collector")
         \/ Answer("collector")
         \/ Use("collector")
    BY <1>0, ClientTurn, ClientNames, Zenon DEF Collector
<1>2. ~Use("collector") /\ 0 \notin Slots /\ (GaveUp("collector") /\ Collector.pc = "manifest" => unsure')
    BY DEF Use, Slots, GaveUp, Collector
<1>3. Collector.slot # 0 => /\ slot[Collector.slot].pc # "free"
                            /\ slot[Collector.slot].op = Collector.pc
                            /\ Collector.slot \in Slots
    BY <1>0, ClientNames, SlotOf, Zenon DEF OwnInv, Collector
<1>4. ASSUME NEW x \in Slots, slot'[x].pc # "free", slot'[x].op = "manifest", ~unsure'
      PROVE  Collector'.slot = x
  <2>1. CASE slot'[x] = slot[x]
    <3>1. Collector.slot = x /\ Collector.pc = "manifest"
        BY <1>1, <1>2, <1>3, <1>4, <2>1, Zenon DEF UnsureInv
    <3>2. ~Answer("collector")
        BY <1>4, <3>1, CollectorAnswers, NoRequestIs, Zenon
    <3> QED
        BY <1>1, <1>2, <1>4, <3>1, <3>2, Zenon
  <2>2. slot'[x] # NoRequest
      BY <1>4, NoRequestIs, Zenon
  <2>3. ASSUME NEW c \in Clients, slot'[x].op = client[c].pc, client'[c].slot = x
        PROVE  Collector'.slot = x
    <3>1. c = "collector"
        BY <1>0, <1>4, <2>3, Zenon DEF RoleInv, Clients, Tasks
    <3> QED
        BY <2>3, <3>1, Zenon DEF Collector
  <2>4. CASE slot[x].pc # "free" /\ slot'[x].op = slot[x].op /\ UNCHANGED <<clientVars, unsure>>
    <3>1. Collector' = Collector
        BY <2>4, Zenon DEF Collector, clientVars
    <3> QED
        BY <1>1, <1>4, <2>4, <3>1, Zenon DEF UnsureInv
  <2> QED
      BY <1>0, <2>1, <2>2, <2>3, <2>4, SlotTurn, Zenon
<1>5. ASSUME NEW s \in Slots, Writes(s, Manifest)
      PROVE  PutObject(s) /\ slot[s].op = "manifest" /\ slot[s].pc # "free"
    BY <1>0, <1>5, WritesIs, Zenon
<1>6. Has(Manifest)' /\ ~Has(Manifest) => \E s \in Slots : Writes(s, Manifest)
    BY <1>0, NewObject, Zenon
<1>7. Has(Manifest)' => accepted'
    BY <1>1, <1>5, <1>6, Zenon DEF MadeInv, UnsureInv
<1>8. ASSUME Has(Manifest)', ~unsure'
      PROVE  \/ Collector'.pc = "ok"
             \/ /\ Collector'.slot # 0 /\ Collector'.pc = "manifest"
                /\ slot'[Collector'.slot].pc = "reply" /\ slot'[Collector'.slot].code = "ok"
  <2>1. CASE Collector.pc = "ok"
      BY <2>1, CollectorTurn, Zenon
  <2>2. CASE /\ Collector.slot # 0 /\ Collector.pc = "manifest"
             /\ slot[Collector.slot].pc = "reply" /\ slot[Collector.slot].code = "ok"
    <3>1. CASE Answer("collector")
        BY <2>2, <3>1, CollectorAnswers, Zenon
    <3>2. CASE Collector' = Collector
      <4> DEFINE x == Collector.slot
      <4>1. x \in Slots /\ slot[x].pc = "reply"
          BY <1>3, <2>2, Zenon
      <4>2. slot'[x].pc # "free"
          BY <1>0, <2>2, <3>2, ClientNames DEF OwnInv, Collector
      <4>3. slot'[x] = slot[x]
        <5> HIDE DEF x
        <5>1. slot'[x] # NoRequest /\ slot[x].pc # "free"
            BY <4>1, <4>2, NoRequestIs, Zenon
        <5> QED
            BY <1>0, <4>1, <5>1, SlotTurn, Zenon
      <4> QED
          BY <2>2, <3>2, <4>3, Zenon
    <3> QED
        BY <1>1, <1>2, <1>8, <2>2, <3>1, <3>2, Zenon
  <2>3. CASE ~Has(Manifest)
    <3>1. PICK s \in Slots : Writes(s, Manifest)
        BY <1>6, <1>8, <2>3, Zenon
    <3>2. Collector.slot = s
        BY <1>1, <1>5, <1>8, <3>1, Zenon DEF UnsureInv
    <3>3. Collector.slot # 0 /\ Collector.pc = "manifest"
        BY <1>2, <1>3, <1>5, <3>1, <3>2, Zenon
    <3>4. Waited(s)
        BY <3>2, ClientNames, Zenon DEF Waited, Collector
    <3>5. slot'[s].pc = "reply" /\ slot'[s].code = "ok" /\ client' = client
        BY <1>0, <1>5, <3>1, <3>4, PutOk, Zenon
    <3> QED
        BY <3>2, <3>3, <3>5, Zenon DEF Collector
  <2> QED
      BY <1>1, <1>8, <2>1, <2>2, <2>3, Zenon DEF UnsureInv
<1> QED
    BY <1>4, <1>7, <1>8, Zenon DEF UnsureInv, Collector, Has

\* An upload that failed before a chunk was accepted has left no manifest, and
\* one that failed with its manifest stored had a PUT of it without an answer:
\* what upload (collect/run.go) prints of a failure is true, for any number of
\* chunks, attempts and faults and in every store.
THEOREM Told == Spec => []FailureTold
<1> DEFINE Inv == AskInv /\ MadeInv /\ UnsureInv
<1>1. Init => Inv
  <2>1. Init => UnsureInv
    <3> SUFFICES ASSUME Init PROVE UnsureInv
        OBVIOUS
    <3>1. \A s \in Slots : slot[s].pc = "free"
        BY NoRequestIs, Zenon DEF Init
    <3>2. ~Has(Manifest)
        BY ObjectNames, Zenon DEF Init, StoreInit, Has
    <3> QED
        BY <3>1, <3>2, Zenon DEF UnsureInv
  <2> QED
      BY <2>1, InitType, InitOwn, InitMade, Zenon DEF AskInv
<1>2. Inv /\ [Next]_vars => Inv'
    BY NextType, NextOwn, NextMade, NextUnsure, Zenon DEF AskInv
<1>3. Inv => FailureTold
  <2> SUFFICES ASSUME Inv PROVE FailureTold
      OBVIOUS
  <2> QED
      BY Zenon DEF UnsureInv, FailureTold, Collector
<1> QED
    BY <1>1, <1>2, <1>3, PTL DEF Spec

-----------------------------------------------------------------------------
(* What a reported success is worth.                                       *)

\* A removal of the session written first, once it is under way, has its right
\* to: the session has expired or was deleted with the token, or the relay that
\* kept it in memory was restarted.
RightInv ==
    /\ sweep.pc # "idle" => made >= 1 /\ (made = 1 => GoneByRight)
    /\ \A s \in Slots : slot[s].pc \in {"evict", "evictRemove"} =>
          made >= 1 /\ (made = 1 => now >= expires)
    /\ made = 1 => Has(Meta) \/ GoneByRight

\* A restart is remembered.
LEMMA Restarts ==
    ASSUME TypeInv, [Next]_vars
    PROVE  /\ restarted => restarted'
           /\ Restart => restarted'
<1>1. restarted' = restarted \/ Restart
    BY ZenonT(40) DEF Next, vars, histVars, Handle, Arrive, Lock, LockDelete, Delete, Remove,
       Mkdir, Create, MkChunks, Created, ReadMeta, Count, Stat, Head, PutObject, GetObject,
       DeleteFails, Break, Use, Client, Send, Answer, TimeOut, Interrupt, Sweep, SweepStart,
       SweepOrphan, SweepList, SweepRemove, SweepFails, Tick
<1>2. Restart => restarted'
    BY Zenon DEF Restart
<1> QED
    BY <1>1, <1>2

\* What may be gone may be gone from then on.
LEMMA GoneKept ==
    ASSUME AskInv, [Next]_vars, made' = made
    PROVE  /\ expires' = expires /\ (now >= expires => now' >= expires')
           /\ GoneByRight => GoneByRight'
<1>0. TypeInv
    BY Zenon DEF AskInv
<1>1. expires' = expires
  <2>1. made \in Nat
      BY <1>0, Zenon DEF TypeInv, TypeOK
  <2>2. made' # made + 1
      BY <2>1
  <2> QED
      BY <1>0, <2>2, MadeStep, Zenon
<1>2. now >= expires => now' >= expires'
  <2>1. now \in Nat /\ now' \in Nat /\ now <= now' /\ expires \in Nat
      BY <1>0, StoreType DEF TypeInv, TypeOK
  <2> QED
      BY <1>1, <2>1
<1>3. backend = "memory" /\ restarted => (backend = "memory" /\ restarted)'
    BY <1>0, StoreType, Restarts, Zenon
<1>4. client["end"].pc # "off" => client'["end"].pc # "off"
    BY CollectorTurn, Zenon DEF End
<1> QED
    BY <1>1, <1>2, <1>3, <1>4, Zenon DEF GoneByRight

\* Whatever is removed of the session written first may be gone.
LEMMA DropsRight ==
    ASSUME AskInv, MadeInv, RightInv, [Next]_vars, made' = made, made = 1, Drops
    PROVE  GoneByRight'
<1>0. TypeInv
    BY Zenon DEF AskInv
<1>1. now >= expires => GoneByRight
    BY Zenon DEF GoneByRight
<1>2. ASSUME NEW s \in Slots,
             slot[s].pc \in {"evict", "evictRemove", "delete", "deleteRemove"}
      PROVE  GoneByRight
  <2>1. CASE slot[s].pc \in {"evict", "evictRemove"}
      BY <1>1, <2>1, Zenon DEF RightInv
  <2>2. CASE slot[s].pc \in {"delete", "deleteRemove"}
    <3>1. slot[s].op = "delete" /\ slot[s].pc # "free"
        BY <1>0, <2>2, Zenon DEF TypeInv, LabelOK
    <3> QED
        BY <3>1, Zenon DEF MadeInv, GoneByRight, End
  <2> QED
      BY <1>2, <2>1, <2>2, Zenon
<1>3. SweepDue => GoneByRight
    BY <1>1, Zenon DEF SweepDue, Expired
<1>4. sweep.pc # "idle" => GoneByRight
    BY Zenon DEF RightInv
<1>5. Restart /\ backend = "memory" => GoneByRight'
    BY <1>0, Restarts, StoreType, Zenon DEF GoneByRight
<1>6. GoneByRight => GoneByRight'
    BY GoneKept, Zenon
<1> QED
    BY <1>2, <1>3, <1>4, <1>5, <1>6, Zenon DEF Drops

\* As long as it may not be gone, nothing of it goes.
LEMMA NothingGoes ==
    ASSUME AskInv, MadeInv, RightInv, [Next]_vars, made' = made, made = 1, ~GoneByRight'
    PROVE  ~GoneByRight /\ \A o \in Objects : Has(o) => Has(o)'
<1>0. TypeInv
    BY Zenon DEF AskInv
<1>1. ~GoneByRight /\ ~Drops
    BY GoneKept, DropsRight, Zenon
<1>2. ASSUME NEW s \in Slots, NEW x \in Objects, Writes(s, x), NEW o \in Objects, Has(o)
      PROVE  Has(o)'
  <2>1. stored'[x] # 0 /\ \A y \in Objects : y # x => stored'[y] = stored[y]
      BY <1>0, <1>2, WritesIs, Zenon
  <2> QED
      BY <1>2, <2>1, Zenon DEF Has
<1>3. stored' = stored => \A o \in Objects : Has(o) => Has(o)'
    BY Zenon DEF Has
<1> QED
    BY <1>0, <1>1, <1>2, <1>3, StoredStep, Zenon

\* When a sweep begins, or goes on.
LEMMA SweepTurn ==
    ASSUME TypeInv, [Next]_vars, sweep'.pc # "idle", sweep.pc = "idle"
    PROVE  /\ made' = made
           /\ \/ SweepDue
              \/ backend = "r2" /\ ~Has(Meta) /\ Present # {}
<1>1. SweepStart
  <2>1. NoSweep.pc = "idle"
      BY Zenon DEF NoSweep
  <2>2. ~(SweepOrphan \/ SweepList \/ SweepRemove \/ SweepFails \/ Restart)
      BY <2>1, Zenon DEF SweepOrphan, SweepList, SweepRemove, SweepFails, Restart
  <2>3. sweep' # sweep
      BY Zenon
  <2> QED
      BY <2>2, <2>3, ZenonT(40) DEF Next, vars, Handle, Arrive, Lock, LockDelete, Delete, Remove,
         Mkdir, Create, MkChunks, Created, ReadMeta, Count, Stat, Head, PutObject, GetObject,
         DeleteFails, Break, Use, Client, Send, Answer, TimeOut, Interrupt, Sweep, Tick
<1>2. made' = made
    BY <1>1, Zenon DEF SweepStart, histVars
<1>3. SweepDue \/ (backend = "r2" /\ ~Has(Meta) /\ Present # {})
  <2>1. ~NotSwept
      BY DEF NotSwept, NoSweep
  <2> QED
      BY <1>1, <2>1, Zenon DEF SweepStart
<1> QED
    BY <1>2, <1>3, Zenon

\* Every step keeps what RightInv says.
LEMMA NextRight == AskInv /\ MadeInv /\ DirInv /\ RightInv /\ [Next]_vars => RightInv'
<1> SUFFICES ASSUME AskInv, MadeInv, DirInv, RightInv, [Next]_vars PROVE RightInv'
    OBVIOUS
<1>0. TypeInv /\ Meta \in Objects /\ Meta # Dir
    BY ObjectNames, Zenon DEF AskInv
<1>1. /\ made \in Nat /\ made' \in Nat
      /\ made >= 1 => made' >= 1
      /\ made >= 1 /\ made' = 1 => made = 1 /\ made' = made
    BY <1>0, MetaMade
<1>2. Has(Meta) => made >= 1
    BY <1>0, Zenon DEF MadeInv
<1>3. ASSUME made >= 1, made' = 1
      PROVE  /\ now >= expires => now' >= expires'
             /\ GoneByRight => GoneByRight'
    BY <1>1, <1>3, GoneKept, Zenon
<1>4. ASSUME sweep'.pc # "idle"
      PROVE  made' >= 1 /\ (made' = 1 => GoneByRight')
  <2>1. made >= 1 /\ (made = 1 => GoneByRight)
    <3>1. CASE sweep.pc # "idle"
        BY <3>1, Zenon DEF RightInv
    <3>2. CASE SweepDue
        BY <1>2, <3>2, Zenon DEF SweepDue, Expired, GoneByRight
    <3>3. CASE backend = "r2" /\ ~Has(Meta) /\ Present # {}
      <4>1. PICK o \in Objects : Has(o)
          BY <3>3, Zenon DEF Present
      <4>2. o # Dir
          BY <3>3, <4>1, Zenon DEF DirInv
      <4> QED
          BY <3>3, <4>1, <4>2, Zenon DEF MadeInv, RightInv
    <3> QED
        BY <1>0, <1>4, <3>1, <3>2, <3>3, SweepTurn, Zenon
  <2> QED
      BY <1>1, <1>3, <2>1, Zenon
<1>5. ASSUME NEW x \in Slots, slot'[x].pc \in {"evict", "evictRemove"}
      PROVE  made' >= 1 /\ (made' = 1 => now' >= expires')
  <2>1. made >= 1 /\ (made = 1 => now >= expires)
    <3>1. CASE slot'[x] = slot[x]
        BY <1>5, <3>1, Zenon DEF RightInv
    <3>2. slot'[x] # NoRequest /\ slot'[x].pc # "arrive"
        BY <1>5, NoRequestIs, Zenon
    <3>3. CASE Turn(x, slot[x], slot'[x])
      <4>1. CASE slot'[x].pc = "evict"
        <5>1. Has(Meta) /\ slot[x].at >= expires
            BY <3>3, <4>1, Zenon DEF Turn, SessionFound, Expired
        <5>2. slot[x].at <= now /\ slot[x].at \in Nat /\ now \in Nat /\ expires \in Nat
            BY <1>0 DEF TypeInv, TypeOK, AboutOK, Request
        <5> QED
            BY <1>2, <5>1, <5>2
      <4>2. CASE slot'[x].pc = "evictRemove"
          BY <3>3, <4>2, Zenon DEF Turn, RightInv
      <4> QED
          BY <1>5, <4>1, <4>2, Zenon
    <3> QED
        BY <1>0, <3>1, <3>2, <3>3, SlotTurn, Zenon
  <2> QED
      BY <1>1, <1>3, <2>1, Zenon
<1>6. ASSUME made' = 1, ~GoneByRight' PROVE Has(Meta)'
  <2>1. CASE made' = made
    <3>1. ~GoneByRight /\ (Has(Meta) => Has(Meta)')
        BY <1>0, <1>6, <2>1, NothingGoes, Zenon
    <3> QED
        BY <1>6, <2>1, <3>1, Zenon DEF RightInv
  <2>2. ASSUME NEW s \in Slots, Writes(s, Meta) PROVE Has(Meta)'
      BY <1>0, <2>2, WritesIs, Zenon DEF Has
  <2> QED
      BY <1>0, <2>1, <2>2, MadeStep, Zenon
<1> QED
    BY <1>4, <1>5, <1>6, Zenon DEF RightInv, Has

\* Nothing is removed and nothing was made at the start.
LEMMA InitRight == Init => RightInv
<1> SUFFICES ASSUME Init PROVE RightInv
    OBVIOUS
<1>1. \A s \in Slots : slot[s].pc = "free"
    BY NoRequestIs, Zenon DEF Init
<1> QED
    BY <1>1 DEF Init, NoSweep, RightInv

\* Client k has an answer with this code before it.
ReplyOf(k, code) == k.slot # 0 /\ slot[k.slot].pc = "reply" /\ slot[k.slot].code = code

\* While it may not be gone: the chunks the collector is done with are there,
\* the manifest once it knows of it, and no reader is told otherwise.
KeptInv ==
    made = 1 /\ ~GoneByRight =>
      /\ \A j \in Indexes :
            \/ Collector.pc \in {"manifest", "ok"}
            \/ Collector.pc = "chunk" /\ j < Collector.i
            \/ /\ Collector.pc = "chunk" /\ j = Collector.i
               /\ ReplyOf(Collector, "ok") \/ ReplyOf(Collector, "exists")
            => Has(Chunk(j))
      /\ \/ Collector.pc = "ok"
         \/ Collector.pc = "manifest" /\ ReplyOf(Collector, "ok")
         => Has(Manifest)
      /\ ~ReplyOf(Reader, "notfound")
      /\ Reader.pc # "notfound"

\* Where the answer before a client comes from.
LEMMA ReplyTurn ==
    ASSUME AskInv, [Next]_vars, NEW c \in Clients,
           client'[c].slot # 0, slot'[client'[c].slot].pc = "reply"
    PROVE  LET x == client'[c].slot
           IN  /\ client'[c] = client[c] /\ x \in Slots /\ slot[x].pc # "free"
               /\ slot'[x].op = client[c].pc /\ slot'[x].i = client[c].i
               /\ slot[x].op = client[c].pc /\ slot[x].i = client[c].i
               /\ slot'[x] = slot[x] \/ Turn(x, slot[x], slot'[x])
<1> DEFINE x == client'[c].slot
<1>0. TypeInv /\ OwnInv /\ RoleInv /\ OwnInv' /\ TypeInv'
    BY NextOwn, NextType, Zenon DEF AskInv
<1>1. x \in Slots
  <2>1. x \in 0 .. MaxSlots
      BY <1>0, Zenon DEF TypeInv, TypeOK
  <2> QED
      BY <2>1, UploadAssumption DEF Slots
<1>2. slot'[x].op = client'[c].pc /\ slot'[x].i = client'[c].i
    BY <1>0, Zenon DEF OwnInv
<1>3. ~Send(c)
  <2> SUFFICES ASSUME Send(c) PROVE FALSE
      OBVIOUS
  <2>1. PICK s \in Slots, q \in Request :
           /\ slot' = [slot EXCEPT ![s] = q]
           /\ client' = [client EXCEPT ![c].slot = s] /\ q.pc = "arrive"
      BY <1>0, SendIs
  <2>2. client'[c].slot = s /\ slot'[s].pc = "arrive"
      BY <1>0, <2>1 DEF TypeInv, TypeOK
  <2> QED
      BY <2>2, Zenon
<1>4. ~GaveUp(c)
    BY Zenon DEF GaveUp
<1>5. ~Answer(c)
    BY <1>0, AnswerRole, Zenon
<1>6. ~Use(c)
    BY <1>0 DEF Use, Become, Waiting, TypeInv, TypeOK
<1>7. client'[c] = client[c]
    BY <1>0, <1>3, <1>4, <1>5, <1>6, ClientTurn, Zenon
<1>8. slot[x].pc # "free" /\ slot[x].op = client[c].pc /\ slot[x].i = client[c].i
    BY <1>0, <1>7, ZenonT(40) DEF OwnInv
<1>9. slot'[x] = slot[x] \/ Turn(x, slot[x], slot'[x])
  <2> HIDE DEF x
  <2>1. slot'[x].pc = "reply"
      BY Zenon DEF x
  <2>2. slot'[x] # NoRequest /\ slot'[x].pc # "arrive"
      BY <2>1, NoRequestIs, Zenon
  <2> QED
      BY <1>0, <1>1, <2>2, SlotTurn, Zenon
<1> QED
    BY <1>1, <1>2, <1>7, <1>8, <1>9, Zenon

\* A session that may not be gone is found, and its readers find all of it.
LEMMA ReaderFinds ==
    ASSUME AskInv, DirInv, RightInv, KeptInv, made = 1, ~GoneByRight, Collector.pc = "ok"
    PROVE  /\ SessionFound /\ Readable(Manifest)
           /\ \A j \in Indexes : Readable(Chunk(j))
<1>1. Has(Meta) /\ Has(Manifest) /\ \A j \in Indexes : Has(Chunk(j))
    BY Zenon DEF RightInv, KeptInv
<1>2. backend = "dir" => Has(ChunkDir)
  <2>1. 1 \in Indexes
      BY StoreAssumption DEF Indexes
  <2>2. Chunk(1) \in Chunks
      BY <2>1, Zenon DEF Chunks
  <2> QED
      BY <1>1, <2>1, <2>2, Zenon DEF DirInv
<1> QED
    BY <1>1, <1>2, Zenon DEF SessionFound, Readable

\* Every step keeps what KeptInv says.
LEMMA NextKept ==
    AskInv /\ MadeInv /\ DirInv /\ RightInv /\ KeptInv /\ [Next]_vars => KeptInv'
<1> SUFFICES ASSUME AskInv, MadeInv, DirInv, RightInv, KeptInv, [Next]_vars,
                    made' = 1, ~GoneByRight'
             PROVE  /\ \A j \in Indexes :
                          \/ Collector'.pc \in {"manifest", "ok"}
                          \/ Collector'.pc = "chunk" /\ j < Collector'.i
                          \/ /\ Collector'.pc = "chunk" /\ j = Collector'.i
                             /\ ReplyOf(Collector, "ok")' \/ ReplyOf(Collector, "exists")'
                          => Has(Chunk(j))'
                    /\ \/ Collector'.pc = "ok"
                       \/ Collector'.pc = "manifest" /\ ReplyOf(Collector, "ok")'
                       => Has(Manifest)'
                    /\ ~ReplyOf(Reader, "notfound")'
                    /\ Reader'.pc # "notfound"
    BY Zenon DEF KeptInv, Collector, Reader, Has
<1>0. TypeInv /\ OwnInv /\ RoleInv /\ OwnInv' /\ RoleInv'
    BY NextOwn, Zenon DEF AskInv
<1>1. CASE made = 0
  <2>1. PICK s \in Slots : Create(s)
      BY <1>0, <1>1, MadeStep, SMTT(30)
  <2>2. client' = client
      BY <2>1, Zenon DEF Create, clientVars
  <2>3. Collector.pc \notin {"chunk", "manifest", "ok"}
      BY <1>1 DEF MadeInv
  <2>4. Reader.pc = "off"
      BY <1>0, <2>3, Zenon DEF RoleInv
  <2>5. Reader.slot = 0
      BY <1>0, <2>4, ClientNames, Zenon DEF OwnInv, Ops, Reader
  <2> QED
      BY <2>2, <2>3, <2>4, <2>5, Zenon DEF Collector, Reader, ReplyOf
<1>2. CASE made = 1 /\ made' = made
  <2>0. /\ ~GoneByRight /\ Manifest \in Objects
        /\ \A o \in Objects : Has(o) => Has(o)'
        /\ \A j \in Indexes : Chunk(j) \in Objects
      BY <1>2, NothingGoes, ObjectNames, Zenon
  <2>1. /\ \A j \in Indexes :
              \/ Collector.pc \in {"manifest", "ok"}
              \/ Collector.pc = "chunk" /\ j < Collector.i
              \/ /\ Collector.pc = "chunk" /\ j = Collector.i
                 /\ ReplyOf(Collector, "ok") \/ ReplyOf(Collector, "exists")
              => Has(Chunk(j))'
        /\ \/ Collector.pc = "ok"
           \/ Collector.pc = "manifest" /\ ReplyOf(Collector, "ok")
           => Has(Manifest)'
        /\ ~ReplyOf(Reader, "notfound")
        /\ Reader.pc # "notfound"
      BY <1>2, <2>0, Zenon DEF KeptInv
  <2>2. ASSUME NEW j \in Indexes,
               Collector'.pc \in {"manifest", "ok"} \/ (Collector'.pc = "chunk" /\ j < Collector'.i)
        PROVE  Has(Chunk(j))'
    <3>1. CASE Collector'.pc = Collector.pc /\ Collector'.i = Collector.i
        BY <2>1, <2>2, <3>1, Zenon
    <3>2. CASE Answer("collector")
      <4>0. Collector.slot # 0 /\ slot[Collector.slot].pc = "reply"
          BY <3>2, CollectorAnswers, Zenon
      <4>1. Collector.pc = "manifest" => Has(Chunk(j))'
          BY <2>1, Zenon
      <4>2. ASSUME Collector.pc = "chunk", slot[Collector.slot].code \in {"ok", "exists"},
                   Collector.i < ChunkCount => j < Collector.i + 1
            PROVE  Has(Chunk(j))'
        <5>1. Collector.i \in Indexes
            BY <1>0, <4>2, ClientNames, Zenon DEF TypeInv, Collector
        <5>2. j < Collector.i \/ j = Collector.i
            BY <4>2, <5>1, StoreAssumption DEF Indexes
        <5>3. ReplyOf(Collector, "ok") \/ ReplyOf(Collector, "exists")
            BY <4>0, <4>2, Zenon DEF ReplyOf
        <5> QED
            BY <2>1, <4>2, <5>2, <5>3, Zenon
      <4>3. ~(j < 1)
          BY DEF Indexes
      <4> QED
          BY <2>2, <3>2, <4>1, <4>2, <4>3, CollectorAnswers, SMTT(30)
    <3> QED
        BY <2>2, <3>1, <3>2, CollectorTurn, Zenon
  <2>3. ASSUME NEW j \in Indexes, Collector'.pc = "chunk", j = Collector'.i,
               ReplyOf(Collector, "ok")' \/ ReplyOf(Collector, "exists")'
        PROVE  Has(Chunk(j))'
    <3> DEFINE x == Collector'.slot
    <3>1. x # 0 /\ slot'[x].pc = "reply" /\ slot'[x].code \in {"ok", "exists"}
        BY <2>3, SMTT(30) DEF ReplyOf, Collector
    <3>2. /\ Collector' = Collector /\ x \in Slots /\ slot[x].pc # "free"
          /\ slot'[x].op = "chunk" /\ slot[x].op = "chunk" /\ slot[x].i = j
          /\ slot'[x] = slot[x] \/ Turn(x, slot[x], slot'[x])
        BY <2>3, <3>1, ReplyTurn, ClientNames, SMTT(30) DEF Collector
    <3> HIDE DEF x
    <3>3. CASE slot'[x] = slot[x]
      <4>1. ReplyOf(Collector, "ok") \/ ReplyOf(Collector, "exists")
          BY <3>1, <3>2, <3>3, Zenon DEF ReplyOf, x
      <4> QED
          BY <2>1, <2>3, <3>2, <4>1, Zenon
    <3>4. CASE Turn(x, slot[x], slot'[x])
      <4>1. Target(slot[x]) = Chunk(j)
          BY <3>2, SMTT(30) DEF Target
      <4>2. Writes(x, Chunk(j)) \/ Has(Chunk(j))
          BY <3>1, <3>2, <3>4, <4>1, Zenon DEF Turn
      <4>3. Writes(x, Chunk(j)) => Has(Chunk(j))'
          BY <1>0, <2>0, <3>2, WritesIs, Zenon DEF Has
      <4> QED
          BY <2>0, <4>2, <4>3, Zenon
    <3> QED
        BY <3>2, <3>3, <3>4, Zenon
  <2>4. ASSUME \/ Collector'.pc = "ok"
               \/ Collector'.pc = "manifest" /\ ReplyOf(Collector, "ok")'
        PROVE  Has(Manifest)'
    <3>1. CASE Collector'.pc = "ok"
      <4>1. Answer("collector") => Collector.pc = "manifest" /\ ReplyOf(Collector, "ok")
          BY <3>1, CollectorAnswers, Zenon DEF ReplyOf
      <4> QED
          BY <2>1, <3>1, <4>1, CollectorTurn, SMTT(30)
    <3>2. CASE Collector'.pc = "manifest" /\ ReplyOf(Collector, "ok")'
      <4> DEFINE x == Collector'.slot
      <4>1. x # 0 /\ slot'[x].pc = "reply" /\ slot'[x].code = "ok"
          BY <3>2, SMTT(30) DEF ReplyOf, Collector
      <4>2. /\ Collector' = Collector /\ x \in Slots
            /\ slot'[x].op = "manifest" /\ slot[x].op = "manifest"
            /\ slot'[x] = slot[x] \/ Turn(x, slot[x], slot'[x])
          BY <3>2, <4>1, ReplyTurn, ClientNames, SMTT(30) DEF Collector
      <4> HIDE DEF x
      <4>3. CASE slot'[x] = slot[x]
        <5>1. ReplyOf(Collector, "ok")
            BY <4>1, <4>2, <4>3, Zenon DEF ReplyOf, x
        <5> QED
            BY <2>1, <3>2, <4>2, <5>1, Zenon
      <4>4. CASE Turn(x, slot[x], slot'[x])
        <5>1. Target(slot[x]) = Manifest
            BY <4>2, SMTT(30) DEF Target
        <5>2. Writes(x, Manifest)
            BY <4>1, <4>2, <4>4, <5>1, ZenonT(40) DEF Turn
        <5> QED
            BY <1>0, <2>0, <4>2, <5>2, WritesIs, Zenon DEF Has
      <4> QED
          BY <4>2, <4>3, <4>4, Zenon
    <3> QED
        BY <2>4, <3>1, <3>2, Zenon
  <2>5. ~ReplyOf(Reader, "notfound")'
    <3> SUFFICES ASSUME ReplyOf(Reader, "notfound")' PROVE FALSE
        OBVIOUS
    <3> DEFINE x == Reader'.slot
    <3>1. x # 0 /\ slot'[x].pc = "reply" /\ slot'[x].code = "notfound"
        BY SMTT(30) DEF ReplyOf, Reader
    <3>2. /\ Reader' = Reader /\ x \in Slots /\ slot[x].pc # "free"
          /\ slot'[x].op = Reader.pc /\ slot[x].op = Reader.pc
          /\ slot'[x] = slot[x] \/ Turn(x, slot[x], slot'[x])
        BY <3>1, ReplyTurn, ClientNames, Zenon DEF Reader
    <3>3. Reader.pc \in {"info", "getManifest", "getChunk"}
      <4>1. Reader.pc \in Ops
          BY <1>0, <3>1, <3>2, ClientNames, Zenon DEF OwnInv, Reader
      <4>2. Reader.pc \in Tasks("reader")
          BY <1>0, ClientNames, ZenonT(40) DEF RoleInv, Reader
      <4> QED
          BY <4>1, <4>2, SMTT(30) DEF Tasks, Ops
    <3> HIDE DEF x
    <3>4. slot'[x] # slot[x]
        BY <2>1, <3>1, <3>2, Zenon DEF ReplyOf, x
    <3>5. /\ SessionFound /\ Readable(Manifest)
          /\ \A j \in Indexes : Readable(Chunk(j))
      <4>1. Collector.pc = "ok"
          BY <1>0, <3>3, Zenon DEF RoleInv
      <4> QED
          BY <1>2, <2>0, <4>1, ReaderFinds, ZenonT(40)
    <3>6. slot[x].pc \notin {"evict", "evictRemove"}
        BY <1>2, <2>0, <3>2, Zenon DEF RightInv, GoneByRight
    <3>7. Readable(Target(slot[x]))
      <4>1. slot[x].op = "getChunk" => slot[x].i \in Indexes
          BY <1>0, <3>2, Zenon DEF TypeInv, AboutOK
      <4>2. slot[x].op # "chunk"
          BY <3>2, <3>3, Zenon
      <4> QED
          BY <3>5, <4>1, <4>2, Zenon DEF Target
    <3> QED
        BY <3>1, <3>2, <3>3, <3>4, <3>5, <3>6, <3>7, Zenon DEF Turn
  <2>6. Reader'.pc # "notfound"
    <3>1. Answer("reader") => Reader'.pc # "notfound"
      <4> SUFFICES ASSUME Answer("reader"), Reader'.pc = "notfound" PROVE FALSE
          OBVIOUS
      <4>1. \A p, i : Become("reader", p, i) => Reader'.pc = p
          BY <1>0, ClientNames DEF TypeInv, TypeOK, Become, Waiting, Reader
      <4>2. slot[Reader.slot].pc = "reply" /\ Reader.slot # 0
          BY Zenon DEF Answer, Reader
      <4>3. Loaded("reader", slot[Reader.slot].code)
          BY Zenon DEF Answer, Reader
      <4>4. slot[Reader.slot].code = "notfound"
          BY <4>1, <4>3, Zenon DEF Loaded
      <4> QED
          BY <2>1, <4>2, <4>4, Zenon DEF ReplyOf
    <3>2. Use("reader") => Reader'.pc # "notfound"
        BY <1>0, ClientNames DEF Use, Become, Waiting, Reader, TypeInv, TypeOK
    <3> QED
        BY <1>0, <2>1, <3>1, <3>2, ClientTurn, ClientNames, Zenon DEF Reader, GaveUp
  <2> QED
      BY <2>2, <2>3, <2>4, <2>5, <2>6, Zenon
<1>3. made = 0 \/ (made = 1 /\ made' = made)
    BY <1>0, MetaMade, MadeStep
<1> QED
    BY <1>1, <1>2, <1>3, Zenon

\* An upload that was reported as done stays on the relay, with its metadata,
\* its manifest and every chunk, until it has expired, was deleted with the
\* token, or the relay that kept it in memory was restarted; and no reader is
\* told that it is not there before. For any number of chunks, attempts, faults
\* and requests under way, and in every store.
THEOREM Kept == Spec => []SuccessKept
<1> DEFINE Inv == AskInv /\ MadeInv /\ DirInv /\ RightInv /\ KeptInv
<1>1. Init => Inv
  <2>1. Init => KeptInv
      BY DEF Init, KeptInv
  <2> QED
      BY <2>1, InitType, InitOwn, InitMade, InitRight, Zenon DEF AskInv
<1>2. Inv /\ [Next]_vars => Inv'
    BY NextType, NextOwn, NextMade, NextDir, NextRight, NextKept, Zenon DEF AskInv
<1>3. Inv => SuccessKept
  <2> SUFFICES ASSUME Inv, made = 1, ~GoneByRight
               PROVE  /\ client["collector"].pc = "ok" => Complete
                      /\ client["reader"].pc # "notfound"
      BY Zenon DEF SuccessKept
  <2>1. client["reader"].pc # "notfound"
      BY Zenon DEF KeptInv, Reader
  <2>2. ASSUME Collector.pc = "ok" PROVE Complete
    <3>1. Has(Meta) /\ Has(Manifest) /\ \A j \in Indexes : Has(Chunk(j))
        BY <2>2, ZenonT(40) DEF KeptInv, RightInv
    <3> QED
        BY <3>1, ObjectNames, Zenon DEF Complete, Present, Chunks
  <2> QED
      BY <2>1, <2>2, Zenon DEF Collector
<1> QED
    BY <1>1, <1>2, <1>3, PTL DEF Spec

-----------------------------------------------------------------------------
(* What a DELETE answered with 204 is worth.                               *)

\* A DELETE that is done, or about to be, has what it needs of the store; and
\* without a fault every request under way has its client.
EndInv ==
    /\ \A s \in Slots :
         /\ slot[s].pc = "reply" /\ slot[s].op = "delete" /\ slot[s].code = "ok" =>
              /\ made = 1 => ~Has(Meta)
              /\ faults = 0 => Present = {}
         /\ slot[s].pc = "deleteRemove" /\ backend = "r2" =>
              /\ made = 1 /\ Has(Meta) => Meta \in slot[s].listed
              /\ faults = 0 => Present \subseteq slot[s].listed
         /\ slot[s].pc # "free" /\ faults = 0 => Waited(s)
    /\ End.pc = "ended" =>
         /\ made = 1 => ~Has(Meta)
         /\ faults = 0 => Present = {}

\* Without a fault a client waits until its request is over.
LEMMA WaitKept ==
    ASSUME AskInv, EndInv, [Next]_vars, faults' = 0, NEW x \in Slots, slot'[x].pc # "free"
    PROVE  Waited(x)'
<1>0. TypeInv /\ OwnInv /\ client \in [Clients -> Asker]
    BY Zenon DEF AskInv, TypeInv, TypeOK, Asker
<1>1. faults = 0 /\ ~Fault
    BY <1>0, MuFaults DEF TypeInv, TypeOK, Fault
<1>2. CASE slot'[x] = slot[x]
  <2>1. PICK c \in Clients : client[c].slot = x
      BY <1>1, <1>2, Zenon DEF EndInv, Waited
  <2>2. x # 0 /\ client[c].pc \in Ops
      BY <1>0, <2>1 DEF Slots, OwnInv
  <2>3. client'[c].slot = x
    <3>1. CASE UNCHANGED clientVars
        BY <2>1, <3>1, Zenon DEF clientVars
    <3>2. ASSUME NEW ss \in SUBSET Slots, Fail(ss) PROVE client'[c].slot = x
      <4>1. x \notin ss
          BY <1>0, <3>2, FailIs, NoRequestIs, Zenon
      <4> QED
          BY <1>0, <2>1, <3>2, <4>1, FailIs, SMTT(30)
    <3>3. ASSUME NEW d \in Clients, Use(d) PROVE client'[c].slot = x
      <4>1. d # c
          BY <2>2, <3>3, Zenon DEF Use, Ops
      <4> QED
          BY <1>0, <2>1, <3>3, <4>1, Zenon DEF Use, Become
    <3>4. ASSUME NEW d \in Clients, Send(d) PROVE client'[c].slot = x
      <4>1. d # c
          BY <2>1, <2>2, <3>4, Zenon DEF Send
      <4>2. PICK s \in Slots : client' = [client EXCEPT ![d].slot = s]
          BY <3>4, Zenon DEF Send
      <4> QED
          BY <1>0, <2>1, <4>1, <4>2, Zenon
    <3>5. ASSUME NEW d \in Clients, Answer(d) PROVE client'[c].slot = x
      <4>1. d # c
        <5>1. slot'[client[d].slot] = NoRequest
            BY <1>0, <3>5, AnswerIs DEF TypeInv, TypeOK
        <5> QED
            BY <2>1, <5>1, NoRequestIs, Zenon
      <4> QED
          BY <1>0, <2>1, <3>5, <4>1, AnswerRole, Zenon DEF AskInv
    <3>6. ASSUME NEW d \in Clients, TimeOut(d) \/ Interrupt(d) PROVE FALSE
      <4>1. Hit(d)
          BY <3>6, Zenon DEF TimeOut, Interrupt
      <4>2. faults \in Nat /\ ~(faults > 0)
          BY <1>1
      <4> QED
          BY <1>1, <4>1, <4>2, Zenon DEF Hit
    <3> QED
        BY <1>0, <3>1, <3>2, <3>3, <3>4, <3>5, <3>6, AskStep, Zenon
  <2> QED
      BY <2>3, Zenon DEF Waited
<1>3. slot'[x] # NoRequest
    BY NoRequestIs, Zenon
<1>4. ASSUME slot[x].pc # "free", UNCHANGED clientVars PROVE Waited(x)'
  <2>1. Waited(x)
      BY <1>1, <1>4, Zenon DEF EndInv
  <2> QED
      BY <1>4, <2>1, Zenon DEF Waited, clientVars
<1>5. (\E c \in Clients : client'[c].slot = x) => Waited(x)'
    BY Zenon DEF Waited
<1>6. CASE slot[x].pc \notin {"free", "reply"} /\ UNCHANGED <<clientVars, unsure>>
    BY <1>4, <1>6, Zenon
<1> QED
    BY <1>0, <1>2, <1>3, <1>5, <1>6, SlotTurn, SMTT(30)

\* Once the token was used to delete, nothing is created again that counts, and
\* without a fault nothing is written at all.
LEMMA Quiet ==
    ASSUME AskInv, MadeInv, EndInv, [Next]_vars, End.pc # "off"
    PROVE  /\ made' = 1 => made = 1 /\ (Has(Meta)' => Has(Meta))
           /\ faults' = 0 => faults = 0 /\ Present' \subseteq Present
<1>0. TypeInv /\ OwnInv /\ RoleInv /\ Meta \in Objects /\ stored \in [Objects -> 0 .. MaxTime]
    BY ObjectNames, SMTT(30) DEF AskInv, TypeInv, TypeOK
<1>1. Collector.pc = "ok" /\ made >= 1
    BY <1>0, Zenon DEF RoleInv, MadeInv
<1>2. ASSUME made' = 1 PROVE made = 1 /\ (Has(Meta)' => Has(Meta))
  <2>1. made = 1 /\ made' # made + 1
      BY <1>0, <1>1, <1>2, MetaMade
  <2>2. \A s \in Slots : ~Writes(s, Meta)
      BY <1>0, <2>1, MetaMade, Zenon
  <2> QED
      BY <1>0, <2>1, <2>2, NewObject, Zenon
<1>3. ASSUME faults' = 0 PROVE faults = 0 /\ Present' \subseteq Present
  <2>1. faults = 0
      BY <1>0, <1>3, MuFaults DEF TypeInv, TypeOK
  <2>2. ASSUME NEW s \in Slots, NEW o \in Objects, Writes(s, o) PROVE FALSE
    <3>1. slot[s].pc # "free" /\ slot[s].op \in {"create", "chunk", "manifest"}
      <4>1. slot[s].pc \in {"mkdir", "create", "mkchunks", "put"}
          BY <2>2, Zenon DEF Writes, Mkdir, Create, MkChunks, PutObject
      <4> QED
          BY <1>0, <4>1, Zenon DEF TypeInv, LabelOK
    <3>2. PICK c \in Clients : client[c].slot = s
        BY <2>1, <3>1, ZenonT(40) DEF EndInv, Waited
    <3>3. client[c].pc = slot[s].op
      <4>1. s # 0
          BY DEF Slots
      <4> QED
          BY <1>0, <3>2, <4>1, Zenon DEF OwnInv
    <3>4. c = "collector"
        BY <1>0, <3>1, <3>3, SMTT(30) DEF RoleInv, Clients, Tasks
    <3> QED
        BY <1>1, <3>1, <3>3, <3>4, SMTT(30) DEF Collector
  <2>3. ASSUME NEW o \in Objects, Has(o)' PROVE Has(o)
      BY <1>0, <2>2, <2>3, NewObject, Zenon
  <2> QED
      BY <2>1, <2>3, Zenon DEF Present, Has
<1> QED
    BY <1>2, <1>3, Zenon

\* Every step keeps what EndInv says.
LEMMA NextEnd == AskInv /\ MadeInv /\ DirInv /\ EndInv /\ [Next]_vars => EndInv'
<1> SUFFICES ASSUME AskInv, MadeInv, DirInv, EndInv, [Next]_vars PROVE EndInv'
    OBVIOUS
<1>0. /\ TypeInv /\ OwnInv /\ RoleInv /\ Meta \in Objects /\ backend' = backend
      /\ stored \in [Objects -> 0 .. MaxTime]
    BY ObjectNames, StoreType, Zenon DEF AskInv, TypeInv, TypeOK
<1>1. \A s \in Slots : slot[s].pc # "free" /\ slot[s].op = "delete" => End.pc # "off"
    BY Zenon DEF MadeInv
<1>2. ASSUME End.pc # "off", (made = 1 => ~Has(Meta)) /\ (faults = 0 => Present = {})
      PROVE  (made' = 1 => ~Has(Meta)') /\ (faults' = 0 => Present' = {})
    BY <1>2, Quiet, SMTT(30)
<1>3. ASSUME NEW x \in Slots,
             slot'[x].pc = "reply", slot'[x].op = "delete", slot'[x].code = "ok"
      PROVE  (made' = 1 => ~Has(Meta)') /\ (faults' = 0 => Present' = {})
  <2>1. CASE slot'[x] = slot[x]
    <3>1. End.pc # "off" /\ (made = 1 => ~Has(Meta)) /\ (faults = 0 => Present = {})
        BY <1>1, <1>3, <2>1, Zenon DEF EndInv
    <3> QED
        BY <1>2, <3>1, ZenonT(40)
  <2>2. slot'[x] # NoRequest /\ slot'[x].pc # "arrive"
      BY <1>3, NoRequestIs, Zenon
  <2>3. CASE /\ slot'[x].op = slot[x].op /\ slot[x].pc \notin {"free", "reply"}
             /\ Turn(x, slot[x], slot'[x])
    <3>1. End.pc # "off"
        BY <1>1, <1>3, <2>3, Zenon
    <3>2. Present' = {} => ~Has(Meta)'
        BY <1>0, Zenon DEF Present, Has
    <3>3. ASSUME NEW gone, Drop(gone) PROVE \A o \in Objects : Has(o)' <=> Has(o) /\ o \notin gone
        BY <1>0, <3>3, Zenon DEF Drop, Has
    <3>4. CASE Drop(Objects)
      <4>1. Present' = {}
          BY <3>3, <3>4, Zenon DEF Present, Has
      <4> QED
          BY <3>2, <4>1, Zenon
    <3>5. ASSUME slot[x].pc = "deleteRemove", NEW gone \in Removals(slot[x].listed), Drop(gone),
                 RemoveEnds(gone)
          PROVE  (made' = 1 => ~Has(Meta)') /\ (faults' = 0 => Present' = {})
      <4>1. CASE backend = "r2"
        <5>1. gone = slot[x].listed
            BY <3>5, <4>1, Zenon DEF Removals
        <5>2. /\ made = 1 /\ Has(Meta) => Meta \in gone
              /\ faults = 0 => Present \subseteq gone
            BY <3>5, <4>1, <5>1, Zenon DEF EndInv
        <5>3. made' = 1 => ~Has(Meta)'
            BY <1>0, <3>1, <3>3, <3>5, <5>2, Quiet, Zenon
        <5>4. faults' = 0 => Present' = {}
          <6>1. faults' = 0 => faults = 0
              BY <3>1, Quiet, Zenon
          <6> QED
              BY <3>3, <3>5, <5>2, <6>1, Zenon DEF Present, Has
        <5> QED
            BY <5>3, <5>4, Zenon
      <4>2. CASE backend = "dir"
        <5>1. Present' = {}
          <6>1. CASE ~Has(Dir)
            <7>1. \A o \in Objects : ~Has(o)
                BY <4>2, <6>1, Zenon DEF DirInv
            <7> QED
                BY <3>3, <3>5, <7>1, Zenon DEF Present, Has
          <6>2. CASE Has(Dir)
            <7>1. gone \in Unlinks /\ gone \in {{}, {Dir}}
                BY <3>5, <4>2, <6>2, Zenon DEF Removals, RemoveEnds
            <7>2. Present = {Dir} /\ gone = {Dir}
                BY <7>1, ObjectNames, SMTT(30) DEF Unlinks
            <7> QED
                BY <3>3, <3>5, <7>2, Zenon DEF Present, Has
          <6> QED
              BY <6>1, <6>2, Zenon
        <5> QED
            BY <3>2, <5>1, Zenon
      <4>3. backend \in {"r2", "dir"}
          BY <1>0, <3>5, StoreAssumption, Zenon DEF TypeInv, TypeOK, LabelOK
      <4> QED
          BY <4>1, <4>2, <4>3, Zenon
    <3>6. \/ Drop(Objects)
          \/ /\ slot[x].pc = "deleteRemove"
             /\ \E gone \in Removals(slot[x].listed) : Drop(gone) /\ RemoveEnds(gone)
        BY <1>3, <2>3, Zenon DEF Turn
    <3> QED
        BY <3>4, <3>5, <3>6, ZenonT(40)
  <2> QED
      BY <1>0, <2>1, <2>2, <2>3, SlotTurn, Zenon
<1>4. ASSUME NEW x \in Slots, slot'[x].pc = "deleteRemove", backend = "r2"
      PROVE  /\ made' = 1 /\ Has(Meta)' => Meta \in slot'[x].listed
             /\ faults' = 0 => Present' \subseteq slot'[x].listed
  <2>1. CASE slot'[x] = slot[x]
    <3>1. End.pc # "off"
      <4>1. slot[x].op = "delete" /\ slot[x].pc # "free"
          BY <1>0, <1>4, <2>1, Zenon DEF TypeInv, LabelOK
      <4> QED
          BY <1>1, <4>1, Zenon
    <3>2. /\ made = 1 /\ Has(Meta) => Meta \in slot[x].listed
          /\ faults = 0 => Present \subseteq slot[x].listed
        BY <1>4, <2>1, Zenon DEF EndInv
    <3> QED
        BY <2>1, <3>1, <3>2, Quiet, Zenon
  <2>2. slot'[x] # NoRequest /\ slot'[x].pc # "arrive"
      BY <1>4, NoRequestIs, Zenon
  <2>3. CASE stored' = stored /\ slot'[x].listed = Present
      BY <1>0, <2>3, Zenon DEF Present, Has
  <2>4. Turn(x, slot[x], slot'[x]) =>
           slot'[x] = slot[x] \/ (stored' = stored /\ slot'[x].listed = Present)
      BY <1>4, Zenon DEF Turn
  <2> QED
      BY <1>0, <2>1, <2>2, <2>3, <2>4, SlotTurn, Zenon
<1>5. \A x \in Slots : slot'[x].pc # "free" /\ faults' = 0 => Waited(x)'
    BY WaitKept, ZenonT(40)
<1>6. ASSUME End'.pc = "ended"
      PROVE  (made' = 1 => ~Has(Meta)') /\ (faults' = 0 => Present' = {})
  <2>1. CASE End.pc = "ended"
    <3>1. End.pc # "off" /\ (made = 1 => ~Has(Meta)) /\ (faults = 0 => Present = {})
        BY <2>1, Zenon DEF EndInv
    <3> QED
        BY <1>2, <3>1, ZenonT(40)
  <2>2. CASE Answer("end")
    <3> DEFINE x == End.slot
    <3>0. \A p, i : Become("end", p, i) => End'.pc = p
        BY <1>0, ClientNames DEF TypeInv, TypeOK, Become, Waiting, End
    <3>1. x # 0 /\ slot[x].pc = "reply"
        BY <2>2, Zenon DEF Answer, End
    <3>2. slot[x].code = "ok"
      <4>1. Become("end", IF slot[x].code = "ok" THEN "ended" ELSE "notfound", 0)
          BY <2>2, Zenon DEF Answer, End
      <4> QED
          BY <1>6, <3>0, <4>1, Zenon
    <3>3. x \in Slots /\ slot[x].op = End.pc
        BY <1>0, <3>1, SlotOf, ClientNames, Zenon DEF OwnInv, End
    <3>4. End.pc = "delete"
      <4>1. End.pc \in Ops /\ End.pc \in Tasks("end")
          BY <1>0, <2>2, AnswerRole, ClientNames, Zenon DEF RoleInv, End
      <4> QED
          BY <4>1, Zenon DEF Ops, Tasks
    <3>5. End.pc # "off" /\ (made = 1 => ~Has(Meta)) /\ (faults = 0 => Present = {})
        BY <3>1, <3>2, <3>3, <3>4, Zenon DEF EndInv
    <3> QED
        BY <1>2, <3>5, Zenon
  <2>3. CASE Use("end")
    <3>1. End'.pc = "delete"
        BY <1>0, <2>3, ClientNames, Zenon DEF Use, Become, Waiting, TypeInv, TypeOK, End
    <3> QED
        BY <1>6, <3>1, SMTT(30)
  <2>4. ~GaveUp("end") \/ End.pc = "ended"
      BY <1>6, Zenon DEF GaveUp, End
  <2> QED
      BY <1>0, <1>6, <2>1, <2>2, <2>3, <2>4, ClientTurn, ClientNames, Zenon DEF End
<1> QED
    BY <1>0, <1>3, <1>4, <1>5, <1>6, Zenon DEF EndInv, End, Has, Present, Waited

\* Once "aken-mcp end" has its 204 (DeleteSession of the store is back), the
\* session is not found again under its ID, although requests from before may
\* still write below it, and without a fault nothing at all of it is left. For
\* any number of chunks, attempts, faults and requests, and in every store.
THEOREM EndsForGood == Spec => []EndIsFinal
<1> DEFINE Inv == AskInv /\ MadeInv /\ DirInv /\ EndInv
<1>1. Init => Inv
  <2>1. Init => EndInv
    <3> SUFFICES ASSUME Init PROVE EndInv
        OBVIOUS
    <3>1. \A s \in Slots : slot[s].pc = "free"
        BY NoRequestIs, Zenon DEF Init
    <3>2. End.pc = "off"
        BY Zenon DEF Init, Waiting, Clients, End
    <3> QED
        BY <3>1, <3>2, SMTT(30) DEF EndInv
  <2> QED
      BY <2>1, InitType, InitOwn, InitMade, Zenon DEF AskInv
<1>2. Inv /\ [Next]_vars => Inv'
    BY NextType, NextOwn, NextMade, NextDir, NextEnd, Zenon DEF AskInv
<1>3. Inv => EndIsFinal
    BY Zenon DEF EndInv, EndIsFinal, End
<1> QED
    BY <1>1, <1>2, <1>3, PTL DEF Spec
=============================================================================
