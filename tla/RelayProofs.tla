---------------------------- MODULE RelayProofs -----------------------------
(***************************************************************************)
(* What Relay promises for every number of requests, sessions, messages and *)
(* restarts: its types, one live session of the ID at a time, what is      *)
(* accepted, acknowledged and delivered, waiting polls, joins and the      *)
(* stored metadata, and what a step may do to a session: every direction   *)
(* implements Channel, and a dropped session stays dropped. The proofs are *)
(* built in layers, each inductive given the ones before it.               *)
(***************************************************************************)
EXTENDS Relay, SequenceTheorems, TLAPS

\* Where a request holds a pointer to a registered, or once registered,
\* liveSession.
Holding ==
    {"delete", "joinCheck", "join", "postCheck", "post", "poll", "wait",
     "pollExpired"}

\* A request reaches a step only with what the step reads.
SlotOK ==
    \A r \in Reqs :
        /\ pc[r] \in Holding \cup {"register"} => req[r].obj \in Objs
        /\ pc[r] \in {"joinCheck", "join"} => req[r].op = "join"
        /\ pc[r] \in {"postCheck", "post"} => req[r].op = "post"
        /\ req[r].op = "join" => req[r].who \in Joiners
        /\ req[r].op = "post" => req[r].kind \in Kinds /\ req[r].env \in Envs

TypeInv == TypeOK /\ SlotOK

\* Updating one entry of a table indexed by session and direction.
LEMMA Except2 ==
    ASSUME NEW S, NEW T, NEW V, NEW f \in [S -> [T -> V]],
           NEW a \in S, NEW b \in T, NEW v \in V
    PROVE  /\ [f EXCEPT ![a][b] = v] \in [S -> [T -> V]]
           /\ \A x \in S, y \in T :
                 [f EXCEPT ![a][b] = v][x][y] = IF x = a /\ y = b THEN v
                                                ELSE f[x][y]
OBVIOUS

-----------------------------------------------------------------------------
\* The handler starts with free slots, which hold nothing.
LEMMA InitType == Init => TypeInv
<1> SUFFICES ASSUME Init PROVE TypeInv
    OBVIOUS
<1> USE RelayAssumption DEF Init
<1>1. NoRequest \in Request
    BY DEF NoRequest, Request, Ops
<1>2. store \in [expires : Nat, boot : Nat]
    BY Zenon DEF NoMeta
<1>3. \A o \in Objs, k \in Kinds : Len(queue[o][k]) <= MaxQueue
    BY DEF EmptyQueues
<1>4. TypeOK
    BY <1>1, <1>2, <1>3 DEF TypeOK, EmptyQueues, Labels
<1>5. SlotOK
    BY Zenon DEF SlotOK, Holding, NoRequest
<1> QED
    BY <1>4, <1>5, Zenon DEF TypeInv

\* Clearing and dropping a live session keep its fields in their types.
LEMMA DropType ==
    ASSUME NEW o, TypeInv, DropLocked(o)
    PROVE  /\ gone' \in [Objs -> BOOLEAN]
           /\ queue' \in [Objs -> [Kinds -> Seq(Envs)]]
           /\ \A x \in Objs, k \in Kinds : Len(queue'[x][k]) <= MaxQueue
           /\ last' \in [Objs -> [Kinds -> Envs \cup {NoEnv}]]
           /\ woken' \in SUBSET Reqs
           /\ UNCHANGED <<joined, next>>
<1> USE RelayAssumption DEF TypeInv, TypeOK, DropLocked, ClearLive, Notify, Waiters
<1>1. gone' \in [Objs -> BOOLEAN]
    OBVIOUS
<1>2. queue' \in [Objs -> [Kinds -> Seq(Envs)]]
    BY DEF EmptyQueues
<1>3. \A x \in Objs, k \in Kinds : Len(queue'[x][k]) <= MaxQueue
    BY DEF EmptyQueues
<1>4. last' \in [Objs -> [Kinds -> Envs \cup {NoEnv}]]
    OBVIOUS
<1>5. woken' \in SUBSET Reqs
    OBVIOUS
<1> QED
    BY <1>1, <1>2, <1>3, <1>4, <1>5, Zenon

\* What a slot step leaves in the slots, in one of its three forms.
LEMMA SlotType ==
    ASSUME TypeInv, NEW r \in Reqs, NEW label \in Labels,
           \/ Done(r)
           \/ Goto(r, label)
    PROVE  pc' \in [Reqs -> Labels] /\ req' \in [Reqs -> Request]
<1>1. NoRequest \in Request
    BY RelayAssumption DEF NoRequest, Request, Ops
<1> QED
    BY <1>1, ZenonT(40) DEF TypeInv, TypeOK, Done, Goto, Labels

\* A request that is done holds nothing that a step reads.
LEMMA DoneSlot ==
    ASSUME TypeInv, NEW r \in Reqs, Done(r)
    PROVE  SlotOK'
BY Zenon DEF TypeInv, TypeOK, SlotOK, Done, NoRequest, Holding

\* A request that moves on needs what its next step reads, and no other
\* request is touched.
LEMMA GotoSlot ==
    ASSUME TypeInv, NEW r \in Reqs, NEW label \in Labels, Goto(r, label),
           label \in Holding \cup {"register"} => req[r].obj \in Objs,
           label \in {"joinCheck", "join"} => req[r].op = "join",
           label \in {"postCheck", "post"} => req[r].op = "post"
    PROVE  SlotOK'
BY Zenon DEF TypeInv, TypeOK, SlotOK, Goto

\* Deleting a session keeps every type; the slot of the request that deletes
\* it is the caller's.
LEMMA DeleteType ==
    ASSUME TypeInv, DeleteAndDrop, evictor' \in Reqs \cup {Nil},
           sweepAt' \in Nat,
           pc' \in [Reqs -> Labels], req' \in [Reqs -> Request]
    PROVE  TypeOK'
<1>1. DropLocked(registry)
    BY Zenon DEF DeleteAndDrop
<1>2. /\ gone' \in [Objs -> BOOLEAN]
      /\ queue' \in [Objs -> [Kinds -> Seq(Envs)]]
      /\ \A x \in Objs, k \in Kinds : Len(queue'[x][k]) <= MaxQueue
      /\ last' \in [Objs -> [Kinds -> Envs \cup {NoEnv}]]
      /\ woken' \in SUBSET Reqs
      /\ UNCHANGED <<joined, next>>
    BY <1>1, DropType, Zenon
<1>3. /\ store' \in [expires : Nat, boot : Nat]
      /\ registry' \in 0 .. MaxObjs
    BY RelayAssumption DEF DeleteAndDrop, NoMeta
<1> QED
    BY <1>2, <1>3, Zenon DEF TypeInv, TypeOK, DeleteAndDrop, histVars

\* Every step keeps the types, and gives a request what its next step reads.
LEMMA StepType == TypeInv /\ [Next]_vars => TypeInv'
<1> SUFFICES ASSUME TypeInv, [Next]_vars PROVE TypeInv'
    OBVIOUS
<1> USE RelayAssumption
<1> DEFINE Rest == UNCHANGED <<relayVars, liveVars, histVars>>
\* Steps that only move slots.
<1>0. ASSUME Rest, pc' \in [Reqs -> Labels], req' \in [Reqs -> Request],
             woken' \in SUBSET Reqs
      PROVE  TypeOK'
    BY <1>0, Zenon DEF TypeInv, TypeOK, relayVars, liveVars, histVars
<1>1. ASSUME NEW r \in Reqs, Arrive(r) PROVE TypeInv'
  <2>1. PICK q \in Requests(r) :
           LET label == IF store # NoMeta /\ store.expires <= now
                          THEN "reread"
                          ELSE Routed(q.op, store # NoMeta)
           IN  /\ pc' = [pc EXCEPT ![r] = label]
               /\ req' = [req EXCEPT ![r] = q]
      BY <1>1, Zenon DEF Arrive
  <2>2. q \in Request
    <3>1. Role[r] \subseteq Ops /\ now \in Nat
        BY Zenon DEF TypeInv, TypeOK
    <3>2. q \in [op : Role[r], kind : Kinds \cup {"join"},
                 env : Envs \cup {NoEnv}, who : Joiners \cup {Nil},
                 wait : BOOLEAN, now : {now}, obj : {0}, timedOut : {FALSE}]
        BY Zenon DEF Requests
    <3>3. 0 \in 0 .. MaxObjs
        OBVIOUS
    <3> QED
        BY <3>1, <3>2, <3>3, Zenon DEF Request
  <2>3. pc'[r] \in {"reread", "create", "get", "idle"} /\ pc' \in [Reqs -> Labels]
      BY <2>1, Zenon DEF TypeInv, TypeOK, Routed, Labels
  <2>4. req' \in [Reqs -> Request]
      BY <2>1, <2>2, Zenon DEF TypeInv, TypeOK
  <2>5. TypeOK'
      BY <1>1, <1>0, <2>3, <2>4, Zenon DEF Arrive, TypeInv, TypeOK
  <2>6. /\ q.op = "post" => q.kind \in Kinds /\ q.env \in Envs
        /\ q.op = "join" => q.who \in Joiners
      BY Zenon DEF Requests
  <2>7. SlotOK'
      BY <2>1, <2>3, <2>6 DEF TypeInv, TypeOK, SlotOK, Holding
  <2> QED
      BY <2>5, <2>7, Zenon DEF TypeInv
<1>2. ASSUME NEW r \in Reqs, Reread(r) PROVE TypeInv'
  <2>1. \E label \in {"evict", "create", "get"} : Done(r) \/ Goto(r, label)
      BY <1>2, Zenon DEF Reread, Routed
  <2>2. pc' \in [Reqs -> Labels] /\ req' \in [Reqs -> Request]
      BY <2>1, SlotType, Zenon DEF Labels
  <2>3. SlotOK'
      BY <2>1, DoneSlot, GotoSlot, Zenon DEF Labels, Holding
  <2>4. evictor' \in Reqs \cup {Nil}
      BY <1>2, Zenon DEF Reread, TypeInv, TypeOK
  <2>5. TypeOK'
      BY <1>2, <2>2, <2>4, Zenon DEF Reread, TypeInv, TypeOK, liveVars, histVars
  <2> QED
      BY <2>3, <2>5, Zenon DEF TypeInv
<1>3. ASSUME NEW r \in Reqs, Evict(r) PROVE TypeInv'
  <2>1. Done(r) \/ Goto(r, "create")
      BY <1>3, Zenon DEF Evict
  <2>2. pc' \in [Reqs -> Labels] /\ req' \in [Reqs -> Request]
      BY <2>1, SlotType, Zenon DEF Labels
  <2>3. SlotOK'
      BY <2>1, DoneSlot, GotoSlot, Zenon DEF Labels, Holding
  <2>4. TypeOK'
      BY <1>3, <2>2, DeleteType, Zenon DEF Evict, TypeInv, TypeOK
  <2> QED
      BY <2>3, <2>4 DEF TypeInv
<1>4. ASSUME NEW r \in Reqs, Get(r) PROVE TypeInv'
  <2>1. CASE registry = 0
    <3>1. Done(r)
        BY <1>4, <2>1, Zenon DEF Get
    <3> QED
        BY <1>4, <3>1, <1>0, SlotType, DoneSlot, Zenon DEF Get, Labels, TypeInv, TypeOK
  <2>2. CASE registry # 0
    <3>1. /\ pc' = [pc EXCEPT ![r] = CASE req[r].op = "join" -> "joinCheck"
                                       [] req[r].op = "post" -> "postCheck"
                                       [] OTHER -> req[r].op]
          /\ req' = [req EXCEPT ![r].obj = registry, ![r].now = 0]
        BY <1>4, <2>2, Zenon DEF Get
    <3>2. req[r] \in Request /\ registry \in 0 .. MaxObjs /\ registry \in Objs
        BY <2>2 DEF TypeInv, TypeOK, Objs
    <3>3. req' = [req EXCEPT ![r] = [req[r] EXCEPT !.obj = registry, !.now = 0]]
        BY <3>1, Zenon
    <3>4. [req[r] EXCEPT !.obj = registry, !.now = 0] \in Request
        BY <3>2, Zenon DEF Request
    <3>5. req' \in [Reqs -> Request]
        BY <3>3, <3>4, Zenon DEF TypeInv, TypeOK
    <3> DEFINE label == CASE req[r].op = "join" -> "joinCheck"
                          [] req[r].op = "post" -> "postCheck"
                          [] OTHER -> req[r].op
    <3>6. req[r].op \in Ops
        BY <3>2, Zenon DEF Request
    <3>7. /\ label \in Labels
          /\ label \in {"joinCheck", "join"} => req[r].op = "join"
          /\ label \in {"postCheck", "post"} => req[r].op = "post"
      <4>1. CASE req[r].op = "join"
          BY <4>1, Zenon DEF Labels
      <4>2. CASE req[r].op = "post"
          BY <4>2, Zenon DEF Labels
      <4>3. CASE req[r].op \notin {"join", "post"}
          BY <3>6, <4>3, Zenon DEF Labels, Ops
      <4> QED
          BY <4>1, <4>2, <4>3, Zenon
    <3> HIDE DEF label
    <3>8. pc' = [pc EXCEPT ![r] = label] /\ pc' \in [Reqs -> Labels]
        BY <3>1, <3>7, Zenon DEF TypeInv, TypeOK, label
    <3>9. TypeOK'
        BY <1>4, <1>0, <3>5, <3>8, Zenon DEF Get, TypeInv, TypeOK
    <3>10. SlotOK'
      <4>1. ASSUME NEW q \in Reqs, q # r PROVE req'[q] = req[q] /\ pc'[q] = pc[q]
          BY <3>3, <3>8, <4>1, Zenon DEF TypeInv, TypeOK
      <4>2. pc'[r] = label /\ req'[r] = [req[r] EXCEPT !.obj = registry, !.now = 0]
          BY <3>3, <3>8, Zenon DEF TypeInv, TypeOK
      <4>3. /\ req'[r].obj = registry
            /\ req'[r].op = req[r].op
            /\ req'[r].who = req[r].who
            /\ req'[r].kind = req[r].kind
            /\ req'[r].env = req[r].env
          BY <3>2, <4>2, Zenon DEF Request
      <4> DEFINE Ok(q) ==
            /\ pc[q] \in Holding \cup {"register"} => req[q].obj \in Objs
            /\ pc[q] \in {"joinCheck", "join"} => req[q].op = "join"
            /\ pc[q] \in {"postCheck", "post"} => req[q].op = "post"
            /\ req[q].op = "join" => req[q].who \in Joiners
            /\ req[q].op = "post" => req[q].kind \in Kinds /\ req[q].env \in Envs
      <4>4. \A q \in Reqs : Ok(q)
          BY Zenon DEF TypeInv, SlotOK
      <4>5. ASSUME NEW q \in Reqs, q # r PROVE Ok(q)'
          BY <4>1, <4>4, <4>5, Zenon
      <4>6. Ok(r)'
          BY <3>2, <3>7, <4>2, <4>3, <4>4, SMTT(30)
      <4> QED
          BY <4>5, <4>6, Zenon DEF SlotOK
    <3> QED
        BY <3>9, <3>10, Zenon DEF TypeInv
  <2> QED
      BY <2>1, <2>2, Zenon
<1>5. ASSUME NEW r \in Reqs, Delete(r) PROVE TypeInv'
  <2>1. Done(r) /\ UNCHANGED <<evictor, sweepAt>>
      BY <1>5, Zenon DEF Delete
  <2>2. pc' \in [Reqs -> Labels] /\ req' \in [Reqs -> Request] /\ SlotOK'
      BY <2>1, SlotType, DoneSlot, Zenon DEF Labels
  <2>3. CASE store # NoMeta
      BY <1>5, <2>1, <2>2, <2>3, DeleteType, Zenon DEF Delete, TypeInv, TypeOK
  <2>4. CASE store = NoMeta
      BY <1>0, <1>5, <2>1, <2>2, <2>4, Zenon
      DEF Delete, TypeInv, TypeOK, relayVars
  <2> QED
      BY <2>3, <2>4, Zenon
<1>6. ASSUME NEW r \in Reqs, CreateSession(r) PROVE TypeInv'
  <2>1. CASE store # NoMeta
    <3>1. Done(r)
        BY <1>6, <2>1, Zenon DEF CreateSession
    <3> QED
        BY <1>6, <2>1, <3>1, <1>0, SlotType, DoneSlot, Zenon
        DEF CreateSession, Labels, TypeInv, TypeOK, relayVars
  <2>2. CASE store = NoMeta
    <3>1. /\ nobj < MaxObjs
          /\ nobj' = nobj + 1
          /\ store' = [expires |-> req[r].now + TTL, boot |-> boot]
          /\ pc' = [pc EXCEPT ![r] = "register"]
          /\ req' = [req EXCEPT ![r] = [req[r] EXCEPT !.obj = nobj + 1]]
          /\ UNCHANGED <<now, boot, registry, evictor, sweepAt, liveVars, woken,
                         histVars>>
        BY <1>6, <2>2, Zenon DEF CreateSession
    <3>2. req[r] \in Request
        BY Zenon DEF TypeInv, TypeOK
    <3>3. nobj + 1 \in Objs /\ nobj + 1 \in 0 .. MaxObjs
        BY <3>1 DEF TypeInv, TypeOK, Objs
    <3>4. [req[r] EXCEPT !.obj = nobj + 1] \in Request
        BY <3>2, <3>3, Zenon DEF Request
    <3>5. store' \in [expires : Nat, boot : Nat]
      <4>1. req[r].now + TTL \in Nat /\ boot \in Nat
          BY <3>2 DEF Request, TypeInv, TypeOK
      <4> QED
          BY <3>1, <4>1, Zenon
    <3>6. pc' \in [Reqs -> Labels] /\ req' \in [Reqs -> Request]
        BY <3>1, <3>4, Zenon DEF TypeInv, TypeOK, Labels
    <3>7. TypeOK'
        BY <3>1, <3>3, <3>5, <3>6, Zenon DEF TypeInv, TypeOK, liveVars, histVars
    <3>8. /\ pc'[r] = "register"
          /\ req'[r].obj = nobj + 1
          /\ req'[r].op = req[r].op
          /\ req'[r].kind = req[r].kind
          /\ req'[r].env = req[r].env
          /\ req'[r].who = req[r].who
          /\ \A t \in Reqs \ {r} : pc'[t] = pc[t] /\ req'[t] = req[t]
        BY <3>1, <3>2 DEF TypeInv, TypeOK, Request
    <3>9. SlotOK'
        BY <3>3, <3>8 DEF TypeInv, SlotOK
    <3> QED
        BY <3>7, <3>9 DEF TypeInv
  <2> QED
      BY <2>1, <2>2
<1>7. ASSUME NEW r \in Reqs, Register(r) PROVE TypeInv'
  <2>1. /\ DropLocked(registry)
        /\ registry' = req[r].obj
        /\ expires' = [expires EXCEPT ![req[r].obj] = req[r].now + TTL]
        /\ Done(r)
        /\ UNCHANGED <<now, boot, store, nobj, evictor, sweepAt, histVars>>
      BY <1>7, Zenon DEF Register
  <2>2. pc' \in [Reqs -> Labels] /\ req' \in [Reqs -> Request] /\ SlotOK'
      BY <2>1, SlotType, DoneSlot, Zenon DEF Labels
  <2>3. req[r].now + TTL \in Nat /\ req[r].obj \in 0 .. MaxObjs
    <3>1. req[r] \in Request
        BY DEF TypeInv, TypeOK
    <3> QED
        BY <3>1 DEF Request
  <2>4. registry' \in 0 .. MaxObjs /\ expires' \in [Objs -> Nat]
      BY <2>1, <2>3, Zenon DEF TypeInv, TypeOK
  <2>5. /\ gone' \in [Objs -> BOOLEAN]
        /\ queue' \in [Objs -> [Kinds -> Seq(Envs)]]
        /\ \A x \in Objs, k \in Kinds : Len(queue'[x][k]) <= MaxQueue
        /\ last' \in [Objs -> [Kinds -> Envs \cup {NoEnv}]]
        /\ woken' \in SUBSET Reqs
        /\ UNCHANGED <<joined, next>>
      BY <2>1, DropType, Zenon
  <2> QED
      BY <2>1, <2>2, <2>4, <2>5, Zenon DEF TypeInv, TypeOK, histVars
<1>8. ASSUME NEW r \in Reqs, JoinCheck(r) PROVE TypeInv'
  <2>1. Done(r) \/ Goto(r, "join")
      BY <1>8, Zenon DEF JoinCheck
  <2>2. pc' \in [Reqs -> Labels] /\ req' \in [Reqs -> Request]
      BY <2>1, SlotType, Zenon DEF Labels
  <2>3. SlotOK'
      BY <1>8, <2>1, DoneSlot, GotoSlot, Zenon DEF JoinCheck, Labels, TypeInv, SlotOK, Holding
  <2> QED
      BY <1>8, <1>0, <2>2, <2>3, Zenon DEF JoinCheck, TypeInv, TypeOK
<1>10. ASSUME NEW r \in Reqs, PostCheck(r) PROVE TypeInv'
  <2>1. Done(r) \/ Goto(r, "post")
      BY <1>10, Zenon DEF PostCheck
  <2>2. pc' \in [Reqs -> Labels] /\ req' \in [Reqs -> Request]
      BY <2>1, SlotType, Zenon DEF Labels
  <2>3. SlotOK'
      BY <1>10, <2>1, DoneSlot, GotoSlot, Zenon DEF PostCheck, Labels, TypeInv, SlotOK, Holding
  <2> QED
      BY <1>10, <1>0, <2>2, <2>3, Zenon DEF PostCheck, TypeInv, TypeOK
<1>9. ASSUME NEW r \in Reqs, Join(r) PROVE TypeInv'
  <2>1. Done(r) /\ req[r].who \in Joiners
      BY <1>9, Zenon DEF Join, TypeInv, SlotOK
  <2>2. pc' \in [Reqs -> Labels] /\ req' \in [Reqs -> Request] /\ SlotOK'
      BY <2>1, SlotType, DoneSlot, Zenon DEF Labels
  <2>3. joined' \in [Objs -> Joiners \cup {Nil}]
      BY <1>9, <2>1, Zenon DEF Join, TypeInv, TypeOK
  <2>4. joinAcked' \in [Objs -> SUBSET Joiners]
    <3>1. CASE UNCHANGED joinAcked
        BY <3>1, Zenon DEF TypeInv, TypeOK
    <3>2. CASE joinAcked' = [joinAcked EXCEPT ![req[r].obj] = @ \cup {req[r].who}]
        BY <2>1, <3>2, Zenon DEF TypeInv, TypeOK
    <3> QED
        BY <1>9, <3>1, <3>2, Zenon DEF Join
  <2>5. woken' \in SUBSET Reqs
      BY <1>9, Zenon DEF Join, TypeInv, TypeOK, Notify, Waiters
  <2> QED
      BY <1>9, <2>2, <2>3, <2>4, <2>5, Zenon DEF Join, TypeInv, TypeOK, relayVars
<1>11. ASSUME NEW r \in Reqs, Post(r) PROVE TypeInv'
  <2> DEFINE o == req[r].obj
             k == req[r].kind
             e == req[r].env
             open == ~gone[o] /\ joined[o] # Nil
             replay == open /\ IsReplay(o, k, e)
             accept == open /\ ~replay /\ InSequence(o, k, e) /\ HasRoom(o, k)
  <2>1. /\ IF accept
             THEN /\ queue' = [queue EXCEPT ![o][k] = Append(@, e)]
                  /\ last' = [last EXCEPT ![o][k] = e]
                  /\ next' = [next EXCEPT ![o][k] = @ + 1]
                  /\ accepted' = [accepted EXCEPT ![o][k] = Append(@, e)]
                  /\ Notify(o)
             ELSE UNCHANGED <<queue, last, next, accepted, woken>>
        /\ acked' = IF accept \/ replay
                      THEN acked \cup {[obj |-> o, kind |-> k, env |-> e]}
                      ELSE acked
        /\ Done(r)
        /\ UNCHANGED <<relayVars, joined, gone, expires, delivered, joinAcked>>
      BY <1>11, Zenon DEF Post
  <2>2. o \in Objs /\ k \in Kinds /\ e \in Envs
      BY <1>11, Zenon DEF Post, TypeInv, SlotOK, Holding
  <2>3. accept => Len(queue[o][k]) < MaxQueue
      BY Zenon DEF HasRoom
  <2> HIDE DEF o, k, e, accept, replay
  <2>4. pc' \in [Reqs -> Labels] /\ req' \in [Reqs -> Request] /\ SlotOK'
      BY <2>1, SlotType, DoneSlot, Zenon DEF Labels
  <2>5. acked' \in SUBSET [obj : Objs, kind : Kinds, env : Envs]
      BY <2>1, <2>2 DEF TypeInv, TypeOK
  <2>6. CASE ~accept
      BY <2>1, <2>4, <2>5, <2>6, Zenon DEF TypeInv, TypeOK, relayVars
  <2>7. CASE accept
    <3>1. /\ queue \in [Objs -> [Kinds -> Seq(Envs)]]
          /\ accepted \in [Objs -> [Kinds -> Seq(Envs)]]
          /\ next \in [Objs -> [Kinds -> Nat]]
          /\ last \in [Objs -> [Kinds -> Envs \cup {NoEnv}]]
        BY Zenon DEF TypeInv, TypeOK
    <3>2. /\ queue[o][k] \in Seq(Envs)
          /\ accepted[o][k] \in Seq(Envs)
          /\ next[o][k] \in Nat
        BY <2>2, <3>1
    <3>3. /\ queue' = [queue EXCEPT ![o][k] = Append(@, e)]
          /\ last' = [last EXCEPT ![o][k] = e]
          /\ next' = [next EXCEPT ![o][k] = @ + 1]
          /\ accepted' = [accepted EXCEPT ![o][k] = Append(@, e)]
        BY <2>1, <2>7, Zenon
    <3>4. /\ Append(queue[o][k], e) \in Seq(Envs)
          /\ Append(accepted[o][k], e) \in Seq(Envs)
          /\ next[o][k] + 1 \in Nat
          /\ e \in Envs \cup {NoEnv}
          /\ Len(Append(queue[o][k], e)) <= MaxQueue
        BY <2>2, <2>3, <2>7, <3>2
    <3>5. last' \in [Objs -> [Kinds -> Envs \cup {NoEnv}]]
        BY <2>2, <3>1, <3>3, <3>4, Except2
    <3>6. next' \in [Objs -> [Kinds -> Nat]]
        BY <2>2, <3>1, <3>3, <3>4, Except2
    <3>7. accepted' \in [Objs -> [Kinds -> Seq(Envs)]]
        BY <2>2, <3>1, <3>3, <3>4, Except2
    <3>8. queue' \in [Objs -> [Kinds -> Seq(Envs)]]
        BY <2>2, <3>1, <3>3, <3>4, Except2
    <3>9. \A x \in Objs, j \in Kinds :
              queue'[x][j] = IF x = o /\ j = k THEN Append(queue[o][k], e)
                             ELSE queue[x][j]
        BY <2>2, <3>1, <3>3, Zenon
    <3>10. \A x \in Objs, j \in Kinds : Len(queue'[x][j]) <= MaxQueue
        BY <3>4, <3>9, ZenonT(30) DEF TypeInv, TypeOK
    <3>11. woken' \in SUBSET Reqs
        BY <2>1, <2>7, Zenon DEF TypeInv, TypeOK, Notify, Waiters
    <3> QED
        BY <2>1, <2>4, <2>5, <3>5, <3>6, <3>7, <3>8, <3>10, <3>11, Zenon
        DEF TypeInv, TypeOK, relayVars
  <2> QED
      BY <2>6, <2>7, Zenon
<1>12. ASSUME NEW r \in Reqs, Poll(r) PROVE TypeInv'
  <2>1. Done(r) \/ Goto(r, "pollExpired") \/ Goto(r, "wait")
      BY <1>12, Zenon DEF Poll
  <2>2. pc' \in [Reqs -> Labels] /\ req' \in [Reqs -> Request]
      BY <2>1, SlotType, Zenon DEF Labels
  <2>3. req[r].obj \in Objs /\ req[r].kind \in Kinds \cup {"join"}
      BY <1>12, Zenon DEF Poll, TypeInv, TypeOK, SlotOK, Holding, Request
  <2>4. SlotOK'
      BY <2>1, <2>3, DoneSlot, GotoSlot, Zenon DEF Labels
  <2>5. \/ UNCHANGED <<queue, woken, delivered>>
        \/ req[r].kind # "join" /\ TakeAll(req[r].obj, req[r].kind)
      BY <1>12, Zenon DEF Poll
  <2>6. /\ queue' \in [Objs -> [Kinds -> Seq(Envs)]]
        /\ \A x \in Objs, k \in Kinds : Len(queue'[x][k]) <= MaxQueue
        /\ delivered' \in [Objs -> [Kinds -> Seq(Envs)]]
        /\ woken' \in SUBSET Reqs
    <3> DEFINE o == req[r].obj
               k == req[r].kind
    <3>1. CASE UNCHANGED <<queue, woken, delivered>>
        BY <3>1, Zenon DEF TypeInv, TypeOK
    <3>2. CASE k # "join" /\ TakeAll(o, k)
      <4>1. o \in Objs /\ k \in Kinds
          BY <2>3, <3>2, Zenon
      <4>2. /\ queue' = [queue EXCEPT ![o][k] = <<>>]
            /\ delivered' = [delivered EXCEPT ![o][k] = @ \o queue[o][k]]
            /\ woken' = woken \cup Waiters(o)
          BY <3>2, Zenon DEF TakeAll, Notify
      <4> HIDE DEF o, k
      <4>7. /\ queue \in [Objs -> [Kinds -> Seq(Envs)]]
            /\ delivered \in [Objs -> [Kinds -> Seq(Envs)]]
          BY Zenon DEF TypeInv, TypeOK
      <4>3. delivered[o][k] \o queue[o][k] \in Seq(Envs) /\ <<>> \in Seq(Envs)
          BY <4>1, <4>7
      <4>4. delivered' \in [Objs -> [Kinds -> Seq(Envs)]]
          BY <4>1, <4>2, <4>3, <4>7, Except2
      <4>5. /\ queue' \in [Objs -> [Kinds -> Seq(Envs)]]
            /\ \A x \in Objs, j \in Kinds :
                  queue'[x][j] = IF x = o /\ j = k THEN <<>> ELSE queue[x][j]
          BY <4>1, <4>2, <4>3, <4>7, Except2, SMTT(30)
      <4>6. \A x \in Objs, j \in Kinds : Len(queue'[x][j]) <= MaxQueue
          BY <4>5 DEF TypeInv, TypeOK
      <4> QED
          BY <4>2, <4>4, <4>5, <4>6, Zenon DEF TypeInv, TypeOK, Waiters
    <3> QED
        BY <2>5, <3>1, <3>2, Zenon
  <2> QED
      BY <1>12, <2>2, <2>4, <2>6, Zenon DEF Poll, TypeInv, TypeOK, relayVars
<1>13. ASSUME NEW r \in Reqs, PollExpired(r) PROVE TypeInv'
  <2>1. Done(r) /\ UNCHANGED <<evictor, sweepAt>>
      BY <1>13, Zenon DEF PollExpired
  <2>2. pc' \in [Reqs -> Labels] /\ req' \in [Reqs -> Request] /\ SlotOK'
      BY <2>1, SlotType, DoneSlot DEF Labels
  <2>3. CASE OwnsEntry(req[r].obj)
      BY <1>13, <2>1, <2>2, <2>3, DeleteType, Zenon DEF PollExpired, TypeInv, TypeOK
  <2>4. CASE ~OwnsEntry(req[r].obj)
      BY <1>0, <1>13, <2>1, <2>2, <2>4, Zenon
      DEF PollExpired, TypeInv, TypeOK, relayVars
  <2> QED
      BY <2>3, <2>4, Zenon
<1>14. ASSUME NEW r \in Reqs, Wake(r) PROVE TypeInv'
  <2>1. pc[r] = "wait" /\ Goto(r, "poll")
      BY <1>14, Zenon DEF Wake
  <2>2. pc' \in [Reqs -> Labels] /\ req' \in [Reqs -> Request]
      BY <2>1, SlotType, Zenon DEF Labels
  <2>3. SlotOK'
      BY <2>1, GotoSlot, Zenon DEF Labels, TypeInv, SlotOK, Holding
  <2> QED
      BY <1>14, <1>0, <2>2, <2>3, Zenon DEF Wake, TypeInv, TypeOK
<1>15. ASSUME NEW r \in Reqs, ExpiryTimer(r) PROVE TypeInv'
  <2>1. pc[r] = "wait" /\ Goto(r, "poll")
      BY <1>15, Zenon DEF ExpiryTimer
  <2>2. pc' \in [Reqs -> Labels] /\ req' \in [Reqs -> Request]
      BY <2>1, SlotType DEF Labels
  <2>3. SlotOK'
      BY <2>1, GotoSlot DEF Labels, TypeInv, SlotOK, Holding
  <2> QED
      BY <1>15, <1>0, <2>2, <2>3, Zenon DEF ExpiryTimer, TypeInv, TypeOK
<1>16. ASSUME NEW r \in Reqs, Reject(r) PROVE TypeInv'
  <2>1. Done(r)
      BY <1>16, Zenon DEF Reject
  <2>2. pc' \in [Reqs -> Labels] /\ req' \in [Reqs -> Request] /\ SlotOK'
      BY <2>1, SlotType, DoneSlot, Zenon DEF Labels
  <2> QED
      BY <1>16, <1>0, <2>2, Zenon DEF Reject, TypeInv, TypeOK
<1>18. ASSUME NEW r \in Reqs, Cancel(r) PROVE TypeInv'
  <2>1. Done(r)
      BY <1>18, Zenon DEF Cancel
  <2>2. pc' \in [Reqs -> Labels] /\ req' \in [Reqs -> Request] /\ SlotOK'
      BY <2>1, SlotType, DoneSlot DEF Labels
  <2> QED
      BY <1>18, <1>0, <2>2, Zenon DEF Cancel, TypeInv, TypeOK
<1>17. ASSUME NEW r \in Reqs, Timeout(r) PROVE TypeInv'
  <2>1. /\ pc[r] = "wait"
        /\ pc' = [pc EXCEPT ![r] = "poll"]
        /\ req' = [req EXCEPT ![r] = [req[r] EXCEPT !.timedOut = TRUE]]
      BY <1>17, Zenon DEF Timeout
  <2>2. req[r] \in Request
      BY DEF TypeInv, TypeOK
  <2>3. [req[r] EXCEPT !.timedOut = TRUE] \in Request
      BY <2>2, Zenon DEF Request
  <2>4. pc' \in [Reqs -> Labels] /\ req' \in [Reqs -> Request]
      BY <2>1, <2>3, Zenon DEF TypeInv, TypeOK, Labels
  <2>5. /\ req'[r].obj = req[r].obj
        /\ req'[r].op = req[r].op
        /\ req'[r].kind = req[r].kind
        /\ req'[r].env = req[r].env
        /\ req'[r].who = req[r].who
        /\ pc'[r] = "poll"
        /\ \A t \in Reqs \ {r} : pc'[t] = pc[t] /\ req'[t] = req[t]
      BY <2>1, <2>2 DEF TypeInv, TypeOK, Request
  <2>6. SlotOK'
      BY <2>1, <2>5 DEF TypeInv, SlotOK, Holding
  <2> QED
      BY <1>17, <1>0, <2>4, <2>6, Zenon DEF Timeout, TypeInv, TypeOK
<1>19. CASE Sweep
  <2>1. UNCHANGED <<evictor, pc, req>> /\ sweepAt' = now
      BY <1>19, Zenon DEF Sweep
  <2>2. SlotOK'
      BY <2>1, Zenon DEF TypeInv, SlotOK
  <2>3. CASE registry # 0 /\ expires[registry] <= now
      BY <1>19, <2>1, <2>2, <2>3, DeleteType, Zenon DEF Sweep, TypeInv, TypeOK
  <2>4. CASE ~(registry # 0 /\ expires[registry] <= now)
      BY <1>19, <2>1, <2>2, <2>4, Zenon
      DEF Sweep, TypeInv, TypeOK, liveVars, histVars
  <2> QED
      BY <2>3, <2>4, Zenon
<1>20. CASE StoreSweep
  <2>1. store' \in [expires : Nat, boot : Nat]
      BY <1>20, Zenon DEF StoreSweep, NoMeta, TypeInv, TypeOK
  <2>2. SlotOK'
      BY <1>20, Zenon DEF StoreSweep, TypeInv, SlotOK, slotVars
  <2>3. TypeOK'
      BY <1>20, <2>1, Zenon DEF StoreSweep, TypeInv, TypeOK, liveVars, slotVars, histVars
  <2> QED
      BY <2>2, <2>3, Zenon DEF TypeInv
<1>21. CASE Tick
  <2>1. now' \in Nat
      BY <1>21 DEF Tick, TypeInv, TypeOK
  <2>2. SlotOK'
      BY <1>21, Zenon DEF Tick, TypeInv, SlotOK, slotVars
  <2>3. TypeOK'
      BY <1>21, <2>1, Zenon DEF Tick, TypeInv, TypeOK, liveVars, slotVars, histVars
  <2> QED
      BY <2>2, <2>3 DEF TypeInv
<1>22. CASE Restart
  <2>1. NoRequest \in Request
      BY DEF NoRequest, Request, Ops
  <2>2. store' \in [expires : Nat, boot : Nat]
      BY <1>22 DEF Restart, NoMeta, TypeInv, TypeOK
  <2>3. /\ queue' \in [Objs -> [Kinds -> Seq(Envs)]]
        /\ \A o \in Objs, k \in Kinds : Len(queue'[o][k]) <= MaxQueue
      BY <1>22 DEF Restart, EmptyQueues
  <2>4. /\ pc' \in [Reqs -> Labels]
        /\ req' \in [Reqs -> Request]
        /\ gone' \in [Objs -> BOOLEAN]
        /\ last' \in [Objs -> [Kinds -> Envs \cup {NoEnv}]]
      BY <1>22, <2>1, Zenon DEF Restart, Labels
  <2>5. TypeOK'
      BY <1>22, <2>2, <2>3, <2>4 DEF Restart, TypeInv, TypeOK, histVars
  <2>6. SlotOK'
      BY <1>22, Zenon DEF Restart, SlotOK, NoRequest, Holding
  <2> QED
      BY <2>5, <2>6, Zenon DEF TypeInv
<1>23. CASE UNCHANGED vars
    BY <1>23, Zenon
    DEF TypeInv, TypeOK, SlotOK, vars, relayVars, liveVars, slotVars, histVars
<1> QED
    BY <1>1, <1>2, <1>3, <1>4, <1>5, <1>6, <1>7, <1>8, <1>9, <1>10, <1>11,
       <1>12, <1>13, <1>14, <1>15, <1>16, <1>17, <1>18, <1>19, <1>20, <1>21,
       <1>22, <1>23, Zenon
    DEF Next, Handle

\* Every reachable state is well typed, and no queue exceeds
\* Caps.QueueLength however posts, polls and deletions cross.
THEOREM TypeCorrect == Spec => []TypeOK
<1>1. Init => TypeInv
    BY InitType, Zenon
<1>2. TypeInv /\ [Next]_vars => TypeInv'
    BY StepType, Zenon
<1>3. TypeInv => TypeOK
    BY Zenon DEF TypeInv
<1> QED
    BY <1>1, <1>2, <1>3, PTL DEF Spec

-----------------------------------------------------------------------------
(* The registry.                                                           *)

\* Creates about to register hold a liveSession of their own, in its initial
\* state as far as others can tell.
PendingOK ==
    /\ \A o \in Objs : Unregistered(o) => ~gone[o]
    /\ \A r \in Reqs : pc[r] = "register" => req[r].obj <= nobj
    /\ \A r, t \in Reqs :
          pc[r] = "register" /\ pc[t] = "register" /\ r # t
          => req[r].obj # req[t].obj

\* Everybody else only reaches a liveSession that was registered once.
HoldersOK ==
    \A r \in Reqs, o \in Objs :
        pc[r] \in Holding /\ req[r].obj = o => ~Unregistered(o)

\* A liveSession nobody can use holds no envelope.
Blank ==
    \A o \in Objs : (gone[o] \/ Unregistered(o)) =>
        \A k \in Kinds : queue[o][k] = <<>> /\ last[o][k] = NoEnv

RegInv == OneRegistered /\ PendingOK /\ HoldersOK /\ Blank

\* A step that moves no slot into or out of "register" changes nothing about
\* which liveSessions are unregistered.
LEMMA SameUnregistered ==
    ASSUME nobj' = nobj,
           \A t \in Reqs :
              /\ pc'[t] = "register" <=> pc[t] = "register"
              /\ pc[t] = "register" => req'[t].obj = req[t].obj
    PROVE  \A o \in Objs : Unregistered(o)' <=> Unregistered(o)
BY Zenon DEF Unregistered

\* What a step that moves slot r (or none, when r is no slot) and either
\* leaves the registry alone or drops its entry does to the layer.
LEMMA MoveReg ==
    ASSUME TypeInv, TypeInv', RegInv, NEW r,
           \A t \in Reqs \ {r} : pc'[t] = pc[t] /\ req'[t] = req[t],
           r \in Reqs => /\ pc[r] # "register"
                         /\ pc'[r] # "register"
                         /\ pc'[r] \in Holding =>
                               \/ pc[r] \in Holding /\ req'[r].obj = req[r].obj
                               \/ registry # 0 /\ req'[r].obj = registry,
           nobj' = nobj,
           \/ UNCHANGED <<registry, gone>>
           \/ registry' = 0 /\ gone' = [x \in Objs |-> gone[x] \/ x = registry]
    PROVE  /\ OneRegistered' /\ PendingOK' /\ HoldersOK'
           /\ \A o \in Objs : Unregistered(o)' <=> Unregistered(o)
<1>1. \A o \in Objs : Unregistered(o)' <=> Unregistered(o)
  <2>1. \A t \in Reqs :
           /\ pc'[t] = "register" <=> pc[t] = "register"
           /\ pc[t] = "register" => req'[t].obj = req[t].obj
      OBVIOUS
  <2> QED
      BY <2>1, SameUnregistered, Zenon
<1>2. \A o \in Objs : gone[o] => gone'[o]
    BY Zenon DEF TypeInv, TypeOK
<1>3. \A o \in Objs : Unregistered(o) => o # registry
    BY Zenon DEF RegInv, OneRegistered
<1>4. OneRegistered'
  <2>1. \A o \in Objs : (~gone[o] /\ ~Unregistered(o)) <=> registry = o
      BY Zenon DEF RegInv, OneRegistered
  <2>2. \A o \in Objs : (~gone'[o] /\ ~Unregistered(o)) <=> registry' = o
    <3>1. CASE UNCHANGED <<registry, gone>>
        BY <2>1, <3>1, Zenon
    <3>2. CASE registry' = 0 /\ gone' = [x \in Objs |-> gone[x] \/ x = registry]
      <4>1. \A o \in Objs : gone'[o] <=> gone[o] \/ o = registry
          BY <3>2, Zenon
      <4>2. \A o \in Objs : registry' # o
          BY <3>2 DEF Objs
      <4> QED
          BY <2>1, <4>1, <4>2, Zenon
    <3> QED
        BY <3>1, <3>2, Zenon
  <2> QED
      BY <1>1, <2>2, Zenon DEF OneRegistered
<1>5. PendingOK'
  <2>1. \A o \in Objs : Unregistered(o)' => ~gone'[o]
      BY <1>1, <1>3, Zenon DEF RegInv, PendingOK
  <2>2. \A t \in Reqs : pc'[t] = "register" => pc[t] = "register" /\ req'[t] = req[t]
      OBVIOUS
  <2> QED
      BY <2>1, <2>2 DEF RegInv, PendingOK
<1>6. HoldersOK'
  <2> SUFFICES ASSUME NEW t \in Reqs, NEW o \in Objs,
                      pc'[t] \in Holding, req'[t].obj = o
               PROVE  ~Unregistered(o)'
      BY Zenon DEF HoldersOK
  <2>1. ~Unregistered(o)
      BY <1>3, Zenon DEF RegInv, HoldersOK
  <2> QED
      BY <1>1, <2>1, Zenon
<1> QED
    BY <1>1, <1>4, <1>5, <1>6, Zenon

\* The same with what such a step does to the envelopes.
LEMMA MoveRegInv ==
    ASSUME TypeInv, TypeInv', RegInv, NEW r,
           \A t \in Reqs \ {r} : pc'[t] = pc[t] /\ req'[t] = req[t],
           r \in Reqs => /\ pc[r] # "register"
                         /\ pc'[r] # "register"
                         /\ pc'[r] \in Holding =>
                               \/ pc[r] \in Holding /\ req'[r].obj = req[r].obj
                               \/ registry # 0 /\ req'[r].obj = registry,
           nobj' = nobj,
           \/ UNCHANGED <<registry, gone, queue, last>>
           \/ registry' = 0 /\ ClearLive(registry)
    PROVE  RegInv'
<1>1. /\ OneRegistered' /\ PendingOK' /\ HoldersOK'
      /\ \A o \in Objs : Unregistered(o)' <=> Unregistered(o)
    BY MoveReg, Zenon DEF ClearLive
<1>2. Blank'
  <2>1. CASE UNCHANGED <<registry, gone, queue, last>>
      BY <1>1, <2>1, Zenon DEF Blank, RegInv
  <2>2. CASE registry' = 0 /\ ClearLive(registry)
    <3> SUFFICES ASSUME NEW o \in Objs, gone'[o] \/ Unregistered(o), NEW k \in Kinds
                 PROVE  queue'[o][k] = <<>> /\ last'[o][k] = NoEnv
        BY <1>1, Zenon DEF Blank
    <3>1. gone'[o] <=> gone[o] \/ o = registry
        BY <2>2, Zenon DEF ClearLive
    <3>2. /\ queue'[o] = IF o = registry THEN EmptyQueues ELSE queue[o]
          /\ last'[o] = IF o = registry THEN [j \in Kinds |-> NoEnv] ELSE last[o]
        BY <2>2, Zenon DEF ClearLive
    <3> QED
        BY <3>1, <3>2 DEF RegInv, Blank, EmptyQueues
  <2> QED
      BY <2>1, <2>2, Zenon
<1> QED
    BY <1>1, <1>2, Zenon DEF RegInv

\* A relay that starts has nothing registered.
LEMMA InitReg == Init => RegInv
<1> SUFFICES ASSUME Init PROVE RegInv
    OBVIOUS
<1>1. \A o \in Objs : Unregistered(o) /\ ~gone[o] /\ registry # o
    BY DEF Init, Unregistered, Objs
<1>2. OneRegistered
    BY <1>1, Zenon DEF OneRegistered
<1>3. PendingOK /\ HoldersOK
    BY <1>1, Zenon DEF Init, PendingOK, HoldersOK, Holding
<1>4. Blank
    BY Zenon DEF Init, Blank, EmptyQueues
<1> QED
    BY <1>2, <1>3, <1>4, Zenon DEF RegInv

\* Every step keeps the registry in order: one live session of the ID, and
\* what the requests hold was registered once.
LEMMA StepReg == TypeInv /\ TypeInv' /\ RegInv /\ [Next]_vars => RegInv'
<1> SUFFICES ASSUME TypeInv, TypeInv', RegInv, [Next]_vars PROVE RegInv'
    BY Zenon
<1> USE RelayAssumption
\* A slot that is answered, or goes on with the same liveSession.
<1>1. ASSUME NEW r \in Reqs, Done(r)
      PROVE  /\ \A t \in Reqs \ {r} : pc'[t] = pc[t] /\ req'[t] = req[t]
             /\ pc'[r] = "idle" /\ pc'[r] \notin Holding \cup {"register"}
    BY <1>1, ZenonT(40) DEF Done, TypeInv, TypeOK, Holding
<1>2. ASSUME NEW r \in Reqs, NEW label, Goto(r, label)
      PROVE  /\ \A t \in Reqs \ {r} : pc'[t] = pc[t] /\ req'[t] = req[t]
             /\ pc'[r] = label /\ req'[r].obj = req[r].obj
    BY <1>2, Zenon DEF Goto, TypeInv, TypeOK
<1>3. ASSUME NEW r \in Reqs, pc[r] # "register", Done(r), nobj' = nobj,
             \/ UNCHANGED <<registry, gone, queue, last>>
             \/ registry' = 0 /\ ClearLive(registry)
      PROVE  RegInv'
    BY <1>1, <1>3, MoveRegInv, Zenon
<1>4. ASSUME NEW r \in Reqs, pc[r] # "register", NEW label, Goto(r, label),
             label # "register", label \in Holding => pc[r] \in Holding,
             nobj' = nobj,
             \/ UNCHANGED <<registry, gone, queue, last>>
             \/ registry' = 0 /\ ClearLive(registry)
      PROVE  RegInv'
    BY <1>2, <1>4, MoveRegInv, Zenon
<1>5. ASSUME DeleteAndDrop
      PROVE  nobj' = nobj /\ registry' = 0 /\ ClearLive(registry)
    BY <1>5, Zenon DEF DeleteAndDrop, DropLocked
<1>6. ASSUME UNCHANGED <<relayVars, liveVars>>
      PROVE  UNCHANGED <<nobj, registry, gone, queue, last>>
    BY <1>6, Zenon DEF relayVars, liveVars
<1>7. ASSUME NEW r \in Reqs, Arrive(r) PROVE RegInv'
  <2>1. /\ pc[r] = "idle"
        /\ pc'[r] \in {"reread", "create", "get", "idle"}
        /\ \A t \in Reqs \ {r} : pc'[t] = pc[t] /\ req'[t] = req[t]
      BY <1>7 DEF Arrive, Routed, TypeInv, TypeOK
  <2>2. UNCHANGED <<nobj, registry, gone, queue, last>>
      BY <1>7, <1>6, Zenon DEF Arrive
  <2>3. pc[r] # "register" /\ pc'[r] \notin Holding \cup {"register"}
      BY <2>1, Zenon DEF Holding
  <2> QED
      BY <2>1, <2>2, <2>3, MoveRegInv, Zenon
<1>8. ASSUME NEW r \in Reqs, Reread(r) PROVE RegInv'
  <2>1. PICK label \in {"evict", "create", "get"} : Done(r) \/ Goto(r, label)
      BY <1>8, Zenon DEF Reread, Routed
  <2>2. UNCHANGED <<nobj, registry, gone, queue, last>> /\ pc[r] # "register"
      BY <1>8, Zenon DEF Reread, liveVars
  <2>3. label # "register" /\ label \notin Holding
      BY Zenon DEF Holding
  <2> QED
      BY <2>1, <2>2, <2>3, <1>3, <1>4, Zenon
<1>9. ASSUME NEW r \in Reqs, Evict(r) PROVE RegInv'
  <2>1. /\ pc[r] # "register" /\ DeleteAndDrop
        /\ Done(r) \/ Goto(r, "create")
      BY <1>9, Zenon DEF Evict
  <2>2. "create" # "register" /\ "create" \notin Holding
      BY Zenon DEF Holding
  <2> QED
      BY <2>1, <2>2, <1>3, <1>4, <1>5, Zenon
<1>10. ASSUME NEW r \in Reqs, Get(r) PROVE RegInv'
  <2>1. pc[r] # "register" /\ UNCHANGED <<nobj, registry, gone, queue, last>>
      BY <1>10, <1>6, Zenon DEF Get
  <2>2. CASE registry = 0
      BY <1>3, <1>10, <2>1, <2>2, Zenon DEF Get
  <2>3. CASE registry # 0
    <3> DEFINE label == CASE req[r].op = "join" -> "joinCheck"
                          [] req[r].op = "post" -> "postCheck"
                          [] OTHER -> req[r].op
    <3>1. /\ pc' = [pc EXCEPT ![r] = label]
          /\ req' = [req EXCEPT ![r].obj = registry, ![r].now = 0]
        BY <1>10, <2>3, Zenon DEF Get
    <3>2. req \in [Reqs -> Request] /\ pc \in [Reqs -> Labels]
        BY Zenon DEF TypeInv, TypeOK
    <3>3. req[r].op \in Ops
        BY <3>2, Zenon DEF Request
    <3>4. label # "register"
        BY <3>3, Zenon DEF Ops
    <3> HIDE DEF label
    <3>5. pc'[r] # "register"
        BY <3>1, <3>2, <3>4, Zenon
    <3>6. req'[r].obj = registry
        BY <3>1, <3>2 DEF Request
    <3>7. \A t \in Reqs \ {r} : pc'[t] = pc[t] /\ req'[t] = req[t]
        BY <3>1, <3>2, Zenon
    <3> QED
        BY <2>1, <2>3, <3>5, <3>6, <3>7, MoveRegInv, Zenon
  <2> QED
      BY <2>2, <2>3, Zenon
<1>11. ASSUME NEW r \in Reqs, Delete(r) PROVE RegInv'
  <2>1. pc[r] # "register" /\ Done(r)
      BY <1>11, Zenon DEF Delete
  <2>2. DeleteAndDrop \/ UNCHANGED <<nobj, registry, gone, queue, last>>
      BY <1>11, Zenon DEF Delete, liveVars
  <2> QED
      BY <2>1, <2>2, <1>3, <1>5, Zenon
<1>12. ASSUME NEW r \in Reqs, CreateSession(r) PROVE RegInv'
  <2>1. CASE store # NoMeta
      BY <1>3, <1>12, <2>1, Zenon DEF CreateSession, liveVars
  <2>2. CASE store = NoMeta
    <3>1. /\ pc[r] = "create"
          /\ nobj' = nobj + 1
          /\ pc' = [pc EXCEPT ![r] = "register"]
          /\ req' = [req EXCEPT ![r].obj = nobj + 1]
          /\ UNCHANGED <<registry, gone, queue, last>>
        BY <1>12, <2>2, Zenon DEF CreateSession, liveVars
    <3>2. /\ pc'[r] = "register" /\ req'[r].obj = nobj + 1
          /\ \A t \in Reqs \ {r} : pc'[t] = pc[t] /\ req'[t] = req[t]
        BY <3>1 DEF TypeInv, TypeOK, Request
    <3>8. nobj \in Nat /\ MaxObjs \in Nat
        BY DEF TypeInv, TypeOK
    <3>3. \A o \in Objs : Unregistered(o)' <=> Unregistered(o)
      <4> SUFFICES ASSUME NEW o \in Objs PROVE Unregistered(o)' <=> Unregistered(o)
          OBVIOUS
      <4>1. o > nobj <=> o > nobj' \/ o = nobj + 1
          BY <3>1, <3>8 DEF Objs
      <4>2. (\E t \in Reqs : pc'[t] = "register" /\ req'[t].obj = o)
            <=> \/ o = nobj + 1
                \/ \E t \in Reqs : pc[t] = "register" /\ req[t].obj = o
          BY <3>1, <3>2, Zenon
      <4> QED
          BY <4>1, <4>2, Zenon DEF Unregistered
    <3>4. OneRegistered' /\ Blank'
        BY <3>1, <3>3, Zenon DEF RegInv, OneRegistered, Blank
    <3>5. \A t \in Reqs : pc[t] = "register" => req[t].obj <= nobj /\ req[t].obj \in Nat
        BY DEF RegInv, PendingOK, TypeInv, TypeOK, Request
    <3>6. PendingOK'
      <4>1. \A o \in Objs : Unregistered(o)' => ~gone'[o]
          BY <3>1, <3>3, Zenon DEF RegInv, PendingOK
      <4>2. \A t \in Reqs : pc'[t] = "register" => req'[t].obj <= nobj'
          BY <3>1, <3>2, <3>5, <3>8
      <4>3. \A t, u \in Reqs :
               pc'[t] = "register" /\ pc'[u] = "register" /\ t # u
               => req'[t].obj # req'[u].obj
          BY <3>2, <3>5, <3>8, SMTT(30) DEF RegInv, PendingOK
      <4> QED
          BY <4>1, <4>2, <4>3, Zenon DEF PendingOK
    <3>7. HoldersOK'
      <4> SUFFICES ASSUME NEW t \in Reqs, NEW o \in Objs,
                          pc'[t] \in Holding, req'[t].obj = o
                   PROVE  ~Unregistered(o)'
          BY Zenon DEF HoldersOK
      <4>1. t # r
          BY <3>2, Zenon DEF Holding
      <4> QED
          BY <3>2, <3>3, <4>1, Zenon DEF RegInv, HoldersOK
    <3> QED
        BY <3>4, <3>6, <3>7, Zenon DEF RegInv
  <2> QED
      BY <2>1, <2>2, Zenon
<1>13. ASSUME NEW r \in Reqs, Register(r) PROVE RegInv'
  <2> DEFINE n == req[r].obj
  <2>1. /\ pc[r] = "register" /\ n \in Objs /\ n <= nobj
        /\ ClearLive(registry) /\ registry' = n /\ nobj' = nobj
      BY <1>13, ZenonT(40) DEF Register, DropLocked, TypeInv, SlotOK, RegInv, PendingOK
  <2>2. /\ \A t \in Reqs \ {r} : pc'[t] = pc[t] /\ req'[t] = req[t]
        /\ pc'[r] = "idle"
      BY <1>13, Zenon DEF Register, Done, TypeInv, TypeOK
  <2>3. \A o \in Objs : gone'[o] <=> gone[o] \/ o = registry
      BY <2>1, Zenon DEF ClearLive
  <2>4. Unregistered(n) /\ ~gone[n] /\ n # registry
      BY <2>1, Zenon DEF Unregistered, RegInv, PendingOK, OneRegistered
  <2>5. \A o \in Objs : Unregistered(o)' <=> Unregistered(o) /\ o # n
    <3> SUFFICES ASSUME NEW o \in Objs
                 PROVE  Unregistered(o)' <=> Unregistered(o) /\ o # n
        BY Zenon
    <3>1. o > nobj => o # n
        BY <2>1 DEF TypeInv, TypeOK, Objs
    <3>2. (\E t \in Reqs : pc'[t] = "register" /\ req'[t].obj = o)
          <=> (\E t \in Reqs : pc[t] = "register" /\ req[t].obj = o) /\ o # n
        BY <2>1, <2>2 DEF RegInv, PendingOK
    <3> QED
        BY <2>1, <3>1, <3>2, Zenon DEF Unregistered
  <2>6. \A o \in Objs : (~gone[o] /\ ~Unregistered(o)) <=> registry = o
      BY Zenon DEF RegInv, OneRegistered
  <2>7. OneRegistered'
    <3>1. \A o \in Objs : (~gone'[o] /\ ~Unregistered(o)') <=> registry' = o
        BY <2>1, <2>3, <2>4, <2>5, <2>6, Zenon
    <3> QED
        BY <3>1, Zenon DEF OneRegistered
  <2>8. PendingOK'
    <3>1. \A o \in Objs : Unregistered(o)' => ~gone'[o]
        BY <2>3, <2>5, <2>6, Zenon DEF RegInv, PendingOK
    <3>2. \A t \in Reqs : pc'[t] = "register" =>
             t # r /\ pc[t] = "register" /\ req'[t] = req[t]
        BY <2>2, Zenon
    <3> QED
        BY <2>1, <3>1, <3>2 DEF RegInv, PendingOK
  <2>9. HoldersOK'
    <3> SUFFICES ASSUME NEW t \in Reqs, NEW o \in Objs,
                        pc'[t] \in Holding, req'[t].obj = o
                 PROVE  ~Unregistered(o)'
        BY DEF HoldersOK
    <3>1. t # r
        BY <2>2, Zenon DEF Holding
    <3> QED
        BY <2>2, <2>5, <3>1, Zenon DEF RegInv, HoldersOK
  <2>10. Blank'
    <3> SUFFICES ASSUME NEW o \in Objs, gone'[o] \/ Unregistered(o)', NEW k \in Kinds
                 PROVE  queue'[o][k] = <<>> /\ last'[o][k] = NoEnv
        BY Zenon DEF Blank
    <3>1. /\ queue'[o] = IF o = registry THEN EmptyQueues ELSE queue[o]
          /\ last'[o] = IF o = registry THEN [j \in Kinds |-> NoEnv] ELSE last[o]
        BY <2>1, Zenon DEF ClearLive
    <3>2. CASE o = registry
        BY <3>1, <3>2, Zenon DEF EmptyQueues
    <3>3. CASE o # registry
      <4>1. gone[o] \/ Unregistered(o)
          BY <2>3, <2>5, <3>3, Zenon
      <4> QED
          BY <3>1, <3>3, <4>1, Zenon DEF RegInv, Blank
    <3> QED
        BY <3>2, <3>3, Zenon
  <2> QED
      BY <2>7, <2>8, <2>9, <2>10, Zenon DEF RegInv
<1>14. ASSUME NEW r \in Reqs, JoinCheck(r) PROVE RegInv'
  <2>1. /\ pc[r] # "register" /\ pc[r] \in Holding
        /\ Done(r) \/ Goto(r, "join")
        /\ UNCHANGED <<nobj, registry, gone, queue, last>>
      BY <1>14, <1>6, Zenon DEF JoinCheck, Holding
  <2> QED
      BY <2>1, <1>3, <1>4, Zenon
<1>16. ASSUME NEW r \in Reqs, PostCheck(r) PROVE RegInv'
  <2>1. /\ pc[r] # "register" /\ pc[r] \in Holding
        /\ Done(r) \/ Goto(r, "post")
        /\ UNCHANGED <<nobj, registry, gone, queue, last>>
      BY <1>16, <1>6, Zenon DEF PostCheck, Holding
  <2> QED
      BY <2>1, <1>3, <1>4, ZenonT(40)
<1>15. ASSUME NEW r \in Reqs, Join(r) PROVE RegInv'
  <2>1. /\ pc[r] # "register" /\ Done(r)
        /\ UNCHANGED <<nobj, registry, gone, queue, last>>
      BY <1>15, Zenon DEF Join, relayVars
  <2> QED
      BY <2>1, <1>3, Zenon
<1>17. ASSUME NEW r \in Reqs, Post(r) PROVE RegInv'
  <2> DEFINE n == req[r].obj
  <2>1. pc[r] = "post" /\ Done(r) /\ UNCHANGED <<nobj, registry, gone>>
      BY <1>17, Zenon DEF Post, relayVars
  <2>2. \/ UNCHANGED <<queue, last>>
        \/ /\ ~gone[n]
           /\ queue' = [queue EXCEPT ![n][req[r].kind] = Append(@, req[r].env)]
           /\ last' = [last EXCEPT ![n][req[r].kind] = req[r].env]
      BY <1>17, Zenon DEF Post
  <2>3. DOMAIN queue = Objs /\ DOMAIN last = Objs
      BY Zenon DEF TypeInv, TypeOK
  <2>4. \/ UNCHANGED <<queue, last>>
        \/ /\ ~gone[n]
           /\ \A x \in Objs \ {n} : queue'[x] = queue[x] /\ last'[x] = last[x]
      BY <2>2, <2>3, Zenon
  <2>5. /\ OneRegistered' /\ PendingOK' /\ HoldersOK'
        /\ \A o \in Objs : Unregistered(o)' <=> Unregistered(o)
      BY <2>1, <1>1, MoveReg, Zenon
  <2>6. n \in Objs /\ ~Unregistered(n)
      BY <2>1, Zenon DEF TypeInv, SlotOK, RegInv, HoldersOK, Holding
  <2> HIDE DEF n
  <2>7. gone' = gone /\ nobj' = nobj /\ \A o \in Objs : Unregistered(o)' <=> Unregistered(o)
      BY <2>1, <2>5, ZenonT(40)
  <2>8. Blank'
      BY <2>4, <2>6, <2>7, ZenonT(40) DEF RegInv, Blank
  <2> QED
      BY <2>5, <2>8, Zenon DEF RegInv
<1>18. ASSUME NEW r \in Reqs, Poll(r) PROVE RegInv'
  <2> DEFINE n == req[r].obj
  <2>1. /\ pc[r] = "poll"
        /\ Done(r) \/ Goto(r, "pollExpired") \/ Goto(r, "wait")
        /\ UNCHANGED <<nobj, registry, gone, last>>
        /\ \/ UNCHANGED queue
           \/ ~gone[n] /\ queue' = [queue EXCEPT ![n][req[r].kind] = <<>>]
      BY <1>18, Zenon DEF Poll, TakeAll, relayVars
  <2>2. /\ OneRegistered' /\ PendingOK' /\ HoldersOK'
        /\ \A o \in Objs : Unregistered(o)' <=> Unregistered(o)
    <3>1. pc[r] \in Holding /\ pc[r] # "register"
        BY <2>1, Zenon DEF Holding
    <3>2. CASE Done(r)
        BY <2>1, <3>1, <3>2, <1>1, MoveReg, Zenon
    <3>3. CASE Goto(r, "pollExpired") \/ Goto(r, "wait")
        BY <2>1, <3>1, <3>3, <1>2, MoveReg
    <3> QED
        BY <2>1, <3>2, <3>3, Zenon
  <2>3. n \in Objs /\ ~Unregistered(n)
      BY <2>1, Zenon DEF TypeInv, SlotOK, RegInv, HoldersOK, Holding
  <2>4. \/ UNCHANGED queue
        \/ ~gone[n] /\ \A x \in Objs \ {n} : queue'[x] = queue[x]
      BY <2>1, Zenon DEF TypeInv, TypeOK
  <2>5. Blank'
      BY <2>1, <2>2, <2>3, <2>4 DEF RegInv, Blank
  <2> QED
      BY <2>2, <2>5 DEF RegInv
<1>19. ASSUME NEW r \in Reqs, PollExpired(r) PROVE RegInv'
  <2>1. pc[r] # "register" /\ Done(r)
      BY <1>19, Zenon DEF PollExpired
  <2>2. DeleteAndDrop \/ UNCHANGED <<nobj, registry, gone, queue, last>>
      BY <1>19, Zenon DEF PollExpired, liveVars
  <2> QED
      BY <2>1, <2>2, <1>3, <1>5
<1>20. ASSUME NEW r \in Reqs, Wake(r) \/ ExpiryTimer(r) PROVE RegInv'
  <2>1. /\ pc[r] # "register" /\ pc[r] \in Holding
        /\ Goto(r, "poll")
        /\ UNCHANGED <<nobj, registry, gone, queue, last>>
      BY <1>20, <1>6, Zenon DEF Wake, ExpiryTimer, Holding
  <2> QED
      BY <2>1, <1>4, Zenon
<1>21. ASSUME NEW r \in Reqs, Reject(r) \/ Cancel(r) PROVE RegInv'
  <2>1. /\ pc[r] # "register" /\ Done(r)
        /\ UNCHANGED <<nobj, registry, gone, queue, last>>
      BY <1>21, <1>6, Zenon DEF Reject, Cancel
  <2> QED
      BY <2>1, <1>3
<1>22. ASSUME NEW r \in Reqs, Timeout(r) PROVE RegInv'
  <2>1. /\ pc[r] = "wait"
        /\ pc' = [pc EXCEPT ![r] = "poll"]
        /\ req' = [req EXCEPT ![r].timedOut = TRUE]
        /\ UNCHANGED <<nobj, registry, gone, queue, last>>
      BY <1>22, <1>6, Zenon DEF Timeout
  <2>2. /\ pc'[r] = "poll" /\ req'[r].obj = req[r].obj
        /\ \A t \in Reqs \ {r} : pc'[t] = pc[t] /\ req'[t] = req[t]
      BY <2>1 DEF TypeInv, TypeOK, Request
  <2>3. pc[r] # "register" /\ pc[r] \in Holding /\ pc'[r] # "register"
      BY <2>1, <2>2, Zenon DEF Holding
  <2> QED
      BY <2>1, <2>2, <2>3, MoveRegInv, Zenon
<1>23. CASE Sweep
  <2>1. UNCHANGED <<pc, req>>
      BY <1>23, Zenon DEF Sweep
  <2>2. DeleteAndDrop \/ UNCHANGED <<nobj, registry, gone, queue, last>>
      BY <1>23, Zenon DEF Sweep, liveVars
  <2>3. Nil \notin Reqs
      BY Zenon
  <2> QED
      BY <2>1, <2>2, <2>3, <1>5, MoveRegInv, Zenon
<1>24. CASE StoreSweep \/ Tick \/ UNCHANGED vars
  <2>1. UNCHANGED <<pc, req, nobj, registry, gone, queue, last>>
      BY <1>24, Zenon
      DEF StoreSweep, Tick, vars, relayVars, liveVars, slotVars
  <2>2. Nil \notin Reqs
      OBVIOUS
  <2> QED
      BY <2>1, <2>2, MoveRegInv, Zenon
<1>25. CASE Restart
  <2>1. /\ registry' = 0 /\ nobj' = nobj
        /\ pc' = [t \in Reqs |-> "idle"]
        /\ queue' = [o \in Objs |-> EmptyQueues]
        /\ last' = [o \in Objs |-> [k \in Kinds |-> NoEnv]]
      BY <1>25, Zenon DEF Restart
  <2>2. \A o \in Objs : gone'[o] <=> gone[o] \/ o <= nobj
      BY <1>25, Zenon DEF Restart
  <2>3. \A o \in Objs : Unregistered(o)' <=> o > nobj
      BY <2>1, Zenon DEF Unregistered
  <2>4. \A o \in Objs : o \in Nat /\ nobj \in Nat /\ o # 0
      BY DEF Objs, TypeInv, TypeOK
  <2>5. \A o \in Objs : (o > nobj => ~gone[o]) /\ (o > nobj <=> ~(o <= nobj))
      BY <2>4 DEF RegInv, PendingOK, Unregistered
  <2>6. OneRegistered'
      BY <2>1, <2>2, <2>3, <2>4, <2>5, Zenon DEF OneRegistered
  <2>7. PendingOK' /\ HoldersOK'
      BY <2>1, <2>2, <2>3, <2>5, Zenon DEF PendingOK, HoldersOK, Holding
  <2>8. Blank'
      BY <2>1, Zenon DEF Blank, EmptyQueues
  <2> QED
      BY <2>6, <2>7, <2>8, Zenon DEF RegInv
<1> QED
    BY <1>7, <1>8, <1>9, <1>10, <1>11, <1>12, <1>13, <1>14, <1>15, <1>16, <1>17,
       <1>18, <1>19, <1>20, <1>21, <1>22, <1>23, <1>24, <1>25, Zenon
    DEF Next, Handle

\* At most one live session of the ID is usable, for any number of requests
\* creating, deleting, expiring and polling it.
THEOREM OneRegisteredHolds == Spec => []OneRegistered
<1>1. Init => TypeInv /\ RegInv
    BY InitType, InitReg, Zenon
<1>2. TypeInv /\ RegInv /\ [Next]_vars => (TypeInv /\ RegInv)'
    BY StepType, StepReg, Zenon
<1>3. RegInv => OneRegistered
    BY Zenon DEF RegInv
<1> QED
    BY <1>1, <1>2, <1>3, PTL DEF Spec

-----------------------------------------------------------------------------
(* The queues.                                                             *)

\* What post does to the message state, in its two outcomes: nothing moves,
\* and only a repetition of the last envelope is acknowledged; or the envelope
\* is appended, in sequence, to an open session.
PostRefused(o, k, e) ==
    /\ UNCHANGED <<queue, last, next, accepted, woken>>
    /\ acked' = acked \/ last[o][k] = e

PostAccepted(o, k, e) ==
    /\ ~gone[o]
    /\ e.seq = next[o][k]
    /\ woken' = woken \cup Waiters(o)
    /\ queue' = [queue EXCEPT ![o][k] = Append(@, e)]
    /\ last' = [last EXCEPT ![o][k] = e]
    /\ next' = [next EXCEPT ![o][k] = @ + 1]
    /\ accepted' = [accepted EXCEPT ![o][k] = Append(@, e)]

\* post refuses the envelope or accepts it.
LEMMA PostCases ==
    ASSUME TypeInv, NEW r \in Reqs, Post(r)
    PROVE  \E o \in Objs, k \in Kinds, e \in Envs :
              /\ o = req[r].obj
              /\ UNCHANGED <<gone, delivered, joined, joinAcked>>
              /\ acked' \subseteq acked \cup {[obj |-> o, kind |-> k, env |-> e]}
              /\ PostRefused(o, k, e) \/ PostAccepted(o, k, e)
<1>1. req[r].obj \in Objs /\ req[r].kind \in Kinds /\ req[r].env \in Envs
    BY Zenon DEF Post, TypeInv, SlotOK, Holding
<1>2. UNCHANGED <<gone, delivered, joined, joinAcked>>
    BY Zenon DEF Post
<1>3. acked' \subseteq
          acked \cup {[obj |-> req[r].obj, kind |-> req[r].kind, env |-> req[r].env]}
    BY Zenon DEF Post
<1>4. \/ PostRefused(req[r].obj, req[r].kind, req[r].env)
      \/ PostAccepted(req[r].obj, req[r].kind, req[r].env)
    BY Zenon DEF Post, PostRefused, PostAccepted, IsReplay, InSequence, Notify
<1> QED
    BY <1>1, <1>2, <1>3, <1>4, Zenon

\* The last accepted envelope, which a repeated POST is compared with, is the
\* end of what was accepted.
LastIsAccepted ==
    \A o \in Objs, k \in Kinds : last[o][k] # NoEnv =>
        /\ Len(accepted[o][k]) > 0
        /\ last[o][k] = accepted[o][k][Len(accepted[o][k])]

MsgInv == InOrder /\ LastIsAccepted /\ AckedIsAccepted

\* The part of InOrder about one direction of one session that survives its
\* end: the next sequence number, what was accepted and what was delivered.
OrderAt(n, a, d) ==
    /\ n = Len(a) + 1
    /\ \A i \in 1 .. Len(a) : a[i].seq = i
    /\ Len(d) <= Len(a)
    /\ \A i \in 1 .. Len(d) : d[i] = a[i]

\* What was accepted is what was delivered and then what is queued.
Backlog(a, d, q) == a = d \o q

\* InOrder, one direction at a time.
LEMMA InOrderParts ==
    /\ InOrder <=> \A o \in Objs, k \in Kinds :
          /\ OrderAt(next[o][k], accepted[o][k], delivered[o][k])
          /\ ~gone[o] => Backlog(accepted[o][k], delivered[o][k], queue[o][k])
    /\ InOrder' <=> \A o \in Objs, k \in Kinds :
          /\ OrderAt(next'[o][k], accepted'[o][k], delivered'[o][k])
          /\ ~gone'[o] => Backlog(accepted'[o][k], delivered'[o][k], queue'[o][k])
BY ZenonT(40) DEF InOrder, OrderAt, Backlog

\* A position of a sequence is one of the sequence that is longer by one.
LEMMA Below ==
    ASSUME NEW n \in Nat \ {0}, NEW l \in Nat, NEW m, n <= l, m = l + 1
    PROVE  n \in 1 .. l /\ n <= m
OBVIOUS

\* Appending the next envelope in sequence keeps the order.
LEMMA AppendOrder ==
    ASSUME NEW a \in Seq(Envs), NEW d \in Seq(Envs), NEW q \in Seq(Envs),
           NEW e \in Envs, OrderAt(e.seq, a, d), Backlog(a, d, q)
    PROVE  /\ OrderAt(e.seq + 1, Append(a, e), d)
           /\ Backlog(Append(a, e), d, Append(q, e))
           /\ Len(Append(a, e)) = Len(a) + 1
           /\ \A i \in 1 .. Len(a) : Append(a, e)[i] = a[i]
           /\ Append(a, e)[e.seq] = e
           /\ e.seq = Len(a) + 1
<1> DEFINE v == Append(a, e)
           n == e.seq
<1>1. Len(a) \in Nat /\ Len(d) \in Nat
    OBVIOUS
<1>2. /\ n = Len(a) + 1
      /\ \A i \in 1 .. Len(a) : a[i].seq = i
      /\ Len(d) <= Len(a)
      /\ \A i \in 1 .. Len(d) : d[i] = a[i]
    BY Zenon DEF OrderAt
<1>3. /\ Len(v) = Len(a) + 1
      /\ \A i \in 1 .. Len(a) : v[i] = a[i]
      /\ v[Len(a) + 1] = e
    BY AppendProperties
<1>4. Backlog(v, d, Append(q, e))
  <2>1. <<e>> \in Seq(Envs)
      OBVIOUS
  <2>2. Append(a, e) = a \o <<e>> /\ Append(q, e) = q \o <<e>>
      BY AppendIsConcat, Zenon
  <2>3. (d \o q) \o <<e>> = d \o (q \o <<e>>)
      BY <2>1, ConcatAssociative
  <2> QED
      BY <2>2, <2>3, Zenon DEF Backlog
<1> HIDE DEF v
<1>5. \A i \in 1 .. Len(v) : v[i].seq = i
  <2>1. \A i \in 1 .. Len(v) : i \in 1 .. Len(a) \/ i = Len(a) + 1
      BY <1>1, <1>3
  <2> QED
      BY <1>2, <1>3, <2>1, Zenon
<1>6. Len(d) <= Len(v) /\ \A i \in 1 .. Len(d) : d[i] = v[i]
    BY <1>1, <1>2, <1>3
<1>7. OrderAt(n + 1, v, d)
    BY <1>2, <1>3, <1>5, <1>6, Zenon DEF OrderAt
<1> QED
    BY <1>2, <1>3, <1>4, <1>7, Zenon DEF v

\* No message before the first.
LEMMA InitMsg == Init => MsgInv
<1> SUFFICES ASSUME Init PROVE MsgInv
    OBVIOUS
<1>1. InOrder
    BY DEF Init, InOrder, EmptyQueues
<1>2. LastIsAccepted /\ AckedIsAccepted
    BY Zenon DEF Init, LastIsAccepted, AckedIsAccepted
<1> QED
    BY <1>1, <1>2, Zenon DEF MsgInv

\* Every step keeps the order of the messages, and that what is acknowledged
\* was accepted.
LEMMA StepMsg ==
    TypeInv /\ TypeInv' /\ RegInv /\ MsgInv /\ [Next]_vars => MsgInv'
<1> SUFFICES ASSUME TypeInv, TypeInv', RegInv, MsgInv, [Next]_vars PROVE MsgInv'
    BY Zenon
<1> USE RelayAssumption
<1>0. /\ queue \in [Objs -> [Kinds -> Seq(Envs)]]
      /\ accepted \in [Objs -> [Kinds -> Seq(Envs)]]
      /\ delivered \in [Objs -> [Kinds -> Seq(Envs)]]
      /\ next \in [Objs -> [Kinds -> Nat]]
      /\ last \in [Objs -> [Kinds -> Envs \cup {NoEnv}]]
      /\ acked \in SUBSET [obj : Objs, kind : Kinds, env : Envs]
      /\ gone \in [Objs -> BOOLEAN]
    BY Zenon DEF TypeInv, TypeOK
\* Nothing about messages moves.
<1>1. ASSUME UNCHANGED <<queue, next, last, gone, accepted, delivered, acked>>
      PROVE  MsgInv'
    BY <1>1, ZenonT(40) DEF MsgInv, InOrder, LastIsAccepted, AckedIsAccepted
\* Sessions are dropped: their queues and last envelopes go.
<1>2. ASSUME UNCHANGED <<next, accepted, delivered, acked>>,
             \A o \in Objs : gone[o] => gone'[o],
             \A o \in Objs : ~gone'[o] => \A k \in Kinds : queue'[o][k] = queue[o][k],
             \A o \in Objs, k \in Kinds : last'[o][k] \in {last[o][k], NoEnv}
      PROVE  MsgInv'
  <2>1. InOrder'
    <3> SUFFICES ASSUME NEW o \in Objs, NEW k \in Kinds
                 PROVE  /\ OrderAt(next[o][k], accepted[o][k], delivered[o][k])
                        /\ ~gone'[o] =>
                              Backlog(accepted[o][k], delivered[o][k], queue'[o][k])
        BY <1>2, InOrderParts, Zenon
    <3>1. /\ OrderAt(next[o][k], accepted[o][k], delivered[o][k])
          /\ ~gone[o] => Backlog(accepted[o][k], delivered[o][k], queue[o][k])
        BY InOrderParts, Zenon DEF MsgInv
    <3>2. (gone[o] => gone'[o]) /\ (~gone'[o] => queue'[o][k] = queue[o][k])
        BY <1>2, Zenon
    <3> QED
        BY <3>1, <3>2, Zenon
  <2>2. LastIsAccepted'
      BY <1>2 DEF MsgInv, LastIsAccepted
  <2>3. AckedIsAccepted'
      BY <1>2, Zenon DEF MsgInv, AckedIsAccepted
  <2> QED
      BY <2>1, <2>2, <2>3, Zenon DEF MsgInv
<1>3. ASSUME NEW n, ClearLive(n), UNCHANGED <<accepted, delivered, acked>>
      PROVE  MsgInv'
  <2>1. \A o \in Objs : gone'[o] <=> gone[o] \/ o = n
      BY <1>3, Zenon DEF ClearLive
  <2>2. \A o \in Objs :
           /\ queue'[o] = IF o = n THEN EmptyQueues ELSE queue[o]
           /\ last'[o] = IF o = n THEN [k \in Kinds |-> NoEnv] ELSE last[o]
      BY <1>3, Zenon DEF ClearLive
  <2>3. \A o \in Objs, k \in Kinds : last'[o][k] \in {last[o][k], NoEnv}
      BY <2>2, Zenon
  <2>4. \A o \in Objs : ~gone'[o] => \A k \in Kinds : queue'[o][k] = queue[o][k]
      BY <2>1, <2>2, Zenon
  <2> QED
      BY <1>2, <1>3, <2>1, <2>3, <2>4, Zenon DEF ClearLive
<1>4. ASSUME DeleteAndDrop PROVE MsgInv'
    BY <1>3, <1>4, Zenon DEF DeleteAndDrop, DropLocked, histVars
<1>5. ASSUME NEW r \in Reqs, Post(r) PROVE MsgInv'
  <2>1. PICK o \in Objs, k \in Kinds, e \in Envs :
           /\ o = req[r].obj
           /\ UNCHANGED <<gone, delivered, joined, joinAcked>>
           /\ acked' \subseteq acked \cup {[obj |-> o, kind |-> k, env |-> e]}
           /\ PostRefused(o, k, e) \/ PostAccepted(o, k, e)
      BY <1>5, PostCases, Zenon
  <2>3. \A x \in Objs, j \in Kinds :
           /\ OrderAt(next[x][j], accepted[x][j], delivered[x][j])
           /\ ~gone[x] => Backlog(accepted[x][j], delivered[x][j], queue[x][j])
      BY InOrderParts, Zenon DEF MsgInv
  <2>4. e # NoEnv /\ e.seq \in Nat
      BY DEF Envs, NoEnv
  <2>5. CASE PostRefused(o, k, e)
    <3>1. InOrder'
        BY <2>1, <2>3, <2>5, InOrderParts, Zenon DEF PostRefused
    <3>4. LastIsAccepted'
        BY <2>5, Zenon DEF PostRefused, MsgInv, LastIsAccepted
    <3>2. ASSUME last[o][k] = e
          PROVE  /\ e.seq = Len(accepted[o][k]) /\ Len(accepted[o][k]) > 0
                 /\ accepted[o][k][e.seq] = e
      <4>1. /\ Len(accepted[o][k]) > 0
            /\ e = accepted[o][k][Len(accepted[o][k])]
          BY <2>4, <3>2, Zenon DEF MsgInv, LastIsAccepted
      <4>2. Len(accepted[o][k]) \in Nat
          BY <1>0
      <4>4. \A i \in 1 .. Len(accepted[o][k]) : accepted[o][k][i].seq = i
          BY <2>3, Zenon DEF OrderAt
      <4>3. e.seq = Len(accepted[o][k])
          BY <4>1, <4>2, <4>4
      <4> QED
          BY <4>1, <4>3, Zenon
    <3>3. AckedIsAccepted'
      <4> SUFFICES ASSUME NEW x \in acked'
                   PROVE  /\ x.env.seq <= Len(accepted[x.obj][x.kind])
                          /\ accepted[x.obj][x.kind][x.env.seq] = x.env
          BY <2>5, Zenon DEF AckedIsAccepted, PostRefused
      <4>1. CASE x \in acked
          BY <4>1, Zenon DEF MsgInv, AckedIsAccepted
      <4>2. CASE x = [obj |-> o, kind |-> k, env |-> e] /\ x \notin acked
        <5>1. last[o][k] = e
            BY <2>5, <4>2, Zenon DEF PostRefused
        <5>2. /\ e.seq <= Len(accepted[o][k]) /\ accepted[o][k][e.seq] = e
            BY <2>4, <3>2, <5>1
        <5> QED
            BY <4>2, <5>2, Zenon
      <4> QED
          BY <2>1, <4>1, <4>2, Zenon
    <3> QED
        BY <3>1, <3>3, <3>4, Zenon DEF MsgInv
  <2>6. CASE PostAccepted(o, k, e)
    <3> DEFINE a == accepted[o][k]
               v == Append(a, e)
    <3>1. /\ accepted'[o][k] = v
          /\ queue'[o][k] = Append(queue[o][k], e)
          /\ next'[o][k] = next[o][k] + 1
          /\ last'[o][k] = e
        BY <1>0, <2>6, Zenon DEF PostAccepted
    <3>2. \A x \in Objs, j \in Kinds : ~(x = o /\ j = k) =>
             /\ accepted'[x][j] = accepted[x][j]
             /\ queue'[x][j] = queue[x][j]
             /\ next'[x][j] = next[x][j]
             /\ last'[x][j] = last[x][j]
        BY <1>0, <2>6, Zenon DEF PostAccepted
    <3>3. /\ a \in Seq(Envs)
          /\ delivered[o][k] \in Seq(Envs)
          /\ queue[o][k] \in Seq(Envs)
        BY <1>0
    <3>4. e.seq = next[o][k] /\ ~gone[o]
        BY <2>6, Zenon DEF PostAccepted
    <3>9. /\ OrderAt(e.seq, a, delivered[o][k])
          /\ Backlog(a, delivered[o][k], queue[o][k])
        BY <2>3, <3>4, Zenon
    <3>5. /\ OrderAt(e.seq + 1, v, delivered[o][k])
          /\ Backlog(v, delivered[o][k], Append(queue[o][k], e))
          /\ Len(v) = Len(a) + 1
          /\ \A i \in 1 .. Len(a) : v[i] = a[i]
          /\ v[e.seq] = e
          /\ e.seq = Len(a) + 1
        BY <3>3, <3>9, AppendOrder
    <3>6. Len(a) \in Nat
        BY <3>3
    <3> HIDE DEF v
    <3>7. InOrder'
      <4>1. \A x \in Objs, j \in Kinds :
               /\ OrderAt(next'[x][j], accepted'[x][j], delivered[x][j])
               /\ ~gone[x] => Backlog(accepted'[x][j], delivered[x][j], queue'[x][j])
        <5> SUFFICES ASSUME NEW x \in Objs, NEW j \in Kinds
                     PROVE  /\ OrderAt(next'[x][j], accepted'[x][j], delivered[x][j])
                            /\ ~gone[x] => Backlog(accepted'[x][j], delivered[x][j],
                                                   queue'[x][j])
            BY Zenon
        <5>1. CASE x = o /\ j = k
            BY <3>1, <3>4, <3>5, <5>1, Zenon
        <5>2. CASE ~(x = o /\ j = k)
            BY <2>3, <3>2, <5>2, Zenon
        <5> QED
            BY <5>1, <5>2, Zenon
      <4> QED
          BY <2>1, <4>1, InOrderParts, Zenon
    <3>8. LastIsAccepted'
      <4> SUFFICES ASSUME NEW x \in Objs, NEW j \in Kinds, last'[x][j] # NoEnv
                   PROVE  /\ Len(accepted'[x][j]) > 0
                          /\ last'[x][j] = accepted'[x][j][Len(accepted'[x][j])]
          BY Zenon DEF LastIsAccepted
      <4>1. CASE x = o /\ j = k
          BY <3>1, <3>5, <3>6, <4>1
      <4>2. CASE ~(x = o /\ j = k)
          BY <3>2, <4>2 DEF MsgInv, LastIsAccepted
      <4> QED
          BY <4>1, <4>2, Zenon
    <3>10. AckedIsAccepted'
      <4> SUFFICES ASSUME NEW x \in acked'
                   PROVE  /\ x.env.seq <= Len(accepted'[x.obj][x.kind])
                          /\ accepted'[x.obj][x.kind][x.env.seq] = x.env
          BY Zenon DEF AckedIsAccepted
      <4>1. CASE x = [obj |-> o, kind |-> k, env |-> e]
          BY <3>1, <3>4, <3>5, <3>6, <4>1
      <4>2. CASE x \in acked /\ x # [obj |-> o, kind |-> k, env |-> e]
        <5>1. /\ x.obj \in Objs /\ x.kind \in Kinds /\ x.env.seq \in Nat \ {0}
              /\ x.env.seq <= Len(accepted[x.obj][x.kind])
              /\ accepted[x.obj][x.kind][x.env.seq] = x.env
            BY <1>0, <4>2 DEF MsgInv, AckedIsAccepted, Envs
        <5>2. CASE x.obj = o /\ x.kind = k
          <6>1. accepted'[x.obj][x.kind] = v /\ accepted[x.obj][x.kind] = a
              BY <3>1, <5>2, Zenon
          <6>2. x.env.seq \in 1 .. Len(a) /\ x.env.seq <= Len(v)
            <7>1. x.env.seq \in Nat \ {0} /\ x.env.seq <= Len(a) /\ Len(v) = Len(a) + 1
                BY <3>5, <5>1, <6>1, Zenon
            <7> QED
                BY <3>6, <7>1, Below, Zenon
          <6>3. v[x.env.seq] = a[x.env.seq]
              BY <3>5, <6>2, Zenon
          <6> QED
              BY <5>1, <6>1, <6>2, <6>3, Zenon
        <5>3. CASE ~(x.obj = o /\ x.kind = k)
            BY <3>2, <5>1, <5>3, ZenonT(30)
        <5> QED
            BY <5>2, <5>3, Zenon
      <4> QED
          BY <2>1, <4>1, <4>2, Zenon
    <3> QED
        BY <3>7, <3>8, <3>10, Zenon DEF MsgInv
  <2> QED
      BY <2>1, <2>5, <2>6, Zenon
<1>6. ASSUME NEW r \in Reqs, Poll(r) PROVE MsgInv'
  <2>1. UNCHANGED <<next, last, gone, accepted, acked>>
      BY <1>6, Zenon DEF Poll
  <2>2. CASE UNCHANGED <<queue, delivered>>
      BY <1>1, <2>1, <2>2, Zenon
  <2>3. CASE ~UNCHANGED <<queue, delivered>>
    <3> DEFINE o == req[r].obj
               k == req[r].kind
    <3>1. /\ ~gone[o] /\ k # "join"
          /\ delivered' = [delivered EXCEPT ![o][k] = @ \o queue[o][k]]
          /\ queue' = [queue EXCEPT ![o][k] = <<>>]
        BY <1>6, <2>3, Zenon DEF Poll, TakeAll
    <3>2. o \in Objs /\ k \in Kinds
      <4>1. req[r] \in Request /\ pc[r] = "poll"
          BY <1>6, Zenon DEF TypeInv, TypeOK, Poll
      <4> QED
          BY <3>1, <4>1, Zenon DEF TypeInv, SlotOK, Holding, Request
    <3> HIDE DEF o, k
    <3>3. \A x \in Objs, j \in Kinds :
             /\ OrderAt(next[x][j], accepted[x][j], delivered[x][j])
             /\ ~gone[x] => Backlog(accepted[x][j], delivered[x][j], queue[x][j])
        BY InOrderParts, Zenon DEF MsgInv
    <3>4. \A x \in Objs, j \in Kinds : ~(x = o /\ j = k) =>
             queue'[x][j] = queue[x][j] /\ delivered'[x][j] = delivered[x][j]
        BY <1>0, <3>1, <3>2, Zenon
    <3>5. queue'[o][k] = <<>> /\ delivered'[o][k] = accepted[o][k]
      <4>1. delivered'[o][k] = delivered[o][k] \o queue[o][k] /\ queue'[o][k] = <<>>
          BY <1>0, <3>1, <3>2, Zenon
      <4>2. accepted[o][k] = delivered[o][k] \o queue[o][k]
          BY <3>1, <3>2, <3>3, Zenon DEF Backlog
      <4> QED
          BY <4>1, <4>2, Zenon
    <3>6. accepted[o][k] \in Seq(Envs)
        BY <1>0, <3>2
    <3>7. Backlog(accepted[o][k], accepted[o][k], <<>>)
        BY <3>6, ConcatEmptySeq, Zenon DEF Backlog
    <3>8. OrderAt(next[o][k], accepted[o][k], accepted[o][k])
      <4>1. Len(accepted[o][k]) \in Nat
          BY <3>6
      <4>2. Len(accepted[o][k]) <= Len(accepted[o][k])
          BY <4>1
      <4>3. OrderAt(next[o][k], accepted[o][k], delivered[o][k])
          BY <3>2, <3>3, Zenon
      <4> QED
          BY <4>2, <4>3, Zenon DEF OrderAt
    <3>9. \A x \in Objs, j \in Kinds :
             /\ OrderAt(next[x][j], accepted[x][j], delivered'[x][j])
             /\ ~gone[x] => Backlog(accepted[x][j], delivered'[x][j], queue'[x][j])
      <4> SUFFICES ASSUME NEW x \in Objs, NEW j \in Kinds
                   PROVE  /\ OrderAt(next[x][j], accepted[x][j], delivered'[x][j])
                          /\ ~gone[x] => Backlog(accepted[x][j], delivered'[x][j],
                                                 queue'[x][j])
          BY Zenon
      <4>1. CASE x = o /\ j = k
          BY <3>5, <3>7, <3>8, <4>1, Zenon
      <4>2. CASE ~(x = o /\ j = k)
          BY <3>3, <3>4, <4>2, Zenon
      <4> QED
          BY <4>1, <4>2, Zenon
    <3>10. InOrder'
        BY <2>1, <3>9, InOrderParts, Zenon
    <3>11. LastIsAccepted'
        BY <2>1, Zenon DEF MsgInv, LastIsAccepted
    <3>12. AckedIsAccepted'
        BY <2>1, Zenon DEF MsgInv, AckedIsAccepted
    <3> QED
        BY <3>10, <3>11, <3>12, Zenon DEF MsgInv
  <2> QED
      BY <2>2, <2>3, Zenon
<1>7. CASE Restart
  <2>1. /\ UNCHANGED <<next, accepted, delivered, acked>>
        /\ queue' = [o \in Objs |-> EmptyQueues]
        /\ last' = [o \in Objs |-> [k \in Kinds |-> NoEnv]]
      BY <1>7, Zenon DEF Restart, histVars
  <2>2. \A o \in Objs : gone'[o] <=> gone[o] \/ o <= nobj
      BY <1>7, Zenon DEF Restart
  <2>3. \A o \in Objs : ~gone'[o] => Unregistered(o)
    <3>1. \A o \in Objs : o <= nobj \/ o > nobj
        BY DEF TypeInv, TypeOK, Objs
    <3> QED
        BY <2>2, <3>1, Zenon DEF Unregistered
  <2>4. \A o \in Objs : ~gone'[o] => \A k \in Kinds : queue'[o][k] = queue[o][k]
      BY <2>1, <2>3, Zenon DEF RegInv, Blank, EmptyQueues
  <2>5. \A o \in Objs, k \in Kinds : last'[o][k] \in {last[o][k], NoEnv}
      BY <2>1, Zenon
  <2> QED
      BY <1>2, <2>1, <2>2, <2>4, <2>5, Zenon
<1>8. ASSUME NEW r \in Reqs,
             \/ Arrive(r) \/ Reread(r) \/ Get(r) \/ CreateSession(r)
             \/ JoinCheck(r) \/ Join(r) \/ PostCheck(r)
             \/ Wake(r) \/ ExpiryTimer(r) \/ Reject(r) \/ Timeout(r) \/ Cancel(r)
      PROVE  MsgInv'
    BY <1>1, <1>8, Zenon
    DEF Arrive, Reread, Get, CreateSession, JoinCheck, Join, PostCheck, Wake,
        ExpiryTimer, Reject, Timeout, Cancel, liveVars, histVars
<1>9. ASSUME NEW r \in Reqs, Evict(r) \/ Delete(r) \/ PollExpired(r)
      PROVE  MsgInv'
    BY <1>1, <1>4, <1>9, Zenon DEF Evict, Delete, PollExpired, liveVars, histVars
<1>10. ASSUME NEW r \in Reqs, Register(r) PROVE MsgInv'
    BY <1>3, <1>10, Zenon DEF Register, DropLocked, histVars
<1>11. CASE Sweep \/ StoreSweep \/ Tick \/ UNCHANGED vars
    BY <1>1, <1>4, <1>11, Zenon
    DEF Sweep, StoreSweep, Tick, vars, relayVars, liveVars, slotVars, histVars
<1> QED
    BY <1>5, <1>6, <1>7, <1>8, <1>9, <1>10, <1>11, Zenon DEF Next, Handle

\* The envelopes of every session are accepted in sequence, delivered in that
\* order and at most once, and while the session lives none is lost.
THEOREM InOrderHolds == Spec => []InOrder
<1>1. Init => TypeInv /\ RegInv /\ MsgInv
    BY InitType, InitReg, InitMsg, Zenon
<1>2. TypeInv /\ RegInv /\ MsgInv /\ [Next]_vars => (TypeInv /\ RegInv /\ MsgInv)'
    BY StepType, StepReg, StepMsg, Zenon
<1>3. MsgInv => InOrder
    BY Zenon DEF MsgInv
<1> QED
    BY <1>1, <1>2, <1>3, PTL DEF Spec

\* A 202 always stands for an accepted envelope, whoever else posts.
THEOREM AckedIsAcceptedHolds == Spec => []AckedIsAccepted
<1>1. Init => TypeInv /\ RegInv /\ MsgInv
    BY InitType, InitReg, InitMsg
<1>2. TypeInv /\ RegInv /\ MsgInv /\ [Next]_vars => (TypeInv /\ RegInv /\ MsgInv)'
    BY StepType, StepReg, StepMsg
<1>3. MsgInv => AckedIsAccepted
    BY Zenon DEF MsgInv
<1> QED
    BY <1>1, <1>2, <1>3, PTL DEF Spec

-----------------------------------------------------------------------------
(* Waits, joins and metadata.                                              *)

\* A step that puts no poll to sleep keeps NoLostWakeup when it wakes every
\* waiter of each liveSession it changes.
LEMMA WaitStep ==
    ASSUME TypeInv, NoLostWakeup, NEW S,
           \A t \in Reqs : pc'[t] = "wait" =>
              pc[t] = "wait" /\ req'[t] = req[t] /\ (t \in woken => t \in woken'),
           \A o \in Objs \ S :
              gone'[o] = gone[o] /\ joined'[o] = joined[o] /\ queue'[o] = queue[o],
           \A t \in Reqs : pc[t] = "wait" /\ req[t].obj \in S => t \in woken'
    PROVE  NoLostWakeup'
<1> SUFFICES ASSUME NEW t \in Reqs, pc'[t] = "wait", t \notin woken'
             PROVE  /\ ~gone'[req'[t].obj]
                    /\ ~(IF req'[t].kind = "join" THEN joined'[req'[t].obj] # Nil
                         ELSE queue'[req'[t].obj][req'[t].kind] # <<>>)
    BY Zenon DEF NoLostWakeup, HasAnswer
<1>1. pc[t] = "wait" /\ req'[t] = req[t] /\ t \notin woken /\ req[t].obj \notin S
    OBVIOUS
<1>2. req[t].obj \in Objs
    BY <1>1, Zenon DEF TypeInv, SlotOK, Holding
<1>3. /\ ~gone[req[t].obj]
      /\ ~(IF req[t].kind = "join" THEN joined[req[t].obj] # Nil
           ELSE queue[req[t].obj][req[t].kind] # <<>>)
    BY <1>1, Zenon DEF NoLostWakeup, HasAnswer
<1> QED
    BY <1>1, <1>2, <1>3

\* Every step keeps a waiting poll from missing a message or the end.
LEMMA StepWait == TypeInv /\ TypeInv' /\ NoLostWakeup /\ [Next]_vars => NoLostWakeup'
<1> SUFFICES ASSUME TypeInv, TypeInv', NoLostWakeup, [Next]_vars PROVE NoLostWakeup'
    OBVIOUS
<1> USE RelayAssumption
<1>0. /\ pc \in [Reqs -> Labels] /\ req \in [Reqs -> Request]
      /\ joined \in [Objs -> Joiners \cup {Nil}]
      /\ queue \in [Objs -> [Kinds -> Seq(Envs)]]
      /\ gone \in [Objs -> BOOLEAN]
    BY Zenon DEF TypeInv, TypeOK
<1>1. ASSUME UNCHANGED <<gone, joined, queue>>,
             \A t \in Reqs : pc'[t] = "wait" =>
                pc[t] = "wait" /\ req'[t] = req[t] /\ (t \in woken => t \in woken')
      PROVE  NoLostWakeup'
  <2> DEFINE None == {}
  <2>1. \A o \in Objs \ None :
           gone'[o] = gone[o] /\ joined'[o] = joined[o] /\ queue'[o] = queue[o]
      BY <1>1, Zenon
  <2>2. \A t \in Reqs : pc[t] = "wait" /\ req[t].obj \in None => t \in woken'
      OBVIOUS
  <2> HIDE DEF None
  <2> QED
      BY <1>1, <2>1, <2>2, WaitStep, Zenon
<1>2. ASSUME NEW r \in Reqs, NEW label, label # "wait", Done(r) \/ Goto(r, label)
      PROVE  \A t \in Reqs : pc'[t] = "wait" =>
                t # r /\ pc[t] = "wait" /\ req'[t] = req[t]
    BY <1>0, <1>2, Zenon DEF Done, Goto
<1>3. ASSUME NEW n, DropLocked(n), joined' = joined,
             \A t \in Reqs : pc'[t] = "wait" => pc[t] = "wait" /\ req'[t] = req[t]
      PROVE  NoLostWakeup'
  <2>1. \A o \in Objs \ {n} :
           gone'[o] = gone[o] /\ joined'[o] = joined[o] /\ queue'[o] = queue[o]
      BY <1>0, <1>3, Zenon DEF DropLocked, ClearLive
  <2>2. \A t \in Reqs : pc[t] = "wait" /\ req[t].obj \in {n} => t \in woken'
      BY <1>3, Zenon DEF DropLocked, Notify, Waiters
  <2>3. \A t \in Reqs : t \in woken => t \in woken'
      BY <1>3, Zenon DEF DropLocked, Notify
  <2> QED
      BY <1>3, <2>1, <2>2, <2>3, WaitStep, Zenon
<1>4. ASSUME DeleteAndDrop,
             \A t \in Reqs : pc'[t] = "wait" => pc[t] = "wait" /\ req'[t] = req[t]
      PROVE  NoLostWakeup'
    BY <1>3, <1>4, Zenon DEF DeleteAndDrop, DropLocked, ClearLive
<1>5. ASSUME NEW r \in Reqs, Arrive(r) PROVE NoLostWakeup'
  <2>1. pc'[r] # "wait" /\ \A t \in Reqs \ {r} : pc'[t] = pc[t] /\ req'[t] = req[t]
      BY <1>0, <1>5, Zenon DEF Arrive, Routed
  <2> QED
      BY <1>1, <1>5, <2>1, Zenon DEF Arrive, liveVars
<1>6. ASSUME NEW r \in Reqs, Reread(r) PROVE NoLostWakeup'
  <2>1. PICK label \in {"evict", "create", "get"} : Done(r) \/ Goto(r, label)
      BY <1>6, Zenon DEF Reread, Routed
  <2>2. label # "wait"
      OBVIOUS
  <2> QED
      BY <1>1, <1>2, <1>6, <2>1, <2>2, Zenon DEF Reread, liveVars
<1>7. ASSUME NEW r \in Reqs, Evict(r) \/ Delete(r) \/ PollExpired(r)
      PROVE  NoLostWakeup'
  <2>1. /\ Done(r) \/ Goto(r, "create")
        /\ DeleteAndDrop \/ UNCHANGED <<gone, joined, queue, woken>>
      BY <1>7, Zenon DEF Evict, Delete, PollExpired, liveVars
  <2>2. \A t \in Reqs : pc'[t] = "wait" => pc[t] = "wait" /\ req'[t] = req[t]
      BY <1>2, <2>1, Zenon
  <2> QED
      BY <1>1, <1>4, <2>1, <2>2, Zenon
<1>8. ASSUME NEW r \in Reqs, Get(r) PROVE NoLostWakeup'
  <2>1. UNCHANGED <<gone, joined, queue, woken>>
      BY <1>8, Zenon DEF Get, liveVars
  <2>2. CASE registry = 0
      BY <1>1, <1>2, <1>8, <2>1, <2>2, Zenon DEF Get
  <2>3. CASE registry # 0
    <3>1. req[r].op \in Ops
        BY <1>0, Zenon DEF Request
    <3>2. /\ pc' = [pc EXCEPT ![r] = CASE req[r].op = "join" -> "joinCheck"
                                       [] req[r].op = "post" -> "postCheck"
                                       [] OTHER -> req[r].op]
          /\ \A t \in Reqs \ {r} : req'[t] = req[t]
        BY <1>0, <1>8, <2>3, Zenon DEF Get
    <3>3. pc'[r] # "wait" /\ \A t \in Reqs \ {r} : pc'[t] = pc[t]
        BY <1>0, <3>1, <3>2, Zenon DEF Ops
    <3> QED
        BY <1>1, <2>1, <3>2, <3>3, Zenon
  <2> QED
      BY <2>2, <2>3, Zenon
<1>9. ASSUME NEW r \in Reqs, CreateSession(r) PROVE NoLostWakeup'
  <2>1. pc'[r] # "wait" /\ \A t \in Reqs \ {r} : pc'[t] = pc[t] /\ req'[t] = req[t]
      BY <1>0, <1>9, Zenon DEF CreateSession, Done
  <2> QED
      BY <1>1, <1>9, <2>1, Zenon DEF CreateSession, liveVars
<1>10. ASSUME NEW r \in Reqs, Register(r) PROVE NoLostWakeup'
    BY <1>2, <1>3, <1>10, Zenon DEF Register, DropLocked, ClearLive
<1>11. ASSUME NEW r \in Reqs, JoinCheck(r) \/ PostCheck(r) \/ Reject(r)
       PROVE  NoLostWakeup'
  <2>1. /\ Done(r) \/ Goto(r, "join") \/ Goto(r, "post")
        /\ UNCHANGED <<gone, joined, queue, woken>>
      BY <1>11, Zenon DEF JoinCheck, PostCheck, Reject, liveVars
  <2> QED
      BY <1>1, <1>2, <2>1, SMTT(30)
<1>12. ASSUME NEW r \in Reqs, Join(r) PROVE NoLostWakeup'
  <2> DEFINE n == req[r].obj
  <2>1. /\ Done(r) /\ UNCHANGED <<gone, queue>>
        /\ \/ UNCHANGED <<joined, woken>>
           \/ /\ joined' = [joined EXCEPT ![n] = req[r].who]
              /\ woken' = woken \cup Waiters(n)
      BY <1>12, Zenon DEF Join, Notify
  <2>2. CASE UNCHANGED <<joined, woken>>
      BY <1>1, <1>2, <2>1, <2>2
  <2>3. CASE /\ joined' = [joined EXCEPT ![n] = req[r].who]
             /\ woken' = woken \cup Waiters(n)
    <3>1. \A o \in Objs \ {n} : joined'[o] = joined[o]
        BY <1>0, <2>3, Zenon
    <3>2. \A t \in Reqs : pc[t] = "wait" /\ req[t].obj \in {n} => t \in woken'
        BY <2>3, Zenon DEF Waiters
    <3>3. \A t \in Reqs : pc'[t] = "wait" =>
             pc[t] = "wait" /\ req'[t] = req[t] /\ (t \in woken => t \in woken')
        BY <1>2, <2>1, <2>3
    <3> QED
        BY <2>1, <3>1, <3>2, <3>3, WaitStep, Zenon
  <2> QED
      BY <2>1, <2>2, <2>3, Zenon
<1>13. ASSUME NEW r \in Reqs, Post(r) PROVE NoLostWakeup'
  <2>1. PICK n \in Objs, k \in Kinds, e \in Envs :
           /\ UNCHANGED <<gone, delivered, joined, joinAcked>>
           /\ PostRefused(n, k, e) \/ PostAccepted(n, k, e)
      BY <1>13, PostCases, Zenon
  <2>2. Done(r)
      BY <1>13, Zenon DEF Post
  <2>3. CASE PostRefused(n, k, e)
      BY <1>1, <1>2, <2>1, <2>2, <2>3, Zenon DEF PostRefused
  <2>4. CASE PostAccepted(n, k, e)
    <3>1. \A o \in Objs \ {n} : queue'[o] = queue[o]
        BY <1>0, <2>4, Zenon DEF PostAccepted
    <3>2. \A t \in Reqs : pc[t] = "wait" /\ req[t].obj \in {n} => t \in woken'
        BY <2>4, Zenon DEF PostAccepted, Waiters
    <3>3. \A t \in Reqs : pc'[t] = "wait" =>
             pc[t] = "wait" /\ req'[t] = req[t] /\ (t \in woken => t \in woken')
        BY <1>2, <2>2, <2>4, Zenon DEF PostAccepted
    <3> QED
        BY <2>1, <3>1, <3>2, <3>3, WaitStep, Zenon
  <2> QED
      BY <2>1, <2>3, <2>4, Zenon
<1>14. ASSUME NEW r \in Reqs, Poll(r) PROVE NoLostWakeup'
  <2> DEFINE n == req[r].obj
             k == req[r].kind
  <2>1. /\ UNCHANGED <<gone, joined>>
        /\ \/ /\ Done(r) \/ Goto(r, "pollExpired")
              /\ UNCHANGED <<queue, woken>>
           \/ Done(r) /\ TakeAll(n, k)
           \/ /\ ~gone[n] /\ ~HasAnswer(n, k)
              /\ Goto(r, "wait")
              /\ UNCHANGED <<queue, woken>>
      BY <1>14, Zenon DEF Poll
  <2>2. CASE (Done(r) \/ Goto(r, "pollExpired")) /\ UNCHANGED <<queue, woken>>
      BY <1>1, <1>2, <2>1, <2>2, Zenon
  <2>3. CASE Done(r) /\ TakeAll(n, k)
    <3>1. \A o \in Objs \ {n} : queue'[o] = queue[o]
        BY <1>0, <2>3, Zenon DEF TakeAll
    <3>2. \A t \in Reqs : pc[t] = "wait" /\ req[t].obj \in {n} => t \in woken'
        BY <2>3, Zenon DEF TakeAll, Notify, Waiters
    <3>3. \A t \in Reqs : pc'[t] = "wait" =>
             pc[t] = "wait" /\ req'[t] = req[t] /\ (t \in woken => t \in woken')
      <4>1. \A t \in Reqs : pc'[t] = "wait" => pc[t] = "wait" /\ req'[t] = req[t]
          BY <1>0, <2>3, Zenon DEF Done
      <4>2. woken \subseteq woken'
          BY <2>3, Zenon DEF TakeAll, Notify
      <4> QED
          BY <4>1, <4>2, Zenon
    <3> QED
        BY <2>1, <3>1, <3>2, <3>3, WaitStep, Zenon
  <2>4. CASE ~gone[n] /\ ~HasAnswer(n, k) /\ Goto(r, "wait") /\ UNCHANGED <<queue, woken>>
    <3>1. req' = req /\ \A t \in Reqs \ {r} : pc'[t] = pc[t]
        BY <1>0, <2>4, Zenon DEF Goto
    <3>2. \A t \in Reqs : pc'[t] = "wait" /\ t \notin woken =>
             ~gone[req[t].obj] /\ ~HasAnswer(req[t].obj, req[t].kind)
        BY <2>4, <3>1, Zenon DEF NoLostWakeup
    <3>3. \A o, j : HasAnswer(o, j)' <=> HasAnswer(o, j)
        BY <2>1, <2>4, Zenon DEF HasAnswer
    <3> QED
        BY <2>1, <2>4, <3>1, <3>2, <3>3, Zenon DEF NoLostWakeup
  <2> QED
      BY <2>1, <2>2, <2>3, <2>4, SMTT(30)
<1>15. ASSUME NEW r \in Reqs, Wake(r) \/ ExpiryTimer(r) \/ Timeout(r) \/ Cancel(r)
       PROVE  NoLostWakeup'
  <2>1. /\ UNCHANGED <<gone, joined, queue>>
        /\ woken' = woken \ {r}
        /\ pc'[r] # "wait"
        /\ \A t \in Reqs \ {r} : pc'[t] = pc[t] /\ req'[t] = req[t]
      BY <1>0, <1>15, Zenon
      DEF Wake, ExpiryTimer, Timeout, Cancel, Goto, Done, liveVars
  <2> QED
      BY <1>1, <2>1, Zenon
<1>16. CASE Sweep
  <2>1. /\ UNCHANGED <<pc, req>>
        /\ DeleteAndDrop \/ UNCHANGED <<gone, joined, queue, woken>>
      BY <1>16, Zenon DEF Sweep, liveVars
  <2> QED
      BY <1>1, <1>4, <2>1, Zenon
<1>17. CASE StoreSweep \/ Tick \/ UNCHANGED vars
    BY <1>1, <1>17, Zenon DEF StoreSweep, Tick, vars, relayVars, liveVars, slotVars
<1>18. CASE Restart
    BY <1>18, Zenon DEF Restart, NoLostWakeup
<1> QED
    BY <1>5, <1>6, <1>7, <1>8, <1>9, <1>10, <1>11, <1>12, <1>13, <1>14, <1>15,
       <1>16, <1>17, <1>18, Zenon
    DEF Next, Handle

\* No poll sleeps beside something it could answer with.
THEOREM NoLostWakeupHolds == Spec => []NoLostWakeup
<1>1. Init => TypeInv /\ NoLostWakeup
    BY InitType, Zenon DEF Init, NoLostWakeup
<1>2. TypeInv /\ NoLostWakeup /\ [Next]_vars => (TypeInv /\ NoLostWakeup)'
    BY StepType, StepWait, Zenon
<1> QED
    BY <1>1, <1>2, PTL DEF Spec

-----------------------------------------------------------------------------
(* Joining, and the store.                                                 *)

\* The join a client was told of is the one the relay keeps.
THEOREM FirstJoinRetainedHolds == Spec => []FirstJoinRetained
<1>1. Init => TypeInv /\ FirstJoinRetained
    BY InitType, Zenon DEF Init, FirstJoinRetained
<1>2. TypeInv /\ FirstJoinRetained /\ [Next]_vars => (TypeInv /\ FirstJoinRetained)'
  <2> SUFFICES ASSUME TypeInv, FirstJoinRetained, [Next]_vars
               PROVE  FirstJoinRetained'
      BY StepType, Zenon
  <2>1. ASSUME NEW r \in Reqs, Join(r) PROVE FirstJoinRetained'
    <3>1. CASE UNCHANGED <<joined, joinAcked>>
        BY <3>1, Zenon DEF FirstJoinRetained
    <3>2. CASE ~UNCHANGED <<joined, joinAcked>>
      <4> DEFINE n == req[r].obj
      <4>1. /\ joined[n] = Nil
            /\ joined' = [joined EXCEPT ![n] = req[r].who]
            /\ joinAcked' = [joinAcked EXCEPT ![n] = @ \cup {req[r].who}]
          BY <2>1, <3>2, Zenon DEF Join, JoinOpen
      <4>2. /\ n \in Objs /\ joined \in [Objs -> Joiners \cup {Nil}]
            /\ joinAcked \in [Objs -> SUBSET Joiners]
          BY <2>1, Zenon DEF Join, TypeInv, TypeOK, SlotOK, Holding
      <4>3. joinAcked[n] = {}
          BY <4>1, <4>2, RelayAssumption DEF FirstJoinRetained
      <4> QED
          BY <4>1, <4>2, <4>3, Zenon DEF FirstJoinRetained
    <3> QED
        BY <3>1, <3>2, Zenon
  <2>2. ASSUME NEW r \in Reqs, Handle(r), ~Join(r)
        PROVE  UNCHANGED <<joined, joinAcked>>
      BY <2>2, Zenon
      DEF Handle, Reread, Evict, Get, Delete, CreateSession, Register, JoinCheck,
          PostCheck, Post, Poll, PollExpired, Wake, ExpiryTimer, DeleteAndDrop,
          DropLocked, ClearLive, liveVars, histVars
  <2>3. CASE \/ \E r \in Reqs : Arrive(r) \/ Reject(r) \/ Timeout(r) \/ Cancel(r)
             \/ Sweep \/ StoreSweep \/ Tick \/ Restart \/ UNCHANGED vars
    <3>1. UNCHANGED <<joined, joinAcked>>
        BY <2>3, Zenon
        DEF Arrive, Reject, Timeout, Cancel, Sweep, StoreSweep, Tick, Restart,
            DeleteAndDrop, DropLocked, ClearLive, vars, liveVars, histVars
    <3> QED
        BY <3>1, Zenon DEF FirstJoinRetained
  <2> QED
      BY <2>1, <2>2, <2>3, Zenon DEF Next, FirstJoinRetained
<1> QED
    BY <1>1, <1>2, PTL DEF Spec

\* Stored metadata is never from a later start of the process.
StoreInv == StoredHasLive /\ store.boot <= boot

\* Every step keeps the stored metadata tied to its live session.
LEMMA StepStore == TypeInv /\ RegInv /\ StoreInv /\ [Next]_vars => StoreInv'
<1> SUFFICES ASSUME TypeInv, RegInv, StoreInv, [Next]_vars PROVE StoreInv'
    BY Zenon
<1> USE RelayAssumption
<1>0. /\ store \in [expires : Nat, boot : Nat] /\ boot \in Nat
      /\ pc \in [Reqs -> Labels] /\ req \in [Reqs -> Request]
    BY Zenon DEF TypeInv, TypeOK
\* Nothing leaves "register" and the live session stays.
<1>1. ASSUME UNCHANGED <<store, boot>>, registry # 0 => registry' # 0,
             \A t \in Reqs : pc[t] = "register" => pc'[t] = "register"
      PROVE  StoreInv'
    BY <1>1, Zenon DEF StoreInv, StoredHasLive
<1>2. ASSUME store' = NoMeta, boot' \in Nat
      PROVE  StoreInv'
    BY <1>2 DEF StoreInv, StoredHasLive, NoMeta
<1>3. ASSUME DeleteAndDrop PROVE StoreInv'
    BY <1>0, <1>2, <1>3, Zenon DEF DeleteAndDrop
<1>4. ASSUME NEW r \in Reqs,
             \/ Arrive(r) \/ Reread(r) \/ Get(r) \/ JoinCheck(r) \/ Join(r)
             \/ PostCheck(r) \/ Post(r) \/ Poll(r) \/ Wake(r) \/ ExpiryTimer(r)
             \/ Reject(r) \/ Timeout(r) \/ Cancel(r)
      PROVE  StoreInv'
  <2>1. pc[r] # "register" /\ UNCHANGED <<store, boot, registry>>
      BY <1>4, Zenon
      DEF Arrive, Reread, Get, JoinCheck, Join, PostCheck, Post, Poll, Wake,
          ExpiryTimer, Reject, Timeout, Cancel, relayVars
  <2>2. \A t \in Reqs \ {r} : pc'[t] = pc[t]
      BY <1>0, <1>4, Zenon
      DEF Arrive, Reread, Get, JoinCheck, Join, PostCheck, Post, Poll, Wake,
          ExpiryTimer, Reject, Timeout, Cancel, Goto, Done
  <2> QED
      BY <1>1, <2>1, <2>2, Zenon
<1>5. ASSUME NEW r \in Reqs, Evict(r) PROVE StoreInv'
    BY <1>3, <1>5, Zenon DEF Evict
<1>6. ASSUME NEW r \in Reqs, Delete(r) \/ PollExpired(r) PROVE StoreInv'
  <2>1. CASE DeleteAndDrop
      BY <1>3, <2>1, Zenon
  <2>2. CASE UNCHANGED <<store, boot, registry>>
    <3>1. pc[r] # "register" /\ \A t \in Reqs \ {r} : pc'[t] = pc[t]
        BY <1>0, <1>6, Zenon DEF Delete, PollExpired, Done
    <3> QED
        BY <1>1, <2>2, <3>1, Zenon
  <2> QED
      BY <1>6, <2>1, <2>2, Zenon DEF Delete, PollExpired
<1>7. ASSUME NEW r \in Reqs, CreateSession(r) PROVE StoreInv'
  <2>1. CASE store # NoMeta
    <3>1. /\ UNCHANGED <<store, boot, registry>> /\ pc[r] # "register"
          /\ \A t \in Reqs \ {r} : pc'[t] = pc[t]
        BY <1>0, <1>7, <2>1, Zenon DEF CreateSession, Done
    <3> QED
        BY <1>1, <3>1, Zenon
  <2>2. CASE store = NoMeta
    <3>1. pc'[r] = "register" /\ store'.boot = boot /\ boot' = boot
        BY <1>0, <1>7, <2>2 DEF CreateSession
    <3> QED
        BY <1>0, <3>1 DEF StoreInv, StoredHasLive
  <2> QED
      BY <2>1, <2>2, Zenon
<1>8. ASSUME NEW r \in Reqs, Register(r) PROVE StoreInv'
  <2>1. UNCHANGED <<store, boot>> /\ registry' = req[r].obj /\ req[r].obj \in Objs
      BY <1>8, Zenon DEF Register, TypeInv, SlotOK
  <2>2. registry' # 0
      BY <2>1 DEF Objs
  <2> QED
      BY <2>1, <2>2, Zenon DEF StoreInv, StoredHasLive
<1>9. CASE Sweep
    BY <1>1, <1>3, <1>9, Zenon DEF Sweep
<1>10. CASE StoreSweep
  <2>1. UNCHANGED <<boot, registry, pc>> /\ (store' = NoMeta \/ store' = store)
      BY <1>10, Zenon DEF StoreSweep, slotVars
  <2> QED
      BY <1>0, <1>1, <1>2, <2>1, Zenon
<1>11. CASE Restart
  <2>1. boot' = boot + 1 /\ (store' = store \/ store' = NoMeta)
      BY <1>11, Zenon DEF Restart
  <2>2. store'.boot <= boot' /\ store'.boot # boot'
      BY <1>0, <2>1 DEF StoreInv, NoMeta
  <2> QED
      BY <2>2, Zenon DEF StoreInv, StoredHasLive
<1>12. CASE Tick \/ UNCHANGED vars
    BY <1>1, <1>12, Zenon DEF Tick, vars, relayVars, slotVars
<1> QED
    BY <1>4, <1>5, <1>6, <1>7, <1>8, <1>9, <1>10, <1>11, <1>12, Zenon DEF Next, Handle

\* An ID is never occupied by metadata of this process with no live session
\* behind it.
THEOREM StoredHasLiveHolds == Spec => []StoredHasLive
<1>1. Init => TypeInv /\ RegInv /\ StoreInv
  <2>1. Init => StoreInv
      BY DEF Init, StoreInv, StoredHasLive, NoMeta
  <2> QED
      BY <2>1, InitType, InitReg, Zenon
<1>2. TypeInv /\ RegInv /\ StoreInv /\ [Next]_vars
      => (TypeInv /\ RegInv /\ StoreInv)'
    BY StepType, StepReg, StepStore, Zenon
<1>3. StoreInv => StoredHasLive
    BY Zenon DEF StoreInv
<1> QED
    BY <1>1, <1>2, <1>3, PTL DEF Spec

-----------------------------------------------------------------------------
(* Directions.                                                             *)

\* Every step does one of four things to a direction of a session: nothing,
\* drop the session, accept the next envelope, or hand out the backlog.
DirNext(o, k) ==
    \/ UNCHANGED <<accepted[o][k], delivered[o][k], gone[o]>>
    \/ gone'[o] /\ UNCHANGED <<accepted[o][k], delivered[o][k]>>
    \/ /\ ~gone[o]
       /\ \E e \in Envs : e.seq = Len(accepted[o][k]) + 1
                          /\ accepted'[o][k] = Append(accepted[o][k], e)
       /\ UNCHANGED <<delivered[o][k], gone[o]>>
    \/ /\ ~gone[o]
       /\ delivered'[o][k] = accepted[o][k]
       /\ UNCHANGED <<accepted[o][k], gone[o]>>

\* Every step is a step of the channel of a direction, or leaves it alone.
LEMMA StepDir ==
    ASSUME TypeInv, RegInv, MsgInv, [Next]_vars
    PROVE  \A o \in Objs, k \in Kinds : DirNext(o, k)
<1> USE RelayAssumption
<1>0. /\ queue \in [Objs -> [Kinds -> Seq(Envs)]]
      /\ accepted \in [Objs -> [Kinds -> Seq(Envs)]]
      /\ delivered \in [Objs -> [Kinds -> Seq(Envs)]]
      /\ gone \in [Objs -> BOOLEAN]
    BY Zenon DEF TypeInv, TypeOK
<1>1. \A o \in Objs, k \in Kinds :
         /\ OrderAt(next[o][k], accepted[o][k], delivered[o][k])
         /\ ~gone[o] => Backlog(accepted[o][k], delivered[o][k], queue[o][k])
    BY InOrderParts, Zenon DEF MsgInv
<1>2. ASSUME UNCHANGED <<accepted, delivered, gone>>
      PROVE  \A o \in Objs, k \in Kinds : DirNext(o, k)
    BY <1>2, Zenon DEF DirNext
<1>3. ASSUME NEW n, ClearLive(n), UNCHANGED <<accepted, delivered>>
      PROVE  \A o \in Objs, k \in Kinds : DirNext(o, k)
  <2>1. \A o \in Objs : IF o = n THEN gone'[o] ELSE gone'[o] = gone[o]
      BY <1>0, <1>3, Zenon DEF ClearLive
  <2> QED
      BY <1>3, <2>1, Zenon DEF DirNext
<1>4. ASSUME DeleteAndDrop PROVE \A o \in Objs, k \in Kinds : DirNext(o, k)
    BY <1>3, <1>4, Zenon DEF DeleteAndDrop, DropLocked, histVars
<1>5. ASSUME NEW r \in Reqs, Post(r)
      PROVE  \A o \in Objs, k \in Kinds : DirNext(o, k)
  <2>1. PICK n \in Objs, j \in Kinds, e \in Envs :
           /\ UNCHANGED <<gone, delivered, joined, joinAcked>>
           /\ PostRefused(n, j, e) \/ PostAccepted(n, j, e)
      BY <1>5, PostCases, Zenon
  <2>2. CASE PostRefused(n, j, e)
      BY <1>2, <2>1, <2>2, Zenon DEF PostRefused
  <2>3. CASE PostAccepted(n, j, e)
    <3>1. accepted' = [accepted EXCEPT ![n][j] = Append(@, e)] /\ ~gone[n]
        BY <2>3, Zenon DEF PostAccepted
    <3>2. e.seq = Len(accepted[n][j]) + 1
        BY <1>1, <2>3, Zenon DEF PostAccepted, OrderAt
    <3>3. DirNext(n, j)
      <4>1. accepted'[n][j] = Append(accepted[n][j], e)
          BY <1>0, <3>1, Zenon
      <4> QED
          BY <2>1, <3>1, <3>2, <4>1, Zenon DEF DirNext
    <3>4. \A o \in Objs, k \in Kinds : ~(o = n /\ k = j) =>
             accepted'[o][k] = accepted[o][k]
        BY <1>0, <3>1, Zenon
    <3>5. \A o \in Objs, k \in Kinds : ~(o = n /\ k = j) => DirNext(o, k)
        BY <2>1, <3>4, Zenon DEF DirNext
    <3> QED
        BY <3>3, <3>5, Zenon
  <2> QED
      BY <2>1, <2>2, <2>3, Zenon
<1>6. ASSUME NEW r \in Reqs, Poll(r)
      PROVE  \A o \in Objs, k \in Kinds : DirNext(o, k)
  <2>1. UNCHANGED <<gone, accepted>>
      BY <1>6, Zenon DEF Poll
  <2>2. CASE UNCHANGED delivered
      BY <1>2, <2>1, <2>2, Zenon
  <2>3. CASE ~UNCHANGED delivered
    <3>1. /\ ~gone[req[r].obj] /\ req[r].kind # "join"
          /\ delivered' = [delivered EXCEPT ![req[r].obj][req[r].kind] =
                               @ \o queue[req[r].obj][req[r].kind]]
        BY <1>6, <2>3, Zenon DEF Poll, TakeAll
    <3>2. req[r].obj \in Objs /\ req[r].kind \in Kinds
      <4>1. req[r] \in Request /\ pc[r] = "poll"
          BY <1>6, Zenon DEF TypeInv, TypeOK, Poll
      <4> QED
          BY <3>1, <4>1, Zenon DEF TypeInv, SlotOK, Holding, Request
    <3>3. PICK n \in Objs, j \in Kinds :
             /\ ~gone[n]
             /\ delivered' = [delivered EXCEPT ![n][j] = @ \o queue[n][j]]
        BY <3>1, <3>2, Zenon
    <3>4. DirNext(n, j)
      <4>1. delivered'[n][j] = delivered[n][j] \o queue[n][j]
          BY <1>0, <3>3, Zenon
      <4>2. accepted[n][j] = delivered[n][j] \o queue[n][j]
          BY <1>1, <3>3, Zenon DEF Backlog
      <4> QED
          BY <2>1, <3>3, <4>1, <4>2, Zenon DEF DirNext
    <3>5. \A o \in Objs, k \in Kinds : ~(o = n /\ k = j) =>
             delivered'[o][k] = delivered[o][k]
        BY <1>0, <3>3, Zenon
    <3>6. \A o \in Objs, k \in Kinds : ~(o = n /\ k = j) => DirNext(o, k)
        BY <2>1, <3>5, Zenon DEF DirNext
    <3> QED
        BY <3>4, <3>6, Zenon
  <2> QED
      BY <2>2, <2>3, Zenon
<1>7. CASE Restart
  <2>1. \A o \in Objs : IF gone[o] \/ o <= nobj THEN gone'[o] ELSE gone'[o] = gone[o]
      BY <1>0, <1>7, Zenon DEF Restart
  <2> QED
      BY <1>7, <2>1, Zenon DEF Restart, DirNext, histVars
<1>8. ASSUME NEW r \in Reqs,
             \/ Arrive(r) \/ Reread(r) \/ Get(r) \/ CreateSession(r)
             \/ JoinCheck(r) \/ Join(r) \/ PostCheck(r)
             \/ Wake(r) \/ ExpiryTimer(r) \/ Reject(r) \/ Timeout(r) \/ Cancel(r)
      PROVE  \A o \in Objs, k \in Kinds : DirNext(o, k)
    BY <1>2, <1>8, Zenon
    DEF Arrive, Reread, Get, CreateSession, JoinCheck, Join, PostCheck, Wake,
        ExpiryTimer, Reject, Timeout, Cancel, liveVars, histVars
<1>9. ASSUME NEW r \in Reqs, Evict(r) \/ Delete(r) \/ PollExpired(r)
      PROVE  \A o \in Objs, k \in Kinds : DirNext(o, k)
    BY <1>2, <1>4, <1>9, Zenon DEF Evict, Delete, PollExpired, liveVars, histVars
<1>10. ASSUME NEW r \in Reqs, Register(r)
       PROVE  \A o \in Objs, k \in Kinds : DirNext(o, k)
    BY <1>3, <1>10, Zenon DEF Register, DropLocked, histVars
<1>11. CASE Sweep \/ StoreSweep \/ Tick \/ UNCHANGED vars
    BY <1>2, <1>4, <1>11, Zenon
    DEF Sweep, StoreSweep, Tick, vars, relayVars, liveVars, slotVars, histVars
<1> QED
    BY <1>5, <1>6, <1>7, <1>8, <1>9, <1>10, <1>11, Zenon DEF Next, Handle

\* The relay implements the at-most-once channel, in each direction of every
\* session it ever has for the ID.
THEOREM AtMostOnceHolds == Spec => AtMostOnce
<1> DEFINE Inv == TypeInv /\ RegInv /\ MsgInv
<1>1. Init => Inv
    BY InitType, InitReg, InitMsg, Zenon
<1>2. Inv /\ [Next]_vars => Inv'
    BY StepType, StepReg, StepMsg, Zenon
<1>3. Init => Chan!ChanInit
  <2> SUFFICES ASSUME Init PROVE Chan!ChanInit
      OBVIOUS
  <2>1. \A c \in Directions : c[1] \in Objs /\ c[2] \in Kinds
      BY Zenon DEF Directions
  <2>2. \A c \in Directions : /\ accepted[c[1]][c[2]] = <<>>
                              /\ delivered[c[1]][c[2]] = <<>>
                              /\ gone[c[1]] = FALSE
      BY <2>1, Zenon DEF Init, EmptyQueues
  <2> QED
      BY <2>2, Zenon DEF Chan!ChanInit
<1>4. Inv /\ [Next]_vars => [Chan!ChanNext]_(Chan!chanVars)
  <2> SUFFICES ASSUME Inv, [Next]_vars, NEW c \in Directions
               PROVE  Chan!Accept(c) \/ Chan!Take(c) \/ Chan!Close(c) \/ Chan!Idle(c)
      BY Zenon DEF Chan!ChanNext
  <2>1. c[1] \in Objs /\ c[2] \in Kinds
      BY Zenon DEF Directions
  <2>2. DirNext(c[1], c[2])
      BY <2>1, StepDir, Zenon
  <2> QED
      BY <2>2, Zenon
      DEF DirNext, Chan!Accept, Chan!Take, Chan!Close, Chan!Idle
<1> QED
    BY <1>1, <1>2, <1>3, <1>4, PTL DEF Spec, AtMostOnce, Chan!ChanSpec

\* No step revives a dropped session, queues to it or delivers from it.
LEMMA StepGone ==
    ASSUME TypeInv, RegInv, [Next]_vars, NEW o \in Objs, gone[o]
    PROVE  /\ gone'[o]
           /\ joined'[o] = joined[o] /\ queue'[o] = queue[o]
           /\ next'[o] = next[o] /\ last'[o] = last[o]
           /\ delivered'[o] = delivered[o]
<1> USE RelayAssumption
<1> DEFINE Final == /\ gone'[o]
                    /\ joined'[o] = joined[o] /\ queue'[o] = queue[o]
                    /\ next'[o] = next[o] /\ last'[o] = last[o]
                    /\ delivered'[o] = delivered[o]
<1>0. /\ queue \in [Objs -> [Kinds -> Seq(Envs)]]
      /\ accepted \in [Objs -> [Kinds -> Seq(Envs)]]
      /\ delivered \in [Objs -> [Kinds -> Seq(Envs)]]
      /\ next \in [Objs -> [Kinds -> Nat]]
      /\ last \in [Objs -> [Kinds -> Envs \cup {NoEnv}]]
      /\ joined \in [Objs -> Joiners \cup {Nil}]
      /\ gone \in [Objs -> BOOLEAN]
    BY Zenon DEF TypeInv, TypeOK
<1>1. queue[o] = EmptyQueues /\ last[o] = [k \in Kinds |-> NoEnv]
    BY <1>0, Zenon DEF RegInv, Blank, EmptyQueues
<1>2. ASSUME UNCHANGED <<gone, joined, queue, next, last, delivered>> PROVE Final
    BY <1>2, Zenon
<1>3. ASSUME NEW n, ClearLive(n), UNCHANGED delivered PROVE Final
    BY <1>1, <1>3, Zenon DEF ClearLive
<1>4. ASSUME DeleteAndDrop PROVE Final
    BY <1>3, <1>4, Zenon DEF DeleteAndDrop, DropLocked, histVars
<1>5. ASSUME NEW r \in Reqs, Post(r) PROVE Final
  <2>1. PICK n \in Objs, j \in Kinds, e \in Envs :
           /\ UNCHANGED <<gone, delivered, joined, joinAcked>>
           /\ PostRefused(n, j, e) \/ PostAccepted(n, j, e)
      BY <1>5, PostCases, Zenon
  <2>2. CASE PostRefused(n, j, e)
      BY <1>2, <2>1, <2>2, Zenon DEF PostRefused
  <2>3. CASE PostAccepted(n, j, e)
    <3>1. /\ n # o
          /\ queue' = [queue EXCEPT ![n][j] = Append(@, e)]
          /\ last' = [last EXCEPT ![n][j] = e]
          /\ next' = [next EXCEPT ![n][j] = @ + 1]
        BY <2>3, Zenon DEF PostAccepted
    <3> QED
        BY <1>0, <2>1, <3>1, Zenon
  <2> QED
      BY <2>1, <2>2, <2>3, Zenon
<1>6. ASSUME NEW r \in Reqs, Poll(r) PROVE Final
  <2>1. UNCHANGED <<gone, joined, next, last>>
      BY <1>6, Zenon DEF Poll
  <2>2. CASE UNCHANGED <<queue, delivered>>
      BY <1>2, <2>1, <2>2, Zenon
  <2>3. CASE ~UNCHANGED <<queue, delivered>>
    <3> DEFINE n == req[r].obj
    <3>1. n # o /\ TakeAll(n, req[r].kind)
        BY <1>6, <2>3, Zenon DEF Poll
    <3>2. queue'[o] = queue[o] /\ delivered'[o] = delivered[o]
        BY <1>0, <3>1, Zenon DEF TakeAll
    <3> QED
        BY <2>1, <3>2, Zenon
  <2> QED
      BY <2>2, <2>3, Zenon
<1>7. ASSUME NEW r \in Reqs, Join(r) PROVE Final
    BY <1>0, <1>7, Zenon DEF Join, JoinOpen
<1>8. CASE Restart
    BY <1>1, <1>8, Zenon DEF Restart, histVars
<1>9. ASSUME NEW r \in Reqs,
             \/ Arrive(r) \/ Reread(r) \/ Get(r) \/ CreateSession(r)
             \/ JoinCheck(r) \/ PostCheck(r) \/ Wake(r) \/ ExpiryTimer(r)
             \/ Reject(r) \/ Timeout(r) \/ Cancel(r)
      PROVE  Final
    BY <1>2, <1>9, Zenon
    DEF Arrive, Reread, Get, CreateSession, JoinCheck, PostCheck, Wake,
        ExpiryTimer, Reject, Timeout, Cancel, liveVars, histVars
<1>10. ASSUME NEW r \in Reqs, Evict(r) \/ Delete(r) \/ PollExpired(r) PROVE Final
    BY <1>2, <1>4, <1>10, Zenon DEF Evict, Delete, PollExpired, liveVars, histVars
<1>11. ASSUME NEW r \in Reqs, Register(r) PROVE Final
    BY <1>3, <1>11, Zenon DEF Register, DropLocked, histVars
<1>12. CASE Sweep \/ StoreSweep \/ Tick \/ UNCHANGED vars
    BY <1>2, <1>4, <1>12, Zenon
    DEF Sweep, StoreSweep, Tick, vars, relayVars, liveVars, slotVars, histVars
<1> QED
    BY <1>5, <1>6, <1>7, <1>8, <1>9, <1>10, <1>11, <1>12, Zenon DEF Next, Handle

\* A dropped session stays dropped and nothing in it changes again.
THEOREM GoneIsFinalHolds == Spec => GoneIsFinal
<1>1. Init => TypeInv /\ RegInv
    BY InitType, InitReg, Zenon
<1>2. TypeInv /\ RegInv /\ [Next]_vars => (TypeInv /\ RegInv)'
    BY StepType, StepReg, Zenon
<1>3. TypeInv /\ RegInv /\ [Next]_vars =>
         [\A o \in Objs : gone[o] =>
             /\ gone'[o]
             /\ joined'[o] = joined[o]
             /\ queue'[o] = queue[o]
             /\ next'[o] = next[o]
             /\ last'[o] = last[o]
             /\ delivered'[o] = delivered[o]]_vars
    BY StepGone, Zenon
<1> QED
    BY <1>1, <1>2, <1>3, PTL DEF Spec, GoneIsFinal
=============================================================================
