------------------------------- MODULE Relay -------------------------------
(***************************************************************************)
(* The relay's live sessions: relay/handler.go, relay/session.go and the   *)
(* session metadata of relay/memory.go, for one session ID. State of       *)
(* different IDs is disjoint; they share only the registry mutex, which    *)
(* orders steps and decides nothing.                                       *)
(*                                                                         *)
(* A request occupies a slot of Reqs and is cut where the code releases a  *)
(* mutex: requests on other slots, the sweeps, the clock and a restart run *)
(* in between. The ID may be created again after it was deleted or has     *)
(* expired, so several liveSession values (Objs) can exist for it, at most *)
(* one of them registered.                                                 *)
(***************************************************************************)
EXTENDS Naturals, Sequences

CONSTANTS
    Reqs,       \* request slots
    Role,       \* Role[r]: the operations slot r may carry
    Kinds,      \* the message directions in use, of jobs and results
    Bodies,     \* ciphertexts
    Joiners,    \* MCPs that may join
    Nil,        \* nobody, nothing
    MaxObjs,    \* bound: how often the ID is created
    MaxSeq,     \* bound: highest sequence number posted
    MaxQueue,   \* Caps.QueueLength
    TTL,        \* lifetime asked for at creation, in ticks
    MaxTime,    \* bound: clock
    MaxBoots    \* bound: starts of the relay process

Ops == {"create", "delete", "join", "post", "poll"}

ASSUME RelayAssumption ==
    /\ Role \in [Reqs -> SUBSET Ops]
    /\ Kinds \subseteq {"jobs", "results"}
    /\ Nil \notin Reqs \cup Joiners \cup Bodies
    /\ MaxObjs \in Nat
    /\ MaxSeq \in Nat
    /\ MaxQueue \in Nat
    /\ TTL \in Nat \ {0}
    /\ MaxTime \in Nat
    /\ MaxBoots \in Nat

Objs == 1 .. MaxObjs
Envs == [seq : 1 .. MaxSeq, body : Bodies]

\* A nil *Envelope: sequence 0 is never valid (protocol/session.go Canonical).
NoEnv == [seq |-> 0, body |-> Nil]

\* Metadata absent from the store: a stored session expires after tick 0.
NoMeta == [expires |-> 0, boot |-> 0]

\* What a request carries through its steps. "now" is the clock as the
\* request read it, "obj" the liveSession it holds a pointer to (0: none).
Request ==
    [op : Ops, kind : Kinds \cup {"join"}, env : Envs \cup {NoEnv},
     who : Joiners \cup {Nil}, wait : BOOLEAN,
     now : Nat, obj : 0 .. MaxObjs, timedOut : BOOLEAN]

NoRequest ==
    [op |-> "delete", kind |-> "join", env |-> NoEnv, who |-> Nil,
     wait |-> FALSE, now |-> 0, obj |-> 0, timedOut |-> FALSE]

Labels ==
    {"idle", "reread", "evict", "create", "register", "get", "delete",
     "joinCheck", "join", "postCheck", "post", "poll", "wait", "pollExpired"}

VARIABLES
    now,        \* the clock
    boot,       \* which start of the process this is
    store,      \* the metadata stored for the ID, or NoMeta
    registry,   \* registry.sessions[id], 0 for nil
    nobj,       \* liveSession values made so far
    evictor,    \* the request holding the registry mutex between two store calls
    sweepAt,    \* the clock a sweep of the store goes by, 0 when none runs
    joined, queue, next, last, gone, expires,  \* the liveSession fields
    pc, req,    \* where each slot is, and its request
    woken,      \* waiting polls whose "changed" channel is closed
    accepted,   \* history: envelopes appended to a queue
    delivered,  \* history: envelopes a poll took
    acked,      \* history: posts answered 202
    joinAcked   \* history: joins answered 201

relayVars == <<now, boot, store, registry, nobj, evictor, sweepAt>>
liveVars == <<joined, queue, next, last, gone, expires>>
slotVars == <<pc, req, woken>>
histVars == <<accepted, delivered, acked, joinAcked>>
vars == <<relayVars, liveVars, slotVars, histVars>>

EmptyQueues == [k \in Kinds |-> <<>>]

Init ==
    /\ now = 0
    /\ boot = 1
    /\ store = NoMeta
    /\ registry = 0
    /\ nobj = 0
    /\ evictor = Nil
    /\ sweepAt = 0
    /\ joined = [o \in Objs |-> Nil]
    /\ queue = [o \in Objs |-> EmptyQueues]
    /\ next = [o \in Objs |-> [k \in Kinds |-> 1]]
    /\ last = [o \in Objs |-> [k \in Kinds |-> NoEnv]]
    /\ gone = [o \in Objs |-> FALSE]
    /\ expires = [o \in Objs |-> 0]
    /\ pc = [r \in Reqs |-> "idle"]
    /\ req = [r \in Reqs |-> NoRequest]
    /\ woken = {}
    /\ accepted = [o \in Objs |-> EmptyQueues]
    /\ delivered = [o \in Objs |-> EmptyQueues]
    /\ acked = {}
    /\ joinAcked = [o \in Objs |-> {}]

-----------------------------------------------------------------------------
(* Steps of a slot.                                                        *)

Goto(r, label) ==
    /\ pc' = [pc EXCEPT ![r] = label]
    /\ UNCHANGED req

\* The request is answered; its slot is free for another.
Done(r) ==
    /\ pc' = [pc EXCEPT ![r] = "idle"]
    /\ req' = [req EXCEPT ![r] = NoRequest]

Unlocked == evictor = Nil

Waiters(o) == {t \in Reqs : pc[t] = "wait" /\ req[t].obj = o}

\* Mutant: replaces the channel without closing it.
NotifyNobody(o) == UNCHANGED woken

\* close(live.changed) and a new channel: every poll waiting on the old one
\* wakes.
Notify(o) == woken' = woken \cup Waiters(o)

-----------------------------------------------------------------------------
(* The registry.                                                           *)

ClearLive(o) ==
    /\ gone' = [x \in Objs |-> gone[x] \/ x = o]
    /\ queue' = [x \in Objs |-> IF x = o THEN EmptyQueues ELSE queue[x]]
    /\ last' = [x \in Objs |->
                   IF x = o THEN [k \in Kinds |-> NoEnv] ELSE last[x]]
    /\ UNCHANGED <<joined, next>>

\* registry.dropLocked apart from deleting the map entry, which the callers
\* add; nothing for a nil entry (o = 0).
DropLocked(o) == ClearLive(o) /\ Notify(o)

\* Mutant: drops the live state and leaves the metadata stored.
DropKeepingMeta ==
    /\ DropLocked(registry)
    /\ registry' = 0
    /\ UNCHANGED <<store, now, boot, nobj, expires, histVars>>

\* store.DeleteSession followed by dropLocked(id), under the registry mutex.
\* One step: what runs between the two calls touches only the store or only
\* the liveSession.
DeleteAndDrop ==
    /\ store' = NoMeta
    /\ DropLocked(registry)
    /\ registry' = 0
    /\ UNCHANGED <<now, boot, nobj, expires, histVars>>

-----------------------------------------------------------------------------
(* handleSession.                                                          *)

\* Where a request goes once it knows whether the session is stored: PUT
\* needs it absent (409), everything else present (404).
Routed(op, found) ==
    CASE op = "create" -> IF found THEN "idle" ELSE "create"
      [] OTHER -> IF found THEN "get" ELSE "idle"

\* Requests with the headers, IDs and credential handleSession asks for. Any
\* other request, and the GET of a session, does nothing to the state, or what
\* these do before they are refused: evict an expired session.
Requests(r) ==
    {q \in [op : Role[r], kind : Kinds \cup {"join"}, env : Envs \cup {NoEnv},
            who : Joiners \cup {Nil}, wait : BOOLEAN,
            now : {now}, obj : {0}, timedOut : {FALSE}] :
        /\ q.op = "post" <=> q.env # NoEnv
        /\ q.op = "join" <=> q.who # Nil
        /\ q.op # "poll" => ~q.wait
        /\ q.op = "post" => q.kind # "join"
        /\ q.op \notin {"post", "poll"} => q.kind = "join"}

\* store.Session and the clock. The two reads are one step: the clock only
\* moves forward, and what the request does next checks again.
Arrive(r) ==
    /\ pc[r] = "idle"
    /\ \E q \in Requests(r) :
         LET label == IF store # NoMeta /\ store.expires <= now
                        THEN "reread"
                        ELSE Routed(q.op, store # NoMeta)
         IN  /\ label # "idle"
             /\ pc' = [pc EXCEPT ![r] = label]
             /\ req' = [req EXCEPT ![r] = q]
    /\ UNCHANGED <<relayVars, liveVars, woken, histVars>>

\* The session looked expired: read it again under the registry mutex. If it
\* still is, the mutex is kept for Evict.
Reread(r) ==
    /\ pc[r] = "reread"
    /\ Unlocked
    /\ IF store # NoMeta /\ store.expires <= req[r].now
         THEN /\ evictor' = r
              /\ Goto(r, "evict")
         ELSE /\ UNCHANGED evictor
              /\ LET label == Routed(req[r].op, store # NoMeta)
                 IN IF label = "idle" THEN Done(r) ELSE Goto(r, label)
    /\ UNCHANGED <<now, boot, store, registry, nobj, sweepAt, liveVars, woken,
                   histVars>>

Evict(r) ==
    /\ pc[r] = "evict"
    /\ evictor = r
    /\ evictor' = Nil
    /\ DeleteAndDrop
    /\ IF req[r].op = "create" THEN Goto(r, "create") ELSE Done(r)
    /\ UNCHANGED sweepAt

\* registry.get, and the handler for the method and path; the clock read at
\* arrival is not used again.
Get(r) ==
    /\ pc[r] = "get"
    /\ Unlocked
    /\ \/ /\ registry = 0
          /\ Done(r)
       \/ /\ registry # 0
          /\ pc' = [pc EXCEPT ![r] = CASE req[r].op = "join" -> "joinCheck"
                                       [] req[r].op = "post" -> "postCheck"
                                       [] OTHER -> req[r].op]
          /\ req' = [req EXCEPT ![r].obj = registry, ![r].now = 0]
    /\ UNCHANGED <<relayVars, liveVars, woken, histVars>>

\* readBody fails, or the body is malformed, over its cap or of a class the
\* relay does not carry: an error answer and no change.
Reject(r) ==
    /\ pc[r] \in {"create", "join", "post"}
    /\ Done(r)
    /\ UNCHANGED <<relayVars, liveVars, woken, histVars>>

\* DELETE under the registry mutex: 404 when the metadata is already gone.
Delete(r) ==
    /\ pc[r] = "delete"
    /\ Unlocked
    /\ IF store # NoMeta
         THEN DeleteAndDrop
         ELSE UNCHANGED <<now, boot, store, registry, nobj, liveVars, woken,
                          histVars>>
    /\ Done(r)
    /\ UNCHANGED <<evictor, sweepAt>>

-----------------------------------------------------------------------------
(* PUT: create.                                                            *)

\* store.CreateSession, outside the registry mutex. The new liveSession is
\* numbered here and registered in the next step. MaxObjs and MaxTime bound
\* how often the ID is created, and let every session's expiry be reached.
CreateSession(r) ==
    /\ pc[r] = "create"
    /\ \/ /\ store # NoMeta
          /\ Done(r)
          /\ UNCHANGED <<store, nobj>>
       \/ /\ store = NoMeta
          /\ nobj < MaxObjs
          /\ req[r].now + TTL <= MaxTime
          /\ nobj' = nobj + 1
          /\ store' = [expires |-> req[r].now + TTL, boot |-> boot]
          /\ pc' = [pc EXCEPT ![r] = "register"]
          /\ req' = [req EXCEPT ![r].obj = nobj + 1]
    /\ UNCHANGED <<now, boot, registry, evictor, sweepAt, liveVars, woken,
                   histVars>>

\* Mutant: registers without dropping the session it replaces.
RegisterOver(r) ==
    /\ pc[r] = "register"
    /\ Unlocked
    /\ registry' = req[r].obj
    /\ expires' = [expires EXCEPT ![req[r].obj] = req[r].now + TTL]
    /\ Done(r)
    /\ UNCHANGED <<now, boot, store, nobj, evictor, sweepAt, joined, queue, next,
                   last, gone, woken, histVars>>

Register(r) ==
    /\ pc[r] = "register"
    /\ Unlocked
    /\ DropLocked(registry)
    /\ registry' = req[r].obj
    /\ expires' = [expires EXCEPT ![req[r].obj] = req[r].now + TTL]
    /\ Done(r)
    /\ UNCHANGED <<now, boot, store, nobj, evictor, sweepAt, histVars>>

-----------------------------------------------------------------------------
(* POST join.                                                              *)

\* join's first critical section, before the body is read.
JoinCheck(r) ==
    /\ pc[r] = "joinCheck"
    /\ IF gone[req[r].obj] \/ joined[req[r].obj] # Nil
         THEN Done(r)
         ELSE Goto(r, "join")
    /\ UNCHANGED <<relayVars, liveVars, woken, histVars>>

\* Mutants: trust one of the two checks made before the body was read.
JoinOpenIfGone(o) == joined[o] = Nil
JoinOpenIfJoined(o) == ~gone[o]

JoinOpen(o) == ~gone[o] /\ joined[o] = Nil

\* Its second one: both conditions are checked again.
Join(r) ==
    LET o == req[r].obj IN
    /\ pc[r] = "join"
    /\ IF JoinOpen(o)
         THEN /\ joined' = [joined EXCEPT ![o] = req[r].who]
              /\ joinAcked' = [joinAcked EXCEPT ![o] = @ \cup {req[r].who}]
              /\ Notify(o)
         ELSE UNCHANGED <<joined, joinAcked, woken>>
    /\ Done(r)
    /\ UNCHANGED <<relayVars, queue, next, last, gone, expires,
                   accepted, delivered, acked>>

-----------------------------------------------------------------------------
(* POST jobs and results.                                                  *)

\* sessionRoute's critical section, before the body is read.
PostCheck(r) ==
    /\ pc[r] = "postCheck"
    /\ IF gone[req[r].obj] \/ joined[req[r].obj] = Nil
         THEN Done(r)
         ELSE Goto(r, "post")
    /\ UNCHANGED <<relayVars, liveVars, woken, histVars>>

\* Mutant: compares the sequence number only.
SameSeq(o, k, e) == last[o][k].seq = e.seq

\* Identical to the last accepted envelope.
IsReplay(o, k, e) == last[o][k] = e

\* Mutant: lets a sender skip ahead.
NotBehind(o, k, e) == e.seq >= next[o][k]

InSequence(o, k, e) == e.seq = next[o][k]

\* Mutant: off by one.
RoomForOneMore(o, k) == Len(queue[o][k]) <= MaxQueue

HasRoom(o, k) == Len(queue[o][k]) < MaxQueue

\* liveSession.post. 404, 409 not_joined, 409 bad_sequence and 429 change
\* nothing.
Post(r) ==
    LET o == req[r].obj
        k == req[r].kind
        e == req[r].env
        open == ~gone[o] /\ joined[o] # Nil
        replay == open /\ IsReplay(o, k, e)
        accept == /\ open
                  /\ ~replay
                  /\ InSequence(o, k, e)
                  /\ HasRoom(o, k)
    IN
    /\ pc[r] = "post"
    /\ IF accept
         THEN /\ queue' = [queue EXCEPT ![o][k] = Append(@, e)]
              /\ last' = [last EXCEPT ![o][k] = e]
              /\ next' = [next EXCEPT ![o][k] = @ + 1]
              /\ accepted' = [accepted EXCEPT ![o][k] = Append(@, e)]
              /\ Notify(o)
         ELSE UNCHANGED <<queue, last, next, accepted, woken>>
    /\ acked' = IF accept \/ replay
                  THEN acked \cup {[obj |-> o, kind |-> k, env |-> e]}
                  ELSE acked
    /\ Done(r)
    /\ UNCHANGED <<relayVars, joined, gone, expires, delivered, joinAcked>>

-----------------------------------------------------------------------------
(* GET join, jobs and results: poll.                                       *)

\* Something the poll can answer with.
HasAnswer(o, k) == IF k = "join" THEN joined[o] # Nil ELSE queue[o][k] # <<>>

\* Mutant: answers with the queue and leaves it in place.
TakeCopy(o, k) ==
    /\ delivered' = [delivered EXCEPT ![o][k] = @ \o queue[o][k]]
    /\ UNCHANGED <<queue, woken>>

\* messages := *pending; *pending = nil; live.notify()
TakeAll(o, k) ==
    /\ delivered' = [delivered EXCEPT ![o][k] = @ \o queue[o][k]]
    /\ queue' = [queue EXCEPT ![o][k] = <<>>]
    /\ Notify(o)

\* One turn of poll's loop, under live.mu. Waiting keeps the channel that is
\* open now. A poll whose client is gone leaves by Cancel instead.
Poll(r) ==
    LET o == req[r].obj
        k == req[r].kind
    IN
    /\ pc[r] = "poll"
    /\ \/ /\ gone[o]
          /\ Done(r)
          /\ UNCHANGED <<queue, woken, delivered>>
       \/ /\ ~gone[o]
          /\ expires[o] <= now
          /\ Goto(r, "pollExpired")
          /\ UNCHANGED <<queue, woken, delivered>>
       \/ /\ ~gone[o]
          /\ now < expires[o]
          /\ HasAnswer(o, k)
          /\ IF k = "join" THEN UNCHANGED <<queue, woken, delivered>>
                           ELSE TakeAll(o, k)
          /\ Done(r)
       \/ /\ ~gone[o]
          /\ now < expires[o]
          /\ ~HasAnswer(o, k)
          /\ IF req[r].timedOut \/ ~req[r].wait THEN Done(r) ELSE Goto(r, "wait")
          /\ UNCHANGED <<queue, woken, delivered>>
    /\ UNCHANGED <<relayVars, joined, next, last, gone, expires,
                   accepted, acked, joinAcked>>

\* s.live.sessions[id] == live
OwnsEntry(o) == registry = o

\* The poll saw its session expired, released live.mu and took the registry
\* mutex.
PollExpired(r) ==
    /\ pc[r] = "pollExpired"
    /\ Unlocked
    /\ IF OwnsEntry(req[r].obj)
         THEN DeleteAndDrop
         ELSE UNCHANGED <<now, boot, store, registry, nobj, liveVars, woken,
                          histVars>>
    /\ Done(r)
    /\ UNCHANGED <<evictor, sweepAt>>

\* <-changed
Wake(r) ==
    /\ pc[r] = "wait"
    /\ r \in woken
    /\ Goto(r, "poll")
    /\ woken' = woken \ {r}
    /\ UNCHANGED <<relayVars, liveVars, histVars>>

\* <-expiry.C
ExpiryTimer(r) ==
    /\ pc[r] = "wait"
    /\ expires[req[r].obj] <= now
    /\ Goto(r, "poll")
    /\ woken' = woken \ {r}
    /\ UNCHANGED <<relayVars, liveVars, histVars>>

\* <-timeout.C
Timeout(r) ==
    /\ pc[r] = "wait"
    /\ pc' = [pc EXCEPT ![r] = "poll"]
    /\ req' = [req EXCEPT ![r].timedOut = TRUE]
    /\ woken' = woken \ {r}
    /\ UNCHANGED <<relayVars, liveVars, histVars>>

\* <-r.Context().Done(), or the check at the top of the loop: the client is
\* gone and the poll takes nothing.
Cancel(r) ==
    /\ pc[r] \in {"poll", "wait"}
    /\ Done(r)
    /\ woken' = woken \ {r}
    /\ UNCHANGED <<relayVars, liveVars, histVars>>

-----------------------------------------------------------------------------
(* The sweeps of internal/relayserver, the clock and a restart.            *)

\* Mutant: drops a live session only along with stored metadata.
SweepStored ==
    /\ Unlocked
    /\ sweepAt = 0
    /\ store # NoMeta
    /\ sweepAt' = now
    /\ IF registry # 0 /\ expires[registry] <= now
         THEN DeleteAndDrop
         ELSE UNCHANGED <<now, boot, store, registry, nobj, liveVars, woken,
                          histVars>>
    /\ UNCHANGED <<evictor, pc, req>>

\* Handler.Sweep; the store's own sweep follows. The clock readings of the two,
\* taken one after the other before anything is swept, are one here.
Sweep ==
    /\ Unlocked
    /\ sweepAt = 0
    /\ store # NoMeta \/ registry # 0
    /\ sweepAt' = now
    /\ IF registry # 0 /\ expires[registry] <= now
         THEN DeleteAndDrop
         ELSE UNCHANGED <<now, boot, store, registry, nobj, liveVars, woken,
                          histVars>>
    /\ UNCHANGED <<evictor, pc, req>>

\* MemoryStore.Sweep, not under the registry mutex.
StoreSweep ==
    /\ sweepAt # 0
    /\ sweepAt' = 0
    /\ store' = IF store.expires <= sweepAt THEN NoMeta ELSE store
    /\ UNCHANGED <<now, boot, registry, nobj, evictor, liveVars, slotVars,
                   histVars>>

Tick ==
    /\ now < MaxTime
    /\ now' = now + 1
    /\ UNCHANGED <<boot, store, registry, nobj, evictor, sweepAt, liveVars,
                   slotVars, histVars>>

\* The process ends and starts again: requests and live sessions are lost;
\* metadata survives in a directory or bucket and not in memory.
Restart ==
    /\ boot < MaxBoots
    /\ boot' = boot + 1
    /\ store' \in {store, NoMeta}
    /\ registry' = 0
    /\ evictor' = Nil
    /\ sweepAt' = 0
    /\ gone' = [o \in Objs |-> gone[o] \/ o <= nobj]
    /\ queue' = [o \in Objs |-> EmptyQueues]
    /\ last' = [o \in Objs |-> [k \in Kinds |-> NoEnv]]
    /\ pc' = [r \in Reqs |-> "idle"]
    /\ req' = [r \in Reqs |-> NoRequest]
    /\ woken' = {}
    /\ UNCHANGED <<now, nobj, joined, next, expires, histVars>>

-----------------------------------------------------------------------------
Handle(r) ==
    \/ Reread(r) \/ Evict(r) \/ Get(r) \/ Delete(r)
    \/ CreateSession(r) \/ Register(r)
    \/ JoinCheck(r) \/ Join(r)
    \/ PostCheck(r) \/ Post(r)
    \/ Poll(r) \/ PollExpired(r) \/ Wake(r) \/ ExpiryTimer(r)

Next ==
    \/ \E r \in Reqs : Arrive(r)
    \/ \E r \in Reqs : Handle(r)
    \/ \E r \in Reqs : Reject(r)
    \/ \E r \in Reqs : Timeout(r)
    \/ \E r \in Reqs : Cancel(r)
    \/ Sweep
    \/ StoreSweep
    \/ Tick
    \/ Restart

Spec == Init /\ [][Next]_vars

\* A goroutine that can run does, and the sweep timer fires. Nothing makes a
\* client send a request or leave, a wait run out or the clock advance.
Fairness ==
    /\ \A r \in Reqs : WF_vars(Handle(r))
    /\ WF_vars(Sweep)
    /\ WF_vars(StoreSweep)

FairSpec == Spec /\ Fairness

-----------------------------------------------------------------------------
(* Properties.                                                             *)

\* Every variable has its type, and no queue is longer than
\* Caps.QueueLength: post checks the length before it appends.
TypeOK ==
    /\ now \in Nat
    /\ boot \in Nat
    /\ store \in [expires : Nat, boot : Nat]
    /\ registry \in 0 .. MaxObjs
    /\ nobj \in 0 .. MaxObjs
    /\ evictor \in Reqs \cup {Nil}
    /\ sweepAt \in Nat
    /\ joined \in [Objs -> Joiners \cup {Nil}]
    /\ queue \in [Objs -> [Kinds -> Seq(Envs)]]
    /\ \A o \in Objs, k \in Kinds : Len(queue[o][k]) <= MaxQueue
    /\ next \in [Objs -> [Kinds -> Nat]]
    /\ last \in [Objs -> [Kinds -> Envs \cup {NoEnv}]]
    /\ gone \in [Objs -> BOOLEAN]
    /\ expires \in [Objs -> Nat]
    /\ pc \in [Reqs -> Labels]
    /\ req \in [Reqs -> Request]
    /\ woken \in SUBSET Reqs
    /\ accepted \in [Objs -> [Kinds -> Seq(Envs)]]
    /\ delivered \in [Objs -> [Kinds -> Seq(Envs)]]
    /\ acked \in SUBSET [obj : Objs, kind : Kinds, env : Envs]
    /\ joinAcked \in [Objs -> SUBSET Joiners]

\* A liveSession no create has registered yet.
Unregistered(o) ==
    \/ o > nobj
    \/ \E r \in Reqs : pc[r] = "register" /\ req[r].obj = o

\* At most one liveSession of the ID can be used, the registered one: create
\* and every deletion mark the one they replace as gone, however creates,
\* deletes, polls and sweeps of the same ID cross.
OneRegistered ==
    \A o \in Objs : (~gone[o] /\ ~Unregistered(o)) <=> registry = o

\* Message queues lose, repeat and reorder nothing while the session lives:
\* the i-th envelope post accepts has sequence number i, and what polls took
\* followed by what is queued is what was accepted. Once the session is gone
\* only undelivered envelopes are lost.
InOrder ==
    \A o \in Objs, k \in Kinds :
        /\ next[o][k] = Len(accepted[o][k]) + 1
        /\ \A i \in 1 .. Len(accepted[o][k]) : accepted[o][k][i].seq = i
        /\ ~gone[o] => accepted[o][k] = delivered[o][k] \o queue[o][k]
        /\ Len(delivered[o][k]) <= Len(accepted[o][k])
        /\ \A i \in 1 .. Len(delivered[o][k]) :
               delivered[o][k][i] = accepted[o][k][i]

\* A poll that waits on an open channel has nothing to answer: post, join,
\* dropLocked and the other polls close the channel whenever they change what
\* it is waiting for, so no wake-up is lost.
NoLostWakeup ==
    \A r \in Reqs : (pc[r] = "wait" /\ r \notin woken) =>
        /\ ~gone[req[r].obj]
        /\ ~HasAnswer(req[r].obj, req[r].kind)

\* A client told 202 for an envelope can rely on that envelope, with that
\* ciphertext, being the one accepted at its sequence number, also when two
\* clients race for the number or the 202 answers a repeated POST.
AckedIsAccepted ==
    \A a \in acked :
        /\ a.env.seq <= Len(accepted[a.obj][a.kind])
        /\ accepted[a.obj][a.kind][a.env.seq] = a.env

\* The relay retains the first join: of joins that race between join's two
\* critical sections one is told 201, and it is the one polls will report.
FirstJoinRetained == \A o \in Objs : joinAcked[o] \subseteq {joined[o]}

\* Metadata stored by this process always has a live session to go with it,
\* or a create about to register one: no interleaving of deletes, expiries and
\* sweeps drops the live session and leaves the ID occupied until it expires.
StoredHasLive ==
    (store # NoMeta /\ store.boot = boot) =>
        registry # 0 \/ \E r \in Reqs : pc[r] = "register"

\* A dropped session is never used again: a join, post or poll that found it
\* before it was dropped changes nothing in it, and it does not come back.
GoneIsFinal ==
    [][\A o \in Objs : gone[o] =>
          /\ gone'[o]
          /\ joined'[o] = joined[o]
          /\ queue'[o] = queue[o]
          /\ next'[o] = next[o]
          /\ last'[o] = last[o]
          /\ delivered'[o] = delivered[o]]_vars

\* Each direction of each live session is the at-most-once channel of
\* spec/relay-api.md.
Directions == Objs \X Kinds

Chan == INSTANCE Channel WITH
    Chans <- Directions,
    Envelopes <- Envs,
    log <- [c \in Directions |-> accepted[c[1]][c[2]]],
    delivered <- [c \in Directions |-> delivered[c[1]][c[2]]],
    closed <- [c \in Directions |-> gone[c[1]]]

AtMostOnce == Chan!ChanSpec

\* A queued envelope does not wait beside a waiting poll: the poll is woken
\* and takes it, or its client leaves, or the session ends. Time need not
\* pass: the poll is not left to its timeout.
QueuedIsTaken ==
    \A o \in Objs, k \in Kinds, r \in Reqs :
        (/\ queue[o][k] # <<>>
         /\ pc[r] = "wait"
         /\ req[r].obj = o
         /\ req[r].kind = k)
        ~> (queue[o][k] = <<>> \/ pc[r] \notin {"wait", "poll"})

\* Nothing outlives its expiry for ever, also not a liveSession whose
\* metadata another request already deleted: the sweep drops it.
ExpiredIsDropped ==
    \A o \in Objs : (registry = o /\ expires[o] <= now) ~> gone[o]

\* relay/session.go, poll: "An old poll must not delete a replacement session
\* with the same ID." A poll that found its session expired deletes metadata
\* only once that metadata has expired too.
OldPollSparesReplacement ==
    [][\A r \in Reqs :
          (pc[r] = "pollExpired" /\ pc'[r] # "pollExpired" /\ boot' = boot
             /\ store # NoMeta /\ store' = NoMeta)
          => store.expires <= now]_vars
=============================================================================
