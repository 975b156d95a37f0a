------------------------------- MODULE Limits -------------------------------
(***************************************************************************)
(* The relay's limits, relayserver/limits/limits.go, in front of its       *)
(* handler: the rate buckets of an address, the cap on live sessions, and  *)
(* the anonymous allowance, which counts the servers a developer's address *)
(* uses. A request is cut where the code releases the mutex. The handler   *)
(* behind answers as it likes.                                             *)
(***************************************************************************)
EXTENDS Naturals, FiniteSets, FiniteSetsExt

CONSTANTS
    Addrs,        \* client addresses
    KeyOf,        \* KeyOf[a]: the address, or the /64 it is in
    Watched,      \* addresses whose buckets are followed; those of others may
                  \* let any request pass or refuse it
    Unknown,      \* what ClientIP makes of an address it cannot parse
    Ids,          \* session IDs
    None,
    Requests,     \* address, ID and whether it creates, of possible requests
    Slots,        \* requests under way
    Modes,        \* values of AllowanceMode considered
    Servers,      \* AllowanceServers
    Window,       \* AllowanceWindow, in ticks
    CreatorAge,   \* 25 hours: how long a creator is remembered
    Hour,         \* ticks in an hour
    Burst,        \* Burst[b]: size of bucket b
    Refill,       \* Refill[b]: tokens it regains in a tick
    MaxTime       \* bound: clock

Buckets == {"requests", "creates"}

ASSUME LimitsAssumption ==
    /\ Unknown \in Addrs
    /\ Watched \subseteq Addrs
    /\ KeyOf \in [Addrs \ {Unknown} -> Addrs \ {Unknown}]
    /\ Requests \subseteq Addrs \X Ids \X BOOLEAN
    /\ Modes \subseteq {"off", "observe", "enforce"}
    /\ Servers \in Nat \ {0}
    /\ Window \in Nat \ {0}
    /\ CreatorAge \in Nat
    /\ Hour \in Nat \ {0}
    /\ Burst \in [Buckets -> Nat \ {0}]
    /\ Refill \in [Buckets -> Nat]
    /\ MaxTime \in Nat
    /\ None \notin Addrs \cup Ids
    /\ None \notin [lim : [Buckets -> [tokens : Nat, last : Nat]], seen : Nat]
    /\ IsFiniteSet(Addrs) /\ IsFiniteSet(Slots)
    \* An hour fills every bucket: RequestsPerMinute is at least 1, and
    \* CreatesPerHour is the size of its bucket.
    /\ \A b \in Buckets : Hour * Refill[b] >= Burst[b]

Keys == {KeyOf[a] : a \in Addrs \ {Unknown}}

VARIABLES
    mode,      \* AllowanceMode
    now,       \* the clock, from 1
    ips,       \* the buckets of every address, None if it has none
    full,      \* the last sweep found MaxLiveSessions live sessions
    creators,  \* creators[id]: the key that created the session, and when
    paired,    \* paired[dev][server]: when they were last used, 0 for never
    slot,      \* the requests under way
    told,      \* history: told[dev]: when a refusal said to come back
    crowd      \* history: crowd[dev]: most requests served at once uncounted

stateVars == <<ips, full, creators, paired>>
histVars == <<told, crowd>>
vars == <<mode, now, stateVars, slot, histVars>>

\* A rate.Limiter: its tokens at a time.
NewLimiter(b) == [tokens |-> Burst[b], last |-> 0]
NewBuckets(t) == [lim |-> [b \in Buckets |-> NewLimiter(b)], seen |-> t]

NoRequest == [pc |-> "free", addr |-> Unknown, id |-> None, at |-> 0,
              server |-> Unknown]

NoCreator == [key |-> Unknown, at |-> 0]

Init ==
    /\ mode \in Modes
    /\ now = 1
    /\ ips = [a \in Watched |-> None]
    /\ full = FALSE
    /\ creators = [i \in Ids |-> NoCreator]
    /\ paired = [k \in Keys |-> [s \in Keys |-> 0]]
    /\ slot = [r \in Slots |-> NoRequest]
    /\ told = [k \in Keys |-> 0]
    /\ crowd = [k \in Keys |-> 0]

-----------------------------------------------------------------------------
(* Rates: check.                                                           *)

TokensAt(l, b, t) == Min({Burst[b], l.tokens + (t - l.last) * Refill[b]})

\* rate.Limiter.AllowN(t, 1). A refusal changes nothing.
Allows(l, b, t) == TokensAt(l, b, t) >= 1

\* Mutant of AllowN: takes a token that is not there.
Overdraws(l, b, t) == [tokens |-> TokensAt(l, b, t) - 1, last |-> t]

AllowN(l, b, t) ==
    IF Allows(l, b, t) THEN [tokens |-> TokensAt(l, b, t) - 1, last |-> t] ELSE l

\* The request takes a token first. A create is refused when the relay is at
\* capacity, before it takes one of its own; the first token is spent.
Asks(create) ==
    IF create /\ ~full THEN Buckets ELSE {"requests"}

Passes(k, create) ==
    /\ Allows(k.lim["requests"], "requests", now)
    /\ create => ~full /\ Allows(k.lim["creates"], "creates", now)

\* Mutant of Spend: only the first request of an address sets lastSeen.
KeepsSeen(k, create) ==
    [lim |-> [b \in Buckets |->
                IF /\ b \in Asks(create)
                   /\ b = "creates" => Allows(k.lim["requests"], "requests", now)
                THEN AllowN(k.lim[b], b, now) ELSE k.lim[b]],
     seen |-> k.seen]

Spend(k, create) ==
    [lim |-> [b \in Buckets |->
                IF /\ b \in Asks(create)
                   /\ b = "creates" => Allows(k.lim["requests"], "requests", now)
                THEN AllowN(k.lim[b], b, now) ELSE k.lim[b]],
     seen |-> now]

BucketsOf(a) == IF ips[a] = None THEN NewBuckets(now) ELSE ips[a]

\* A request past check goes on in allowance, which reads the clock before it
\* locks the mutex again. It goes straight to the handler when the allowance
\* is off or the address is not known.
Entered(a, i, create) ==
    IF mode = "off" \/ a = Unknown THEN NoRequest
    ELSE [NoRequest EXCEPT !.pc = IF create THEN "creating" ELSE "admit",
             !.addr = a, !.id = i, !.at = now]

\* Middleware: check, under the mutex. A request that is refused is over.
Check(r) ==
    /\ slot[r].pc = "free"
    /\ \E a \in Addrs, i \in Ids, create \in BOOLEAN :
          /\ <<a, i, create>> \in Requests
          /\ \/ /\ a \in Watched => Passes(BucketsOf(a), create)
                /\ slot' = [slot EXCEPT ![r] = Entered(a, i, create)]
             \/ /\ a \in Watched => ~Passes(BucketsOf(a), create)
                /\ UNCHANGED slot
          /\ ips' = IF a \in Watched
                    THEN [ips EXCEPT ![a] = Spend(BucketsOf(a), create)] ELSE ips
    /\ UNCHANGED <<mode, now, full, creators, paired, histVars>>

-----------------------------------------------------------------------------
(* The allowance.                                                          *)

Over(r) == slot' = [slot EXCEPT ![r] = NoRequest]

\* The handler has created the session (201) or not.
Created(r) ==
    LET q == slot[r]
    IN  /\ q.pc = "creating"
        /\ \/ creators' = [creators EXCEPT ![q.id] = [key |-> KeyOf[q.addr], at |-> q.at]]
           \/ UNCHANGED creators
        /\ Over(r)
        /\ UNCHANGED <<mode, now, ips, full, paired, histVars>>

\* Mutant of Recent: the comparison is off by one.
StaysLonger(last, t) == last # 0 /\ last + Window >= t

\* A pair is within the window until it has not been used for so long.
Recent(last, t) == last # 0 /\ last + Window > t

\* The pairs of a developer without those that are out of the window.
Pruned(dev, t) ==
    [s \in Keys |-> IF Recent(paired[dev][s], t) THEN paired[dev][s] ELSE 0]

\* The first critical section. Nobody knows who created the session, or the
\* creator itself is asking: the request does not count.
Exempt(r) ==
    LET q == slot[r]
    IN  /\ q.pc = "admit"
        /\ creators[q.id].at = 0 \/ creators[q.id].key = KeyOf[q.addr]
        /\ Over(r)
        /\ UNCHANGED <<mode, now, stateVars, histVars>>

\* The request is one of developer dev at the server of another address, and
\* pairs are the developer's pairs within the window.
Counts(r, dev, server, pairs) ==
    /\ slot[r].pc = "admit"
    /\ creators[slot[r].id].at # 0
    /\ dev = KeyOf[slot[r].addr]
    /\ server = creators[slot[r].id].key
    /\ server # dev
    /\ pairs = Pruned(dev, slot[r].at)

Known(pairs) == {s \in Keys : pairs[s] # 0}

\* Mutant of Overrun: one server too many.
OverrunLate(pairs) == Cardinality(Known(pairs)) > Servers

Overrun(pairs) == Cardinality(Known(pairs)) >= Servers

\* A known pair is renewed, and what the developer was told is void.
Renew(r) ==
    \E dev, server \in Keys : LET pairs == Pruned(dev, slot[r].at) IN
        /\ Counts(r, dev, server, pairs)
        /\ server \in Known(pairs)
        /\ paired' = [paired EXCEPT ![dev] = [pairs EXCEPT ![server] = slot[r].at]]
        /\ told' = [told EXCEPT ![dev] = 0]
        /\ Over(r)
        /\ UNCHANGED <<mode, now, ips, full, creators, crowd>>

\* Another one is refused if there are enough. Retry-After is the time until
\* the oldest pair leaves the window.
Refuse(r) ==
    \E dev, server \in Keys : LET pairs == Pruned(dev, slot[r].at) IN
        /\ Counts(r, dev, server, pairs)
        /\ server \notin Known(pairs)
        /\ mode = "enforce" /\ Overrun(pairs)
        /\ paired' = [paired EXCEPT ![dev] = pairs]
        /\ told' = [told EXCEPT ![dev] =
                       IF Cardinality(Known(pairs)) = Servers
                       THEN Min({pairs[s] : s \in Known(pairs)}) + Window ELSE 0]
        /\ Over(r)
        /\ UNCHANGED <<mode, now, ips, full, creators, crowd>>

\* The requests of dev at the handler that are not counted yet.
Serving(dev) == {r \in Slots : slot[r].pc = "serving" /\ KeyOf[slot[r].addr] = dev}

\* Or it goes on to the handler, without being counted yet.
Admit(r) ==
    \E dev, server \in Keys : LET pairs == Pruned(dev, slot[r].at) IN
        /\ Counts(r, dev, server, pairs)
        /\ server \notin Known(pairs)
        /\ mode = "observe" \/ ~Overrun(pairs)
        /\ paired' = [paired EXCEPT ![dev] = pairs]
        /\ slot' = [slot EXCEPT ![r].pc = "serving", ![r].server = server, ![r].id = None]
        /\ crowd' = IF mode = "observe" THEN crowd
                    ELSE [crowd EXCEPT ![dev] = Max({@, Cardinality(Serving(dev)) + 1})]
        /\ UNCHANGED <<mode, now, ips, full, creators, told>>

\* The handler has answered. The pair counts when the answer is no error, and
\* from the time the request came in.
Served(r) ==
    LET q   == slot[r]
        dev == KeyOf[q.addr]
    IN  /\ q.pc = "serving"
        /\ \/ /\ paired' = [paired EXCEPT ![dev][q.server] = q.at]
              /\ told' = [told EXCEPT ![dev] = 0]
           \/ UNCHANGED <<paired, told>>
        /\ Over(r)
        /\ UNCHANGED <<mode, now, ips, full, creators, crowd>>

-----------------------------------------------------------------------------
(* The sweep's part, and the clock.                                        *)

Prune ==
    /\ ips' = [a \in Watched |->
                 IF ips[a] # None /\ now > ips[a].seen + Hour THEN None ELSE ips[a]]
    /\ creators' = [i \in Ids |->
                      IF now > creators[i].at + CreatorAge THEN NoCreator ELSE creators[i]]
    /\ paired' = [k \in Keys |-> Pruned(k, now)]
    /\ UNCHANGED <<mode, now, full, slot, histVars>>

\* SetLiveSessions, with what the sweep of the store has counted.
SetLiveSessions ==
    /\ full' \in BOOLEAN
    /\ UNCHANGED <<mode, now, ips, creators, paired, slot, histVars>>

Tick ==
    /\ now < MaxTime
    /\ now' = now + 1
    /\ UNCHANGED <<mode, stateVars, slot, histVars>>

Next ==
    \/ \E r \in Slots : Check(r) \/ Created(r)
                       \/ Exempt(r) \/ Renew(r) \/ Refuse(r) \/ Admit(r) \/ Served(r)
    \/ Prune \/ SetLiveSessions
    \/ Tick

Spec == Init /\ [][Next]_vars

-----------------------------------------------------------------------------
(* Properties.                                                             *)

\* The state of the limits is what its types say, and a bucket holds no more than
\* its burst.
TypeOK ==
    /\ mode \in Modes
    /\ now \in Nat
    /\ ips \in [Watched -> {None} \cup
                   [lim : [Buckets -> [tokens : Nat, last : Nat]], seen : Nat]]
    /\ \A a \in Watched, b \in Buckets :
          ips[a] # None => ips[a].lim[b].tokens <= Burst[b]
    /\ full \in BOOLEAN
    /\ creators \in [Ids -> [key : Keys \cup {Unknown}, at : Nat]]
    /\ paired \in [Keys -> [Keys -> Nat]]
    /\ slot \in [Slots -> [pc : {"free", "creating", "admit", "serving"},
                           addr : Addrs, id : Ids \cup {None}, at : Nat,
                           server : Keys \cup {Unknown}]]
    /\ told \in [Keys -> Nat]
    /\ crowd \in [Keys -> Nat]

\* With "enforce" a developer has at most AllowanceServers servers, and one
\* more for each of its requests to new servers that were served at the same
\* time beyond the first: the count is taken before the handler runs and the
\* pair is added after it, in another critical section.
CapBounded ==
    mode = "enforce" =>
        \A dev \in Keys : Cardinality(Known(paired[dev])) < Servers + crowd[dev]

\* Dropping the buckets of an address gives it nothing: an address that was
\* silent for so long would find them full as well.
PruneInvisible ==
    [][\A a \in Watched, b \in Buckets : ips[a] # None /\ ips'[a] = None =>
          TokensAt(ips[a].lim[b], b, now) = Burst[b]]_vars

\* A developer who was refused, and has since used no server, is not refused
\* again after the time Retry-After gave, unless the cap had been overrun.
RetryAfterHolds ==
    [][\A r \in Slots : Refuse(r) =>
          LET due == told[KeyOf[slot[r].addr]] IN due = 0 \/ slot[r].at < due]_vars
=============================================================================
