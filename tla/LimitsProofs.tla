---------------------------- MODULE LimitsProofs ----------------------------
(***************************************************************************)
(* What Limits promises for any number of addresses, requests and servers, *)
(* any rates and any window: its type, how far the allowance can be        *)
(* overrun, that Retry-After can be relied on, and that pruning buckets    *)
(* gives nothing away.                                                     *)
(***************************************************************************)
EXTENDS Limits, FiniteSetTheorems, WellFoundedInduction, TLAPS

-----------------------------------------------------------------------------
(* Small facts.                                                            *)

\* The smaller of two numbers.
LEMMA MinOfTwo ==
    ASSUME NEW x \in Nat, NEW y \in Nat
    PROVE  /\ Min({x, y}) \in {x, y}
           /\ Min({x, y}) <= x /\ Min({x, y}) <= y
  <1>1. \E m \in {x, y} : \A z \in {x, y} : m <= z
    OBVIOUS
  <1> QED BY <1>1, Zenon DEF Min

\* The larger of two numbers.
LEMMA MaxOfTwo ==
    ASSUME NEW x \in Nat, NEW y \in Nat
    PROVE  /\ Max({x, y}) \in Nat
           /\ Max({x, y}) >= x /\ Max({x, y}) >= y
  <1>1. \E m \in {x, y} : \A z \in {x, y} : m >= z
    OBVIOUS
  <1> QED BY <1>1, Zenon DEF Max

\* A set of numbers that is not empty has a smallest one.
LEMMA MinOfSet ==
    ASSUME NEW S \in SUBSET Nat, S # {}
    PROVE  /\ Min(S) \in S
           /\ \A x \in S : Min(S) <= x
  <1> DEFINE R == {ss \in Nat \X Nat : ss[1] < ss[2]}
  <1>1. IsWellFoundedOn(R, Nat)
    BY NatLessThanWellFounded, Zenon DEF OpToRel
  <1>2. PICK x \in S : \A y \in S : ~(<<y, x>> \in R)
    BY <1>1, WFMin, Zenon
  <1>3. \A y \in S : x <= y
    <2> SUFFICES ASSUME NEW y \in S, y < x PROVE FALSE
      OBVIOUS
    <2>1. <<y, x>> \in R
      OBVIOUS
    <2> QED BY <2>1, <1>2, Zenon
  <1> QED BY <1>3, Zenon DEF Min

\* The keys ClientIP gives are addresses, and there are finitely many.
LEMMA KeysFinite == Keys \subseteq Addrs /\ Unknown \notin Keys /\ IsFiniteSet(Keys)
  <1>1. Keys \subseteq Addrs /\ Unknown \notin Keys
    BY LimitsAssumption, Zenon DEF Keys
  <1> QED BY <1>1, LimitsAssumption, FS_Subset, Zenon

\* An address that can be parsed has a key.
LEMMA KeyOfKeys == \A a \in Addrs : a # Unknown => KeyOf[a] \in Keys
  BY Zenon DEF Keys

\* The servers a developer uses can be counted.
LEMMA KnownFinite ==
    ASSUME NEW pairs
    PROVE  IsFiniteSet(Known(pairs)) /\ Cardinality(Known(pairs)) \in Nat
  <1>1. Known(pairs) \in SUBSET Keys
    BY Zenon DEF Known
  <1>2. IsFiniteSet(Known(pairs))
    BY <1>1, KeysFinite, FS_Subset, Zenon
  <1> QED BY <1>2, FS_CardinalityType, Zenon

\* The requests a developer has at the handler can be counted.
LEMMA ServingFinite ==
    ASSUME NEW dev
    PROVE  IsFiniteSet(Serving(dev)) /\ Cardinality(Serving(dev)) \in Nat
  <1>1. Serving(dev) \in SUBSET Slots
    BY Zenon DEF Serving
  <1>2. IsFiniteSet(Serving(dev))
    BY <1>1, LimitsAssumption, FS_Subset, Zenon
  <1> QED BY <1>2, FS_CardinalityType, Zenon

\* The tokens of a bucket.
LEMMA TokensBounded ==
    ASSUME NEW b \in Buckets, NEW l \in [tokens : Nat, last : Nat], NEW t \in Nat, l.last <= t
    PROVE  TokensAt(l, b, t) \in Nat /\ TokensAt(l, b, t) <= Burst[b]
  <1>1. Burst[b] \in Nat /\ Refill[b] \in Nat
    BY LimitsAssumption, Zenon
  <1>2. t - l.last \in Nat
    OBVIOUS
  <1>3. (t - l.last) * Refill[b] \in Nat
    BY <1>1, <1>2
  <1>4. l.tokens + (t - l.last) * Refill[b] \in Nat
    BY <1>3
  <1> QED BY <1>1, <1>4, MinOfTwo, Zenon DEF TokensAt

-----------------------------------------------------------------------------
(* Type correctness.                                                       *)

\* What a request under way has, by its place in Middleware, and that a bucket
\* is not from the future.
SlotOK ==
    /\ \A r \in Slots :
          /\ slot[r].pc # "free" => slot[r].addr # Unknown
          /\ slot[r].pc \in {"creating", "admit"} => slot[r].id \in Ids
          /\ slot[r].pc = "serving" => slot[r].server \in Keys
    /\ \A a \in Watched : ips[a] # None =>
          /\ ips[a].seen <= now
          /\ \A b \in Buckets : ips[a].lim[b].last <= ips[a].seen

Limiters == [Buckets -> [tokens : Nat, last : Nat]]

\* Buckets as they may be found at the present time.
Sound(k) ==
    /\ k \in [lim : Limiters, seen : Nat]
    /\ k.seen <= now
    /\ \A b \in Buckets : k.lim[b].tokens <= Burst[b] /\ k.lim[b].last <= k.seen

\* The buckets check finds or makes for an address are well formed.
LEMMA BucketsSound ==
    ASSUME TypeOK, SlotOK, NEW a \in Watched
    PROVE  Sound(BucketsOf(a))
  <1>1. CASE ips[a] = None
    <2>1. NewBuckets(now) \in [lim : Limiters, seen : Nat]
      BY LimitsAssumption, Zenon DEF TypeOK, NewBuckets, NewLimiter, Limiters
    <2>2. \A b \in Buckets : /\ NewBuckets(now).lim[b].tokens = Burst[b]
                              /\ NewBuckets(now).lim[b].last = 0
      BY Zenon DEF NewBuckets, NewLimiter
    <2>3. NewBuckets(now).seen = now
      BY Zenon DEF NewBuckets
    <2>4. \A b \in Buckets : Burst[b] \in Nat
      BY LimitsAssumption, Zenon
    <2>5. now \in Nat
      BY Zenon DEF TypeOK
    <2>6. Sound(NewBuckets(now))
      BY <2>1, <2>2, <2>3, <2>4, <2>5 DEF Sound
    <2> QED BY <1>1, <2>6, Zenon DEF BucketsOf
  <1>2. CASE ips[a] # None
    <2>1. ips[a] \in [lim : Limiters, seen : Nat]
      BY <1>2, Zenon DEF TypeOK, Limiters
    <2> QED BY <1>2, <2>1, Zenon DEF BucketsOf, Sound, TypeOK, SlotOK
  <1> QED BY <1>1, <1>2, Zenon

\* AllowN keeps a bucket well formed.
LEMMA AllowNSound ==
    ASSUME now \in Nat, NEW b \in Buckets, NEW l \in [tokens : Nat, last : Nat],
           l.last <= now, l.tokens <= Burst[b]
    PROVE  LET m == AllowN(l, b, now)
           IN  m \in [tokens : Nat, last : Nat] /\ m.tokens <= Burst[b] /\ m.last <= now
  <1>1. TokensAt(l, b, now) \in Nat /\ TokensAt(l, b, now) <= Burst[b]
    BY TokensBounded, Zenon
  <1>2. Burst[b] \in Nat
    BY LimitsAssumption, Zenon
  <1> QED BY <1>1, <1>2 DEF AllowN, Allows

\* check leaves the buckets of an address well formed.
LEMMA SpendSound ==
    ASSUME now \in Nat, NEW k, Sound(k), NEW create
    PROVE  Sound(Spend(k, create)) /\ Spend(k, create).seen = now
  <1> DEFINE lim == [b \in Buckets |->
                IF /\ b \in Asks(create)
                   /\ b = "creates" => Allows(k.lim["requests"], "requests", now)
                THEN AllowN(k.lim[b], b, now) ELSE k.lim[b]]
  <1>1. Spend(k, create) = [lim |-> lim, seen |-> now]
    BY Zenon DEF Spend
  <1>2. ASSUME NEW b \in Buckets
        PROVE  /\ lim[b] \in [tokens : Nat, last : Nat]
               /\ lim[b].tokens <= Burst[b] /\ lim[b].last <= now
    <2>1. /\ k.lim[b] \in [tokens : Nat, last : Nat]
          /\ k.lim[b].tokens <= Burst[b] /\ k.lim[b].last <= now
      BY DEF Sound, Limiters
    <2>2. LET m == AllowN(k.lim[b], b, now)
          IN  m \in [tokens : Nat, last : Nat] /\ m.tokens <= Burst[b] /\ m.last <= now
      BY <2>1, AllowNSound, Zenon
    <2> QED BY <2>1, <2>2, Zenon
  <1>3. lim \in Limiters
    BY <1>2, Zenon DEF Limiters
  <1> HIDE DEF lim
  <1> QED BY <1>1, <1>2, <1>3 DEF Sound

Request == [pc : {"free", "creating", "admit", "serving"}, addr : Addrs, id : Ids \cup {None},
            at : Nat, server : Keys \cup {Unknown}]

\* A free slot is well formed.
LEMMA NoRequestTyped ==
    NoRequest \in Request /\ NoRequest.pc = "free"
  BY LimitsAssumption, Zenon DEF NoRequest, Request

\* Only the pairs a developer used within the window stay.
LEMMA PrunedTyped ==
    ASSUME paired \in [Keys -> [Keys -> Nat]], NEW dev \in Keys, NEW t \in Nat
    PROVE  Pruned(dev, t) \in [Keys -> Nat]
  BY Zenon DEF Pruned

\* A request that is over leaves its slot as at first.
LEMMA OverTyped ==
    ASSUME TypeOK, SlotOK, NEW r \in Slots, Over(r)
    PROVE  /\ slot' \in [Slots -> Request]
           /\ \A q \in Slots :
                /\ slot'[q].pc # "free" => slot'[q].addr # Unknown
                /\ slot'[q].pc \in {"creating", "admit"} => slot'[q].id \in Ids
                /\ slot'[q].pc = "serving" => slot'[q].server \in Keys
  <1>1. slot \in [Slots -> Request]
    BY Zenon DEF TypeOK, Request
  <1>2. slot' \in [Slots -> Request]
    BY <1>1, NoRequestTyped, Zenon DEF Over
  <1>3. \A q \in Slots : slot'[q] = slot[q] \/ slot'[q].pc = "free"
    BY <1>1, NoRequestTyped, Zenon DEF Over
  <1> QED BY <1>2, <1>3, Zenon DEF SlotOK

\* The types hold in every step of a request.
LEMMA TypeRequest ==
    ASSUME TypeOK, SlotOK, NEW r \in Slots,
           Check(r) \/ Created(r) \/ Exempt(r) \/ Renew(r) \/ Refuse(r) \/ Admit(r) \/ Served(r)
    PROVE  TypeOK' /\ SlotOK'
  <1> USE DEF Request
  <1>1. CASE Check(r)
    <2>1. PICK a \in Addrs, i \in Ids, create \in BOOLEAN :
             /\ slot' = [slot EXCEPT ![r] = Entered(a, i, create)] \/ slot' = slot
             /\ ips' = IF a \in Watched
                       THEN [ips EXCEPT ![a] = Spend(BucketsOf(a), create)] ELSE ips
      BY <1>1, Zenon DEF Check
    <2>2. UNCHANGED <<mode, now, full, creators, paired, told, crowd>>
      BY <1>1, Zenon DEF Check, histVars
    <2>3. Entered(a, i, create) \in Request
      BY LimitsAssumption, Zenon DEF Entered, NoRequest, TypeOK
    <2>4. /\ Entered(a, i, create).pc # "free" => Entered(a, i, create).addr # Unknown
          /\ Entered(a, i, create).pc \in {"creating", "admit"} => Entered(a, i, create).id \in Ids
          /\ Entered(a, i, create).pc # "serving"
      BY Zenon DEF Entered, NoRequest
    <2>5. slot' \in [Slots -> Request]
      BY <2>1, <2>3, Zenon DEF TypeOK
    <2>6. \A q \in Slots : slot'[q] = slot[q] \/ slot'[q] = Entered(a, i, create)
      BY <2>1, Zenon DEF TypeOK
    <2>7. \A q \in Slots :
             /\ slot'[q].pc # "free" => slot'[q].addr # Unknown
             /\ slot'[q].pc \in {"creating", "admit"} => slot'[q].id \in Ids
             /\ slot'[q].pc = "serving" => slot'[q].server \in Keys
      BY <2>4, <2>6, Zenon DEF SlotOK
    <2>8. a \in Watched => Sound(Spend(BucketsOf(a), create))
      BY BucketsSound, SpendSound, Zenon DEF TypeOK
    <2>9. /\ ips' \in [Watched -> {None} \cup [lim : Limiters, seen : Nat]]
          /\ \A x \in Watched : ips'[x] # None => Sound(ips'[x])
      <3>1. \A x \in Watched : ips[x] # None => Sound(ips[x])
        BY Zenon DEF TypeOK, SlotOK, Sound, Limiters
      <3>2. ips \in [Watched -> {None} \cup [lim : Limiters, seen : Nat]]
        BY Zenon DEF TypeOK, Limiters
      <3>3. CASE a \notin Watched
        BY <2>1, <3>1, <3>2, <3>3, Zenon
      <3>4. CASE a \in Watched
        <4>1. Spend(BucketsOf(a), create) \in [lim : Limiters, seen : Nat]
          BY <2>8, <3>4, Zenon DEF Sound
        <4> QED BY <2>1, <2>8, <3>1, <3>2, <3>4, <4>1, Zenon
      <3> QED BY <3>3, <3>4, Zenon
    <2>10. TypeOK'
      BY <2>2, <2>5, <2>9, Zenon DEF TypeOK, Sound, Limiters
    <2>11. SlotOK'
      BY <2>2, <2>7, <2>9, Zenon DEF SlotOK, Sound
    <2> QED BY <2>10, <2>11, Zenon
  <1>2. CASE Created(r)
    <2>1. Over(r) /\ UNCHANGED <<mode, now, ips, full, paired, told, crowd>>
      BY <1>2, Zenon DEF Created, histVars
    <2>2. creators' \in [Ids -> [key : Keys \cup {Unknown}, at : Nat]]
      BY <1>2, KeyOfKeys DEF Created, TypeOK, SlotOK
    <2> QED BY <2>1, <2>2, OverTyped, Zenon DEF TypeOK, SlotOK
  <1>3. CASE Exempt(r)
    <2>1. Over(r) /\ UNCHANGED <<mode, now, ips, full, creators, paired, told, crowd>>
      BY <1>3, Zenon DEF Exempt, stateVars, histVars
    <2> QED BY <2>1, OverTyped, Zenon DEF TypeOK, SlotOK
  <1>4. CASE Renew(r)
    <2>1. Over(r) /\ UNCHANGED <<mode, now, ips, full, creators, crowd>>
      BY <1>4, Zenon DEF Renew
    <2>2. slot[r].at \in Nat
      BY Zenon DEF TypeOK
    <2>3. PICK dev \in Keys, server \in Keys :
             /\ paired' = [paired EXCEPT ![dev] =
                             [Pruned(dev, slot[r].at) EXCEPT ![server] = slot[r].at]]
             /\ told' = [told EXCEPT ![dev] = 0]
      BY <1>4, Zenon DEF Renew
    <2>4. paired \in [Keys -> [Keys -> Nat]] /\ told \in [Keys -> Nat]
      BY Zenon DEF TypeOK
    <2>5. Pruned(dev, slot[r].at) \in [Keys -> Nat]
      BY <2>2, <2>4, PrunedTyped, Zenon
    <2>6. paired' \in [Keys -> [Keys -> Nat]] /\ told' \in [Keys -> Nat]
      BY <2>2, <2>3, <2>4, <2>5, Zenon
    <2> QED BY <2>1, <2>6, OverTyped, Zenon DEF TypeOK, SlotOK
  <1>5. CASE Refuse(r)
    <2>1. Over(r) /\ UNCHANGED <<mode, now, ips, full, creators, crowd>>
      BY <1>5, Zenon DEF Refuse
    <2>2. PICK dev \in Keys : LET pairs == Pruned(dev, slot[r].at) IN
             /\ Overrun(pairs)
             /\ paired' = [paired EXCEPT ![dev] = pairs]
             /\ told' = [told EXCEPT ![dev] =
                            IF Cardinality(Known(pairs)) = Servers
                            THEN Min({pairs[s] : s \in Known(pairs)}) + Window ELSE 0]
      BY <1>5, Zenon DEF Refuse
    <2> DEFINE pairs == Pruned(dev, slot[r].at)
    <2>3. pairs \in [Keys -> Nat]
      BY PrunedTyped, Zenon DEF TypeOK
    <2>4. Known(pairs) # {}
      <3>1. Cardinality(Known(pairs)) >= Servers /\ Servers \in Nat \ {0}
        BY <2>2, LimitsAssumption, Zenon DEF Overrun
      <3> HIDE DEF pairs
      <3>2. Cardinality(Known(pairs)) # 0
        BY <3>1, KnownFinite
      <3> QED BY <3>2, FS_EmptySet, Zenon
    <2>5. Min({pairs[s] : s \in Known(pairs)}) \in Nat
      <3>1. {pairs[s] : s \in Known(pairs)} \in SUBSET Nat
        BY <2>3, Zenon DEF Known
      <3>2. {pairs[s] : s \in Known(pairs)} # {}
        BY <2>4, Zenon
      <3> HIDE DEF pairs
      <3> QED BY <3>1, <3>2, MinOfSet, Zenon
    <2> HIDE DEF pairs
    <2>6. told' \in [Keys -> Nat]
      BY <2>2, <2>5, LimitsAssumption DEF TypeOK, pairs
    <2>7. paired' \in [Keys -> [Keys -> Nat]]
      BY <2>2, <2>3, Zenon DEF TypeOK, pairs
    <2> QED BY <2>1, <2>6, <2>7, OverTyped, Zenon DEF TypeOK, SlotOK
  <1>6. CASE Admit(r)
    <2>1. PICK dev \in Keys, server \in Keys :
             /\ slot[r].pc = "admit"
             /\ paired' = [paired EXCEPT ![dev] = Pruned(dev, slot[r].at)]
             /\ slot' = [slot EXCEPT ![r].pc = "serving", ![r].server = server, ![r].id = None]
             /\ crowd' = IF mode = "observe" THEN crowd
                         ELSE [crowd EXCEPT ![dev] = Max({@, Cardinality(Serving(dev)) + 1})]
      BY <1>6, Zenon DEF Admit, Counts
    <2>2. UNCHANGED <<mode, now, ips, full, creators, told>>
      BY <1>6, Zenon DEF Admit
    <2>3. slot' \in [Slots -> Request]
      <3>0. slot[r] \in Request
        BY Zenon DEF TypeOK, Request
      <3>1. [slot[r] EXCEPT !.pc = "serving", !.server = server, !.id = None] \in Request
        BY <3>0, Zenon DEF Request
      <3>2. slot' = [slot EXCEPT ![r] =
                       [slot[r] EXCEPT !.pc = "serving", !.server = server, !.id = None]]
        BY <2>1, Zenon DEF TypeOK
      <3> QED BY <3>1, <3>2, Zenon DEF TypeOK
    <2>4. \A q \in Slots :
             \/ slot'[q] = slot[q]
             \/ /\ slot'[q].pc = "serving" /\ slot'[q].server \in Keys
                /\ slot'[q].addr = slot[r].addr
      BY <2>1, Zenon DEF TypeOK
    <2>5. paired' \in [Keys -> [Keys -> Nat]]
      BY <2>1, PrunedTyped, Zenon DEF TypeOK
    <2>6. Cardinality(Serving(dev)) + 1 \in Nat
      BY ServingFinite
    <2>7. crowd[dev] \in Nat
      BY Zenon DEF TypeOK
    <2>8. Max({crowd[dev], Cardinality(Serving(dev)) + 1}) \in Nat
      BY <2>6, <2>7, MaxOfTwo, Zenon
    <2>9. crowd' \in [Keys -> Nat]
      BY <2>1, <2>8, Zenon DEF TypeOK
    <2>10. TypeOK'
      BY <2>2, <2>3, <2>5, <2>9, Zenon DEF TypeOK
    <2>11. slot[r].addr # Unknown
      BY <2>1, Zenon DEF SlotOK
    <2> QED BY <2>2, <2>4, <2>10, <2>11, Zenon DEF SlotOK
  <1>7. CASE Served(r)
    <2>1. Over(r) /\ UNCHANGED <<mode, now, ips, full, creators, crowd>>
      BY <1>7, Zenon DEF Served
    <2>2. slot[r].pc = "serving" /\ slot[r].at \in Nat
      BY <1>7, Zenon DEF Served, TypeOK
    <2>3. KeyOf[slot[r].addr] \in Keys /\ slot[r].server \in Keys
      BY <2>2, KeyOfKeys, Zenon DEF SlotOK, TypeOK
    <2>4. told' \in [Keys -> Nat]
      BY <1>7, <2>2, <2>3 DEF Served, TypeOK
    <2>5. paired' \in [Keys -> [Keys -> Nat]]
      <3> DEFINE dev == KeyOf[slot[r].addr]
      <3>1. [paired[dev] EXCEPT ![slot[r].server] = slot[r].at] \in [Keys -> Nat]
        BY <2>2, <2>3, Zenon DEF TypeOK
      <3>2. \/ paired' = [paired EXCEPT ![dev] =
                            [paired[dev] EXCEPT ![slot[r].server] = slot[r].at]]
            \/ paired' = paired
        BY <1>7, Zenon DEF Served
      <3> HIDE DEF dev
      <3> QED BY <2>3, <3>1, <3>2, Zenon DEF TypeOK, dev
    <2> QED BY <2>1, <2>4, <2>5, OverTyped, Zenon DEF TypeOK, SlotOK
  <1> QED BY <1>1, <1>2, <1>3, <1>4, <1>5, <1>6, <1>7, Zenon

\* The types hold in every other step.
LEMMA TypeRest ==
    ASSUME TypeOK, SlotOK, Prune \/ SetLiveSessions \/ Tick \/ UNCHANGED vars
    PROVE  TypeOK' /\ SlotOK'
  <1>1. CASE Prune
    <2>1. UNCHANGED <<mode, now, full, slot, told, crowd>>
      BY <1>1, Zenon DEF Prune, histVars
    <2>2. paired' \in [Keys -> [Keys -> Nat]]
      BY <1>1, PrunedTyped, Zenon DEF Prune, TypeOK
    <2>3. creators' \in [Ids -> [key : Keys \cup {Unknown}, at : Nat]]
      BY <1>1, Zenon DEF Prune, TypeOK, NoCreator
    <2>4. \A a \in Watched : ips'[a] # None => ips'[a] = ips[a]
      BY <1>1, Zenon DEF Prune
    <2>5. ips' \in [Watched -> {None} \cup
                      [lim : [Buckets -> [tokens : Nat, last : Nat]], seen : Nat]]
      BY <1>1, Zenon DEF Prune, TypeOK
    <2>6. TypeOK'
      BY <2>1, <2>2, <2>3, <2>4, <2>5, Zenon DEF TypeOK
    <2> QED BY <2>1, <2>4, <2>6, Zenon DEF SlotOK
  <1>2. CASE SetLiveSessions
    BY <1>2, Zenon DEF SetLiveSessions, histVars, TypeOK, SlotOK
  <1>3. CASE Tick
    <2>1. now' = now + 1 /\ now \in Nat
      BY <1>3, Zenon DEF Tick, TypeOK
    <2>2. UNCHANGED <<mode, ips, full, creators, paired, slot, told, crowd>>
      BY <1>3, Zenon DEF Tick, stateVars, histVars
    <2>3. TypeOK'
      BY <2>1, <2>2 DEF TypeOK
    <2>4. \A a \in Watched : ips[a] # None => ips[a].seen \in Nat
      BY Zenon DEF TypeOK
    <2> QED BY <2>1, <2>2, <2>3, <2>4 DEF SlotOK
  <1>4. CASE UNCHANGED vars
    BY <1>4, Zenon DEF vars, stateVars, histVars, TypeOK, SlotOK
  <1> QED BY <1>1, <1>2, <1>3, <1>4, Zenon

\* No request, sweep or tick of the clock leaves the types: no bucket holds
\* more tokens than its burst, and none was used after its address was seen.
THEOREM Typing == Spec => [](TypeOK /\ SlotOK)
  <1>1. Init => TypeOK /\ SlotOK
    <2> SUFFICES ASSUME Init PROVE TypeOK /\ SlotOK
      BY Zenon
    <2>1. TypeOK
      BY NoRequestTyped, LimitsAssumption, Zenon DEF Init, TypeOK, NoCreator, NoRequest, Request
    <2> QED BY <2>1, NoRequestTyped, Zenon DEF Init, SlotOK, NoRequest
  <1>2. TypeOK /\ SlotOK /\ [Next]_vars => TypeOK' /\ SlotOK'
    BY TypeRequest, TypeRest, Zenon DEF Next
  <1> QED BY <1>1, <1>2, PTL DEF Spec

-----------------------------------------------------------------------------
(* How far the allowance is overrun.                                       *)

\* Servers that are known, and requests about to make one known, together.
Below(dev) ==
    Cardinality(Known(paired[dev])) + Cardinality(Serving(dev)) < Servers + crowd[dev]

CapInv == mode = "enforce" => \A dev \in Keys : Below(dev)

\* Dropping the pairs that are out of the window makes no server known.
LEMMA PrunedKnown ==
    ASSUME NEW dev \in Keys, NEW t \in Nat
    PROVE  Known(Pruned(dev, t)) \subseteq Known(paired[dev])
  BY Zenon DEF Known, Pruned, Recent

\* A request that is over is not being served.
LEMMA OverServing ==
    ASSUME TypeOK, NEW r \in Slots, Over(r), NEW dev
    PROVE  Serving(dev)' = Serving(dev) \ {r}
  <1>1. \A q \in Slots : slot'[q] = IF q = r THEN NoRequest ELSE slot[q]
    BY Zenon DEF Over, TypeOK
  <1> QED BY <1>1, NoRequestTyped, Zenon DEF Serving

\* A step that adds neither a server nor a request being served.
LEMMA CapShrinks ==
    ASSUME TypeOK, CapInv, mode = "enforce", NEW dev \in Keys,
           Known(paired[dev])' \subseteq Known(paired[dev]),
           Serving(dev)' \subseteq Serving(dev),
           crowd'[dev] = crowd[dev]
    PROVE  Below(dev)'
  <1>1. Cardinality(Known(paired[dev])') <= Cardinality(Known(paired[dev]))
    BY KnownFinite, FS_Subset, Zenon
  <1>2. Cardinality(Serving(dev)') <= Cardinality(Serving(dev))
    BY ServingFinite, FS_Subset, Zenon
  <1>3. Cardinality(Known(paired[dev])') \in Nat
    BY KnownFinite, Zenon
  <1>4. IsFiniteSet(Serving(dev)')
    BY ServingFinite, FS_Subset, Zenon
  <1>5. Cardinality(Serving(dev)') \in Nat
    BY <1>4, FS_CardinalityType, Zenon
  <1>6. Cardinality(Known(paired[dev])) \in Nat /\ Cardinality(Serving(dev)) \in Nat
    BY KnownFinite, ServingFinite, Zenon
  <1>7. crowd[dev] \in Nat /\ Servers \in Nat
    BY LimitsAssumption, Zenon DEF TypeOK
  <1>8. Cardinality(Known(paired[dev])) + Cardinality(Serving(dev)) < Servers + crowd[dev]
    BY Zenon DEF CapInv, Below
  <1> QED BY <1>1, <1>2, <1>3, <1>5, <1>6, <1>7, <1>8 DEF Below

\* The count and the requests being served stay below the bound when a new
\* server is admitted: the history counts the request.
LEMMA CapAdmit ==
    ASSUME TypeOK, CapInv, mode = "enforce", NEW r \in Slots, Admit(r), NEW k \in Keys
    PROVE  Below(k)'
  <1>1. PICK dev \in Keys, server \in Keys :
           /\ slot[r].pc = "admit" /\ dev = KeyOf[slot[r].addr]
           /\ ~Overrun(Pruned(dev, slot[r].at))
           /\ paired' = [paired EXCEPT ![dev] = Pruned(dev, slot[r].at)]
           /\ slot' = [slot EXCEPT ![r].pc = "serving", ![r].server = server, ![r].id = None]
           /\ crowd' = [crowd EXCEPT ![dev] = Max({@, Cardinality(Serving(dev)) + 1})]
    BY Zenon DEF Admit, Counts
  <1>2. \A q \in Slots : q # r => slot'[q] = slot[q]
    BY <1>1, Zenon DEF TypeOK
  <1>3. slot'[r].pc = "serving" /\ slot'[r].addr = slot[r].addr
    BY <1>1, Zenon DEF TypeOK
  <1>4. CASE k # dev
    <2>1. Serving(k)' \subseteq Serving(k)
      BY <1>1, <1>2, <1>3, <1>4, Zenon DEF Serving
    <2>2. Known(paired[k])' \subseteq Known(paired[k]) /\ crowd'[k] = crowd[k]
      BY <1>1, <1>4, Zenon DEF TypeOK
    <2> QED BY <2>1, <2>2, CapShrinks, Zenon
  <1>5. CASE k = dev
    <2>1. Serving(dev)' = Serving(dev) \cup {r} /\ r \notin Serving(dev)
      BY <1>1, <1>2, <1>3, Zenon DEF Serving
    <2>2. Cardinality(Serving(dev)') = Cardinality(Serving(dev)) + 1
      BY <2>1, ServingFinite, FS_AddElement, Zenon
    <2>3. paired'[dev] = Pruned(dev, slot[r].at)
      BY <1>1, Zenon DEF TypeOK
    <2>4. Cardinality(Known(paired[dev])') < Servers /\ Cardinality(Known(paired[dev])') \in Nat
      <3>1. ~(Cardinality(Known(paired[dev])') >= Servers)
        BY <1>1, <2>3, Zenon DEF Overrun
      <3>2. Cardinality(Known(paired[dev])') \in Nat
        BY KnownFinite, Zenon
      <3> QED BY <3>1, <3>2, LimitsAssumption
    <2>5. crowd'[dev] = Max({crowd[dev], Cardinality(Serving(dev)) + 1})
      BY <1>1, Zenon DEF TypeOK
    <2>6. crowd[dev] \in Nat /\ Cardinality(Serving(dev)) \in Nat
      BY ServingFinite, Zenon DEF TypeOK
    <2>7. crowd'[dev] >= Cardinality(Serving(dev)) + 1 /\ crowd'[dev] \in Nat
      BY <2>5, <2>6, MaxOfTwo
    <2> QED BY <1>5, <2>2, <2>4, <2>6, <2>7, LimitsAssumption DEF Below
  <1> QED BY <1>4, <1>5, Zenon

\* When the handler has answered, a server takes the place of a request.
LEMMA CapServed ==
    ASSUME TypeOK, SlotOK, CapInv, mode = "enforce", NEW r \in Slots, Served(r), NEW k \in Keys
    PROVE  Below(k)'
  <1> DEFINE dev == KeyOf[slot[r].addr]
             server == slot[r].server
  <1>1. /\ slot[r].pc = "serving" /\ Over(r) /\ crowd' = crowd
        /\ \/ paired' = [paired EXCEPT ![dev][server] = slot[r].at]
           \/ paired' = paired
    BY Zenon DEF Served
  <1>2. Serving(k)' = Serving(k) \ {r}
    BY <1>1, OverServing, Zenon
  <1>3. CASE k # dev \/ paired' = paired
    <2>1. paired'[k] = paired[k]
      BY <1>1, <1>3, Zenon DEF TypeOK
    <2> QED BY <1>1, <1>2, <2>1, CapShrinks, Zenon
  <1>4. CASE k = dev /\ paired' = [paired EXCEPT ![dev][server] = slot[r].at]
    <2>1. r \in Serving(k)
      BY <1>1, <1>4, Zenon DEF Serving
    <2>2. Cardinality(Serving(k)') = Cardinality(Serving(k)) - 1
      BY <1>2, <2>1, ServingFinite, FS_RemoveElement, Zenon
    <2>3. paired'[k] = [paired[k] EXCEPT ![server] = slot[r].at]
      BY <1>4, Zenon DEF TypeOK
    <2>4. \A s \in Keys : s # server => paired'[k][s] = paired[k][s]
      BY <2>3, Zenon DEF TypeOK
    <2>5. Known(paired[k])' \in SUBSET (Known(paired[k]) \cup {server})
      BY <2>4, Zenon DEF Known
    <2>6. Cardinality(Known(paired[k]) \cup {server}) <= Cardinality(Known(paired[k])) + 1
      <3> DEFINE S == Known(paired[k])
      <3>1. IsFiniteSet(S) /\ Cardinality(S) \in Nat
        BY KnownFinite, Zenon
      <3> HIDE DEF S, server
      <3>2. Cardinality(S \cup {server}) =
               IF server \in S THEN Cardinality(S) ELSE Cardinality(S) + 1
        BY <3>1, FS_AddElement, Zenon
      <3>3. Cardinality(S \cup {server}) <= Cardinality(S) + 1
        BY <3>1, <3>2
      <3> QED BY <3>3, Zenon DEF S
    <2>7. /\ IsFiniteSet(Known(paired[k]) \cup {server})
          /\ Cardinality(Known(paired[k]) \cup {server}) \in Nat
      BY KnownFinite, FS_AddElement, FS_CardinalityType, Zenon
    <2>8. Cardinality(Known(paired[k])') <= Cardinality(Known(paired[k]) \cup {server})
      BY <2>5, <2>7, FS_Subset, Zenon
    <2>9. Cardinality(Known(paired[k])') \in Nat
      BY KnownFinite, Zenon
    <2>10. /\ Cardinality(Known(paired[k])) \in Nat /\ Cardinality(Serving(k)) \in Nat
           /\ crowd[k] \in Nat /\ Servers \in Nat
      BY KnownFinite, ServingFinite, LimitsAssumption, Zenon DEF TypeOK
    <2>11. Cardinality(Known(paired[k])) + Cardinality(Serving(k)) < Servers + crowd[k]
      BY Zenon DEF CapInv, Below
    <2>12. crowd'[k] = crowd[k]
      BY <1>1, Zenon
    <2> QED BY <2>2, <2>6, <2>7, <2>8, <2>9, <2>10, <2>11, <2>12 DEF Below
  <1> QED BY <1>1, <1>3, <1>4, Zenon

\* The bound holds after every step.
LEMMA CapStep ==
    ASSUME TypeOK, SlotOK, CapInv, [Next]_vars
    PROVE  CapInv'
  <1> SUFFICES ASSUME mode' = "enforce", NEW k \in Keys
               PROVE  Below(k)'
    BY Zenon DEF CapInv
  <1>1. mode = "enforce"
    <2>1. ASSUME NEW r \in Slots, Check(r) \/ Created(r) \/ Exempt(r) PROVE mode' = mode
      BY <2>1, Zenon DEF Check, Created, Exempt
    <2>2. ASSUME NEW r \in Slots, Renew(r) \/ Refuse(r) \/ Admit(r) \/ Served(r)
          PROVE  mode' = mode
      BY <2>2, Zenon DEF Renew, Refuse, Admit, Served
    <2>3. CASE Prune \/ SetLiveSessions \/ Tick \/ UNCHANGED vars
      BY <2>3, Zenon DEF Prune, SetLiveSessions, Tick, vars
    <2> QED BY <2>1, <2>2, <2>3, Zenon DEF Next
  <1>2. ASSUME NEW r \in Slots, Check(r) PROVE Below(k)'
    <2>1. PICK a \in Addrs, i \in Ids, create \in BOOLEAN :
             slot' = [slot EXCEPT ![r] = Entered(a, i, create)] \/ slot' = slot
      BY <1>2, Zenon DEF Check
    <2>2. Entered(a, i, create).pc # "serving"
      BY Zenon DEF Entered, NoRequest
    <2>3. \A q \in Slots : slot'[q] = slot[q] \/ slot'[q].pc # "serving"
      BY <2>1, <2>2, Zenon DEF TypeOK
    <2>4. Serving(k)' \subseteq Serving(k)
      BY <2>3, Zenon DEF Serving
    <2>5. paired' = paired /\ crowd' = crowd
      BY <1>2, Zenon DEF Check, histVars
    <2> QED BY <1>1, <2>4, <2>5, CapShrinks, Zenon
  <1>3. ASSUME NEW r \in Slots, Created(r) \/ Exempt(r) PROVE Below(k)'
    <2>1. Over(r) /\ paired' = paired /\ crowd' = crowd
      BY <1>3, Zenon DEF Created, Exempt, stateVars, histVars
    <2> QED BY <1>1, <2>1, OverServing, CapShrinks, Zenon
  <1>4. ASSUME NEW r \in Slots, Renew(r) PROVE Below(k)'
    <2>1. PICK dev \in Keys, server \in Keys :
             /\ server \in Known(Pruned(dev, slot[r].at))
             /\ paired' = [paired EXCEPT ![dev] =
                             [Pruned(dev, slot[r].at) EXCEPT ![server] = slot[r].at]]
             /\ Over(r) /\ crowd' = crowd
      BY <1>4, Zenon DEF Renew
    <2>2. slot[r].at \in Nat
      BY Zenon DEF TypeOK
    <2> DEFINE pairs == Pruned(dev, slot[r].at)
    <2>3. pairs \in [Keys -> Nat] /\ Known(pairs) \subseteq Known(paired[dev])
      BY <2>2, PrunedTyped, PrunedKnown, Zenon DEF TypeOK
    <2>4. server \in Known(pairs)
      BY <2>1, Zenon
    <2> HIDE DEF pairs
    <2>5. Known([pairs EXCEPT ![server] = slot[r].at]) \subseteq Known(pairs)
      BY <2>3, <2>4, Zenon DEF Known
    <2>6. Known(paired[k])' \subseteq Known(paired[k])
      BY <2>1, <2>3, <2>5, Zenon DEF TypeOK, pairs
    <2> QED BY <1>1, <2>1, <2>6, OverServing, CapShrinks, Zenon
  <1>5. ASSUME NEW r \in Slots, Refuse(r) PROVE Below(k)'
    <2>1. PICK dev \in Keys :
             /\ paired' = [paired EXCEPT ![dev] = Pruned(dev, slot[r].at)]
             /\ Over(r) /\ crowd' = crowd
      BY <1>5, Zenon DEF Refuse
    <2>2. slot[r].at \in Nat
      BY Zenon DEF TypeOK
    <2>3. Known(paired[k])' \subseteq Known(paired[k])
      BY <2>1, <2>2, PrunedKnown, Zenon DEF TypeOK
    <2> QED BY <1>1, <2>1, <2>3, OverServing, CapShrinks, Zenon
  <1>6. ASSUME NEW r \in Slots, Admit(r) PROVE Below(k)'
    BY <1>1, <1>6, CapAdmit, Zenon
  <1>7. ASSUME NEW r \in Slots, Served(r) PROVE Below(k)'
    BY <1>1, <1>7, CapServed, Zenon
  <1>8. ASSUME Prune PROVE Below(k)'
    <2>1. paired'[k] = Pruned(k, now) /\ now \in Nat
      BY <1>8, Zenon DEF Prune, TypeOK
    <2>2. Known(paired[k])' \subseteq Known(paired[k])
      BY <2>1, PrunedKnown, Zenon
    <2>3. slot' = slot /\ crowd' = crowd
      BY <1>8, Zenon DEF Prune, histVars
    <2>4. Serving(k)' = Serving(k)
      BY <2>3, Zenon DEF Serving
    <2> QED BY <1>1, <2>2, <2>3, <2>4, CapShrinks, Zenon
  <1>9. ASSUME SetLiveSessions \/ Tick \/ UNCHANGED vars PROVE Below(k)'
    <2>1. slot' = slot /\ crowd' = crowd /\ paired' = paired
      BY <1>9, Zenon DEF SetLiveSessions, Tick, vars, stateVars, histVars
    <2>2. Serving(k)' = Serving(k)
      BY <2>1, Zenon DEF Serving
    <2> QED BY <1>1, <2>1, <2>2, CapShrinks, Zenon
  <1> QED BY <1>2, <1>3, <1>4, <1>5, <1>6, <1>7, <1>8, <1>9, Zenon DEF Next

\* With "enforce" a developer's servers exceed AllowanceServers by no more
\* than the requests that passed allowance's first critical section before
\* others reached its second one.
THEOREM Cap == Spec => []CapBounded
  <1>1. Init => CapInv
    <2> SUFFICES ASSUME Init, NEW dev \in Keys PROVE Below(dev)
      BY Zenon DEF CapInv
    <2>1. Known(paired[dev]) = {}
      BY Zenon DEF Init, Known
    <2>2. Serving(dev) = {}
      BY NoRequestTyped, Zenon DEF Init, Serving
    <2>3. crowd[dev] = 0
      BY Zenon DEF Init
    <2> QED BY <2>1, <2>2, <2>3, FS_EmptySet, LimitsAssumption DEF Below
  <1>2. TypeOK /\ SlotOK /\ CapInv /\ [Next]_vars => CapInv'
    BY CapStep, Zenon
  <1>3. TypeOK /\ CapInv => CapBounded
    <2> SUFFICES ASSUME TypeOK, CapInv, mode = "enforce", NEW dev \in Keys
                 PROVE  Cardinality(Known(paired[dev])) < Servers + crowd[dev]
      BY Zenon DEF CapBounded
    <2>1. Below(dev) /\ crowd[dev] \in Nat
      BY Zenon DEF CapInv, TypeOK
    <2>2. Cardinality(Known(paired[dev])) \in Nat /\ Cardinality(Serving(dev)) \in Nat
      BY KnownFinite, ServingFinite, Zenon
    <2> QED BY <2>1, <2>2, LimitsAssumption DEF Below
  <1> QED BY <1>1, <1>2, <1>3, Typing, PTL DEF Spec

-----------------------------------------------------------------------------
(* Retry-After.                                                            *)

\* At the time a developer was told, one of its pairs has left the window.
Room(dev) == told[dev] # 0 => Cardinality(Known(Pruned(dev, told[dev]))) < Servers

RetryInv == \A dev \in Keys : Room(dev)

\* Pairs that are only dropped leave as much room.
LEMMA RoomShrinks ==
    ASSUME TypeOK, NEW dev \in Keys, Room(dev), told'[dev] = told[dev],
           \A s \in Keys : paired'[dev][s] = paired[dev][s] \/ paired'[dev][s] = 0
    PROVE  Room(dev)'
  <1> SUFFICES ASSUME told[dev] # 0
               PROVE  Cardinality(Known(Pruned(dev, told[dev]))') < Servers
    BY Zenon DEF Room
  <1>1. Known(Pruned(dev, told[dev]))' \in SUBSET Known(Pruned(dev, told[dev]))
    BY Zenon DEF Known, Pruned, Recent
  <1>2. Cardinality(Known(Pruned(dev, told[dev]))') <= Cardinality(Known(Pruned(dev, told[dev])))
    BY <1>1, KnownFinite, FS_Subset, Zenon
  <1>3. Cardinality(Known(Pruned(dev, told[dev]))') \in Nat
    BY KnownFinite, Zenon
  <1>4. Cardinality(Known(Pruned(dev, told[dev]))) \in Nat
    BY KnownFinite, Zenon
  <1>5. Cardinality(Known(Pruned(dev, told[dev]))) < Servers
    BY Zenon DEF Room
  <1> QED BY <1>2, <1>3, <1>4, <1>5, LimitsAssumption

\* Dropping the pairs out of the window drops pairs.
LEMMA PrunedDrops ==
    ASSUME NEW dev \in Keys, NEW t \in Nat, NEW s \in Keys
    PROVE  Pruned(dev, t)[s] = paired[dev][s] \/ Pruned(dev, t)[s] = 0
  BY Zenon DEF Pruned

\* A refusal tells the time at which the oldest of the pairs leaves.
LEMMA RoomRefuse ==
    ASSUME TypeOK, RetryInv, NEW r \in Slots, Refuse(r), NEW k \in Keys
    PROVE  Room(k)'
  <1>1. PICK dev \in Keys :
           /\ Overrun(Pruned(dev, slot[r].at))
           /\ paired' = [paired EXCEPT ![dev] = Pruned(dev, slot[r].at)]
           /\ told' = [told EXCEPT ![dev] =
                 IF Cardinality(Known(Pruned(dev, slot[r].at))) = Servers
                 THEN Min({Pruned(dev, slot[r].at)[s] : s \in Known(Pruned(dev, slot[r].at))}) + Window
                 ELSE 0]
    BY Zenon DEF Refuse
  <1>2. CASE k # dev
    <2>1. paired'[k] = paired[k] /\ told'[k] = told[k]
      BY <1>1, <1>2, Zenon DEF TypeOK
    <2> QED BY <2>1, RoomShrinks, Zenon DEF RetryInv
  <1>3. CASE k = dev
    <2> DEFINE pairs == Pruned(dev, slot[r].at)
               times == {pairs[s] : s \in Known(pairs)}
    <2>1. pairs \in [Keys -> Nat]
      BY PrunedTyped, Zenon DEF TypeOK
    <2>2. paired'[dev] = pairs
      BY <1>1, Zenon DEF TypeOK
    <2>3. told'[dev] = IF Cardinality(Known(pairs)) = Servers THEN Min(times) + Window ELSE 0
      BY <1>1, Zenon DEF TypeOK
    <2> HIDE DEF pairs
    <2> SUFFICES ASSUME Cardinality(Known(pairs)) = Servers
                 PROVE  Cardinality(Known(Pruned(dev, told[dev]))') < Servers
      BY <1>3, <2>3, Zenon DEF Room
    <2>4. Known(pairs) # {}
      BY FS_EmptySet, LimitsAssumption, Zenon
    <2>5. times \in SUBSET Nat /\ times # {}
      BY <2>1, <2>4, Zenon DEF Known
    <2>6. Min(times) \in times
      <3> HIDE DEF times
      <3> QED BY <2>5, MinOfSet, Zenon
    <2>7. PICK first \in Known(pairs) : Min(times) = pairs[first]
      BY <2>6, Zenon
    <2>8. told'[dev] = pairs[first] + Window
      BY <2>3, <2>7, Zenon
    <2> HIDE DEF times
    <2>9. first \in Keys /\ pairs[first] \in Nat
      BY <2>1, Zenon DEF Known
    <2>10. Known(Pruned(dev, told[dev]))' = {s \in Keys : Recent(pairs[s], told'[dev])}
      BY <2>2, Zenon DEF Known, Pruned, Recent
    <2>11. {s \in Keys : Recent(pairs[s], told'[dev])} \in SUBSET (Known(pairs) \ {first})
      <3>1. ~Recent(pairs[first], told'[dev])
        BY <2>8, <2>9, LimitsAssumption DEF Recent
      <3> QED BY <3>1, Zenon DEF Known, Recent
    <2>12. Cardinality(Known(pairs) \ {first}) = Servers - 1 /\ IsFiniteSet(Known(pairs) \ {first})
      BY KnownFinite, FS_RemoveElement, Zenon
    <2>13. Cardinality(Known(Pruned(dev, told[dev]))') <= Servers - 1
      BY <2>10, <2>11, <2>12, FS_Subset
    <2>14. Cardinality(Known(Pruned(dev, told[dev]))') \in Nat
      BY KnownFinite, Zenon
    <2> QED BY <2>13, <2>14, LimitsAssumption
  <1> QED BY <1>2, <1>3, Zenon

\* A developer keeps its room in every step, or is told anew.
LEMMA RetryStep ==
    ASSUME TypeOK, SlotOK, RetryInv, [Next]_vars
    PROVE  RetryInv'
  <1> SUFFICES ASSUME NEW k \in Keys PROVE Room(k)'
    BY Zenon DEF RetryInv
  <1>1. Room(k)
    BY Zenon DEF RetryInv
  <1>2. ASSUME paired' = paired, told' = told PROVE Room(k)'
    BY <1>1, <1>2, RoomShrinks, Zenon
  <1>3. ASSUME NEW r \in Slots, Check(r) \/ Created(r) \/ Exempt(r) PROVE Room(k)'
    BY <1>2, <1>3, Zenon DEF Check, Created, Exempt, stateVars, histVars
  <1>4. ASSUME NEW r \in Slots, Renew(r) PROVE Room(k)'
    <2>1. PICK dev \in Keys, server \in Keys :
             /\ paired' = [paired EXCEPT ![dev] =
                             [Pruned(dev, slot[r].at) EXCEPT ![server] = slot[r].at]]
             /\ told' = [told EXCEPT ![dev] = 0]
      BY <1>4, Zenon DEF Renew
    <2>2. CASE k = dev
      BY <2>1, <2>2, Zenon DEF Room, TypeOK
    <2>3. CASE k # dev
      <3>1. paired'[k] = paired[k] /\ told'[k] = told[k]
        BY <2>1, <2>3, Zenon DEF TypeOK
      <3> QED BY <1>1, <3>1, RoomShrinks, Zenon
    <2> QED BY <2>2, <2>3, Zenon
  <1>5. ASSUME NEW r \in Slots, Refuse(r) PROVE Room(k)'
    BY <1>5, RoomRefuse, Zenon
  <1>6. ASSUME NEW r \in Slots, Admit(r) PROVE Room(k)'
    <2>1. PICK dev \in Keys : paired' = [paired EXCEPT ![dev] = Pruned(dev, slot[r].at)]
      BY <1>6, Zenon DEF Admit
    <2>2. told' = told /\ slot[r].at \in Nat
      BY <1>6, Zenon DEF Admit, TypeOK
    <2>3. paired'[k] = paired[k] \/ paired'[k] = Pruned(k, slot[r].at)
      BY <2>1, Zenon DEF TypeOK
    <2> QED BY <1>1, <2>2, <2>3, PrunedDrops, RoomShrinks
  <1>7. ASSUME NEW r \in Slots, Served(r) PROVE Room(k)'
    <2> DEFINE dev == KeyOf[slot[r].addr]
    <2>1. CASE paired' = paired /\ told' = told
      BY <1>2, <2>1, Zenon
    <2>2. CASE /\ paired' = [paired EXCEPT ![dev][slot[r].server] = slot[r].at]
               /\ told' = [told EXCEPT ![dev] = 0]
      <3>1. CASE k = dev
        BY <2>2, <3>1, Zenon DEF Room, TypeOK
      <3>2. CASE k # dev
        <4>1. paired'[k] = paired[k] /\ told'[k] = told[k]
          BY <2>2, <3>2, Zenon DEF TypeOK
        <4> QED BY <1>1, <4>1, RoomShrinks, Zenon
      <3> QED BY <3>1, <3>2, Zenon
    <2> QED BY <1>7, <2>1, <2>2, Zenon DEF Served
  <1>8. ASSUME Prune PROVE Room(k)'
    <2>1. paired'[k] = Pruned(k, now) /\ told' = told /\ now \in Nat
      BY <1>8, Zenon DEF Prune, histVars, TypeOK
    <2> QED BY <1>1, <2>1, PrunedDrops, RoomShrinks, Zenon
  <1>9. ASSUME SetLiveSessions \/ Tick \/ UNCHANGED vars PROVE Room(k)'
    BY <1>2, <1>9, Zenon DEF SetLiveSessions, Tick, vars, stateVars, histVars
  <1> QED BY <1>3, <1>4, <1>5, <1>6, <1>7, <1>8, <1>9, Zenon DEF Next

\* A developer that waited as long as Retry-After said is let in.
LEMMA RoomLetsIn ==
    ASSUME TypeOK, RetryInv, NEW r \in Slots, Refuse(r)
    PROVE  LET due == told[KeyOf[slot[r].addr]] IN due = 0 \/ slot[r].at < due
  <1>1. PICK dev \in Keys :
           dev = KeyOf[slot[r].addr] /\ Overrun(Pruned(dev, slot[r].at))
    BY Zenon DEF Refuse, Counts
  <1> SUFFICES ASSUME told[dev] # 0, ~(slot[r].at < told[dev]) PROVE FALSE
    BY <1>1, Zenon
  <1>2. slot[r].at \in Nat /\ told[dev] \in Nat /\ paired[dev] \in [Keys -> Nat]
    BY Zenon DEF TypeOK
  <1>3. \A s \in Keys : Recent(paired[dev][s], slot[r].at) => Recent(paired[dev][s], told[dev])
    BY <1>2, LimitsAssumption DEF Recent
  <1>4. Known(Pruned(dev, slot[r].at)) \in SUBSET Known(Pruned(dev, told[dev]))
    BY <1>3, Zenon DEF Known, Pruned, Recent
  <1>5. Cardinality(Known(Pruned(dev, slot[r].at))) <= Cardinality(Known(Pruned(dev, told[dev])))
    BY <1>4, KnownFinite, FS_Subset, Zenon
  <1>6. /\ Cardinality(Known(Pruned(dev, slot[r].at))) \in Nat
        /\ Cardinality(Known(Pruned(dev, told[dev]))) \in Nat
    BY KnownFinite, Zenon
  <1>7. Cardinality(Known(Pruned(dev, told[dev]))) < Servers
    BY Zenon DEF RetryInv, Room
  <1>8. Cardinality(Known(Pruned(dev, slot[r].at))) >= Servers
    BY <1>1, Zenon DEF Overrun
  <1> QED BY <1>5, <1>6, <1>7, <1>8, LimitsAssumption

\* Retry-After can be relied on: allowance computes it from the oldest pair,
\* and whatever happens until then only drops the developer's pairs, unless
\* one of its own requests succeeds.
THEOREM Retry == Spec => RetryAfterHolds
  <1>1. Init => RetryInv
    BY Zenon DEF Init, RetryInv, Room
  <1>2. TypeOK /\ SlotOK /\ RetryInv /\ [Next]_vars => RetryInv'
    BY RetryStep
  <1>3. TypeOK /\ RetryInv =>
           [\A r \in Slots : Refuse(r) =>
              LET due == told[KeyOf[slot[r].addr]] IN due = 0 \/ slot[r].at < due]_vars
    BY RoomLetsIn, Zenon
  <1> QED BY <1>1, <1>2, <1>3, Typing, PTL DEF Spec, RetryAfterHolds

-----------------------------------------------------------------------------
(* Pruning the buckets.                                                    *)

\* An hour without a request fills a bucket.
LEMMA HourFills ==
    ASSUME TypeOK, SlotOK, NEW a \in Watched, NEW b \in Buckets,
           ips[a] # None, now > ips[a].seen + Hour
    PROVE  TokensAt(ips[a].lim[b], b, now) = Burst[b]
  <1> DEFINE l == ips[a].lim[b]
             idle == now - l.last
  <1>1. /\ l.tokens \in Nat /\ l.last \in Nat /\ now \in Nat /\ ips[a].seen \in Nat
        /\ l.last <= ips[a].seen
    BY DEF TypeOK, SlotOK
  <1>2. /\ Burst[b] \in Nat /\ Refill[b] \in Nat /\ Hour \in Nat
        /\ Hour * Refill[b] >= Burst[b]
    BY LimitsAssumption, Zenon
  <1>3. idle \in Nat /\ idle >= Hour
    BY <1>1, <1>2
  <1>4. idle * Refill[b] >= Hour * Refill[b] /\ idle * Refill[b] \in Nat /\ Hour * Refill[b] \in Nat
    <2> HIDE DEF idle
    <2> DEFINE more == idle - Hour
    <2>1. more \in Nat /\ idle = Hour + more
      BY <1>2, <1>3
    <2> HIDE DEF more
    <2>2. \A x, y, z \in Nat : (x + y) * z = x * z + y * z /\ x * z \in Nat /\ y * z \in Nat
      BY SMT
    <2>3. idle * Refill[b] = Hour * Refill[b] + more * Refill[b]
      BY <1>2, <2>1, <2>2
    <2>4. Hour * Refill[b] \in Nat /\ more * Refill[b] \in Nat
      BY <1>2, <2>1, <2>2, Zenon
    <2> QED BY <2>3, <2>4
  <1>5. TokensAt(l, b, now) = Min({Burst[b], l.tokens + idle * Refill[b]})
    BY Zenon DEF TokensAt
  <1> DEFINE sum == l.tokens + idle * Refill[b]
  <1>6. sum \in Nat /\ sum >= Burst[b]
    <2> HIDE DEF idle, l
    <2> QED BY <1>1, <1>2, <1>4
  <1> HIDE DEF sum
  <1>7. Min({Burst[b], sum}) = Burst[b]
    BY <1>2, <1>6, MinOfTwo
  <1> QED BY <1>5, <1>7, Zenon DEF sum

\* Prune drops the buckets of an address only when new ones would be the same.
THEOREM Forgotten == Spec => PruneInvisible
  <1>1. ASSUME TypeOK, SlotOK, [Next]_vars,
               NEW a \in Watched, NEW b \in Buckets, ips[a] # None, ips'[a] = None
        PROVE  TokensAt(ips[a].lim[b], b, now) = Burst[b]
    <2>1. CASE Prune
      BY <1>1, <2>1, HourFills, Zenon DEF Prune
    <2>2. ASSUME NEW r \in Slots, Check(r) PROVE FALSE
      <3>1. PICK x \in Addrs, create \in BOOLEAN :
               ips' = IF x \in Watched
                      THEN [ips EXCEPT ![x] = Spend(BucketsOf(x), create)] ELSE ips
        BY <2>2, Zenon DEF Check
      <3>2. x \in Watched => Spend(BucketsOf(x), create) \in [lim : Limiters, seen : Nat]
        BY <1>1, BucketsSound, SpendSound, Zenon DEF TypeOK, Sound
      <3>3. x \in Watched => Spend(BucketsOf(x), create) # None
        BY <3>2, LimitsAssumption, Zenon DEF Limiters
      <3> QED BY <1>1, <3>1, <3>3, Zenon DEF TypeOK
    <2>3. CASE ips' = ips
      BY <1>1, <2>3, Zenon
    <2>4. ASSUME NEW r \in Slots, Created(r) \/ Exempt(r) \/ Renew(r) \/ Refuse(r)
          PROVE  ips' = ips
      BY <2>4, Zenon DEF Created, Exempt, Renew, Refuse, stateVars
    <2>5. ASSUME NEW r \in Slots, Admit(r) \/ Served(r) PROVE ips' = ips
      BY <2>5, Zenon DEF Admit, Served
    <2>6. CASE SetLiveSessions \/ Tick \/ UNCHANGED vars
      BY <2>3, <2>6, Zenon DEF SetLiveSessions, Tick, vars, stateVars
    <2> QED BY <1>1, <2>1, <2>2, <2>3, <2>4, <2>5, <2>6, Zenon DEF Next
  <1>2. TypeOK /\ SlotOK /\ [Next]_vars =>
           [\A a \in Watched, b \in Buckets : ips[a] # None /\ ips'[a] = None =>
              TokensAt(ips[a].lim[b], b, now) = Burst[b]]_vars
    BY <1>1, Zenon
  <1> QED BY <1>2, Typing, PTL DEF Spec, PruneInvisible
=============================================================================
